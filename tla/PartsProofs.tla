---------------------------- MODULE PartsProofs ----------------------------
(***************************************************************************)
(* What the runs check of the parts that share no state (MCParts), proved  *)
(* for all values of the constants.  A section for each part has its       *)
(* inductive invariant, what it implies, and that every step of the part   *)
(* keeps it; the theorems about all parts together are at the end.         *)
(***************************************************************************)
EXTENDS MCParts, DeviceTrustProofs, AppServerTransportProofs, FiniteSetTheorems,
        WellFoundedInduction

-----------------------------------------------------------------------------
(* Sessions (SessionRefresh)                                               *)

TabType == [refresh : Sess!Sessions, reply : {"none", "posted", "given", "refused", "lost"},
            brings : Sess!Sessions, pairing : Sess!Sessions, seen : BOOLEAN, checking : BOOLEAN,
            phase : {"out", "in", "failed"}]

\* No token was drawn that was not counted.
TokensAreCounted ==
  /\ sessStore <= sessGiven
  /\ \A token \in sessValid : token <= sessGiven
  /\ \A t \in Tabs : sessTabs[t].refresh <= sessGiven /\ sessTabs[t].brings <= sessGiven
                     /\ sessTabs[t].pairing <= sessGiven

\* A token on its way to a tab is in no other place, and no refresh uses it.
TokensAreFresh ==
  /\ \A t \in Tabs : sessTabs[t].brings # 0 =>
       /\ sessStore # sessTabs[t].brings
       /\ \A u \in Tabs : /\ sessTabs[u].refresh # sessTabs[t].brings
                          /\ sessTabs[u].pairing # sessTabs[t].brings
                          /\ sessTabs[u].brings = sessTabs[t].brings => u = t
  /\ \A t \in Tabs : sessTabs[t].pairing # 0 =>
       /\ sessStore # sessTabs[t].pairing
       /\ \A u \in Tabs : /\ sessTabs[u].refresh # sessTabs[t].pairing
                          /\ sessTabs[u].pairing = sessTabs[t].pairing => u = t

\* A reply belongs to a refresh; the token of one that was refused stays spent.
RefreshesAreUnderWay ==
  \A t \in Tabs :
    /\ sessTabs[t].reply # "none" => sessTabs[t].refresh # 0
    /\ sessTabs[t].reply = "given" <=> sessTabs[t].brings # 0
    /\ sessTabs[t].reply = "refused" => sessTabs[t].refresh \notin sessValid

\* What is on its way is taken by the bridge, and comes if the store's is not.
TokensAreTaken ==
  /\ \A t \in Tabs : /\ sessTabs[t].brings # 0 => sessTabs[t].brings \in sessValid
                     /\ sessTabs[t].pairing # 0 => sessTabs[t].pairing \in sessValid
  /\ sessStore \in sessValid \/ \E t \in Tabs : sessTabs[t].reply = "given"

\* A tab that is out and has seen credentials checks them.
SeenAreChecked == \A t \in Tabs : sessTabs[t].phase = "out" /\ sessTabs[t].seen => sessTabs[t].checking

SessInv ==
  /\ Sess!SessTypeOK
  /\ TokensAreCounted
  /\ TokensAreFresh
  /\ RefreshesAreUnderWay
  /\ sessTroubles = {} => TokensAreTaken
  /\ "missed" \notin sessTroubles => SeenAreChecked

\* What the invariant of a session is for.
LEMMA SessImplies == SessInv => Sess!SessTypeOK /\ Sess!StoreIsCurrent /\ Sess!TabsSignIn
  BY DEF SessInv, Sess!StoreIsCurrent, Sess!TabsSignIn, TokensAreTaken, RefreshesAreUnderWay, SeenAreChecked

\* The invariant of a session holds at first.
LEMMA SessBegins == Sess!SessInit => SessInv
<1> SUFFICES ASSUME Sess!SessInit PROVE SessInv
  OBVIOUS
<1>1. 0 \in Sess!Sessions /\ 1 \in Sess!Sessions
  BY PartsAssumption DEF Sess!Sessions
<1>2. /\ sessTabs \in [Tabs -> TabType]
      /\ \A t \in Tabs : sessTabs[t].refresh = 0 /\ sessTabs[t].brings = 0 /\ sessTabs[t].pairing = 0
                         /\ sessTabs[t].reply = "none" /\ sessTabs[t].phase = "in"
  BY <1>1 DEF Sess!SessInit, TabType
<1>3. sessStore = 1 /\ sessValid = {1} /\ sessGiven = 1 /\ sessTroubles = {}
  BY DEF Sess!SessInit
<1>4. Sess!SessTypeOK
  BY <1>1, <1>2, <1>3 DEF Sess!SessTypeOK, TabType
<1> QED
  BY <1>2, <1>3, <1>4 DEF SessInv, TokensAreCounted, TokensAreFresh, RefreshesAreUnderWay, TokensAreTaken,
     SeenAreChecked

\* Every tab is a record of its type.
LEMMA SessTabTypes ==
  ASSUME SessInv
  PROVE  sessTabs \in [Tabs -> TabType]
  BY DEF SessInv, Sess!SessTypeOK, TabType

\* The presence of credentials is all that an effect changes of a tab.
LEMMA Presence ==
  ASSUME NEW tab \in TabType, NEW present \in BOOLEAN
  PROVE  LET after == Sess!credentialPresence(tab, present)
         IN  /\ after \in TabType
             /\ after.refresh = tab.refresh /\ after.reply = tab.reply /\ after.brings = tab.brings
             /\ after.pairing = tab.pairing /\ after.phase = tab.phase
             /\ (tab.phase = "out" /\ tab.seen => tab.checking) =>
                  (after.phase = "out" /\ after.seen => after.checking)
             /\ after.seen = present
  BY DEF Sess!credentialPresence, TabType

\* Steps that move no token: the tab t changes in what it has seen and shows.
LEMMA TabShows ==
  ASSUME SessInv, NEW t \in Tabs, NEW tab \in TabType,
         tab.refresh = sessTabs[t].refresh, tab.reply = sessTabs[t].reply,
         tab.brings = sessTabs[t].brings, tab.pairing = sessTabs[t].pairing,
         sessTabs' = [sessTabs EXCEPT ![t] = tab],
         UNCHANGED <<sessStore, sessValid, sessGiven>>,
         sessTroubles \subseteq sessTroubles', sessTroubles' \subseteq {"lost", "left", "revoked", "missed"},
         "missed" \notin sessTroubles' => (tab.phase = "out" /\ tab.seen => tab.checking)
  PROVE  SessInv'
<1>1. sessTabs' \in [Tabs -> TabType] /\ sessTabs'[t] = tab /\ \A u \in Tabs \ {t} : sessTabs'[u] = sessTabs[u]
  BY SessTabTypes
<1>2. Sess!SessTypeOK'
  BY <1>1 DEF SessInv, Sess!SessTypeOK, TabType
<1>3. TokensAreCounted'
  BY <1>1 DEF SessInv, TokensAreCounted
<1>4. TokensAreFresh'
  BY <1>1 DEF SessInv, TokensAreFresh
<1>5. RefreshesAreUnderWay'
  BY <1>1 DEF SessInv, RefreshesAreUnderWay
<1>6. sessTroubles' = {} => TokensAreTaken'
  BY <1>1 DEF SessInv, TokensAreTaken
<1>7. "missed" \notin sessTroubles' => SeenAreChecked'
  BY <1>1 DEF SessInv, SeenAreChecked
<1> QED
  BY <1>2, <1>3, <1>4, <1>5, <1>6, <1>7 DEF SessInv

\* A tab that drops what was on its way, or settles its refresh, keeps the
\* tokens in their places, and the store.
LEMMA TabDrops ==
  ASSUME SessInv, NEW t \in Tabs, NEW tab \in TabType,
         tab.refresh \in {0, sessTabs[t].refresh}, tab.brings \in {0, sessTabs[t].brings},
         tab.pairing \in {0, sessTabs[t].pairing},
         tab.reply # "none" => tab.refresh # 0,
         tab.reply = "given" <=> tab.brings # 0,
         tab.reply = "refused" => tab.refresh \notin sessValid,
         sessTabs' = [sessTabs EXCEPT ![t] = tab],
         UNCHANGED <<sessValid, sessGiven>>, sessStore' \in {0, sessStore},
         sessTroubles \subseteq sessTroubles', sessTroubles' \subseteq {"lost", "left", "revoked", "missed"},
         sessTroubles' = {} =>
           \/ sessStore' \in sessValid /\ sessTabs[t].reply # "given"
           \/ \E u \in Tabs : (IF u = t THEN tab.reply ELSE sessTabs[u].reply) = "given",
         "missed" \notin sessTroubles' => (tab.phase = "out" /\ tab.seen => tab.checking)
  PROVE  SessInv'
<1>1. sessTabs' \in [Tabs -> TabType] /\ sessTabs'[t] = tab /\ \A u \in Tabs \ {t} : sessTabs'[u] = sessTabs[u]
  BY SessTabTypes
<1>2. Sess!SessTypeOK'
  BY <1>1, PartsAssumption DEF SessInv, Sess!SessTypeOK, TabType, Sess!Sessions
<1>3. TokensAreCounted'
  BY <1>1, <1>2, PartsAssumption DEF SessInv, TokensAreCounted, Sess!SessTypeOK, Sess!Sessions
<1>4. TokensAreFresh'
  BY <1>1 DEF SessInv, TokensAreFresh
<1>5. RefreshesAreUnderWay'
  BY <1>1 DEF SessInv, RefreshesAreUnderWay
<1>6. sessTroubles' = {} => TokensAreTaken'
  <2> SUFFICES ASSUME sessTroubles' = {} PROVE TokensAreTaken'
    OBVIOUS
  <2>1. TokensAreTaken
    BY DEF SessInv
  <2>2. \A u \in Tabs : /\ sessTabs'[u].brings # 0 => sessTabs'[u].brings \in sessValid
                        /\ sessTabs'[u].pairing # 0 => sessTabs'[u].pairing \in sessValid
    BY <1>1, <2>1 DEF TokensAreTaken
  <2>3. sessStore' \in sessValid \/ \E u \in Tabs : sessTabs'[u].reply = "given"
    BY <1>1
  <2> QED
    BY <2>2, <2>3 DEF TokensAreTaken
<1>7. "missed" \notin sessTroubles' => SeenAreChecked'
  BY <1>1 DEF SessInv, SeenAreChecked
<1> QED
  BY <1>2, <1>3, <1>4, <1>5, <1>6, <1>7 DEF SessInv

\* The store takes a token that was on its way to the tab.
LEMMA TabStores ==
  ASSUME SessInv, NEW t \in Tabs, NEW tab \in TabType, NEW token \in Sess!Sessions \ {0},
         \/ token = sessTabs[t].brings /\ tab.brings = 0 /\ tab.pairing = sessTabs[t].pairing
         \/ token = sessTabs[t].pairing /\ tab.pairing = 0 /\ tab.brings = sessTabs[t].brings,
         tab.refresh \in {0, sessTabs[t].refresh},
         tab.reply # "none" => tab.refresh # 0,
         tab.reply = "given" <=> tab.brings # 0,
         tab.reply = "refused" => tab.refresh \notin sessValid,
         tab.phase = sessTabs[t].phase,
         sessStore' = token,
         sessTabs' = [sessTabs EXCEPT ![t] = Sess!credentialPresence(tab, token # 0)],
         tab.seen = sessTabs[t].seen, tab.checking = sessTabs[t].checking,
         UNCHANGED <<sessValid, sessGiven, sessTroubles>>
  PROVE  SessInv'
<1> DEFINE after == Sess!credentialPresence(tab, token # 0)
<1>0. /\ after \in TabType
      /\ after.refresh = tab.refresh /\ after.reply = tab.reply /\ after.brings = tab.brings
      /\ after.pairing = tab.pairing /\ after.phase = tab.phase
      /\ (tab.phase = "out" /\ tab.seen => tab.checking) =>
           (after.phase = "out" /\ after.seen => after.checking)
  BY Presence
<1> HIDE DEF after
<1>1. sessTabs' \in [Tabs -> TabType] /\ sessTabs'[t] = after /\ \A u \in Tabs \ {t} : sessTabs'[u] = sessTabs[u]
  BY <1>0, SessTabTypes DEF after
<1>2. Sess!SessTypeOK'
  BY <1>1 DEF SessInv, Sess!SessTypeOK, TabType
<1>3. TokensAreCounted'
  BY <1>0, <1>1, <1>2, PartsAssumption DEF SessInv, TokensAreCounted, Sess!SessTypeOK, Sess!Sessions
<1>4. TokensAreFresh'
  BY <1>0, <1>1 DEF SessInv, TokensAreFresh
<1>5. RefreshesAreUnderWay'
  BY <1>0, <1>1 DEF SessInv, RefreshesAreUnderWay
<1>6. sessTroubles' = {} => TokensAreTaken'
  BY <1>0, <1>1 DEF SessInv, TokensAreTaken
<1>7. "missed" \notin sessTroubles' => SeenAreChecked'
  BY <1>0, <1>1 DEF SessInv, SeenAreChecked
<1> QED
  BY <1>2, <1>3, <1>4, <1>5, <1>6, <1>7 DEF SessInv

\* The bridge gives a token, for a refresh whose own it spends or for a
\* pairing.
LEMMA BridgeGives ==
  ASSUME SessInv, NEW t \in Tabs, NEW tab \in TabType, Sess!Gives, NEW spent \in SUBSET {sessTabs[t].refresh} ,
         sessValid' = (sessValid \ spent) \cup {sessGiven'},
         \/ /\ tab.brings = sessGiven' /\ tab.pairing = sessTabs[t].pairing /\ tab.reply = "given"
            /\ sessTabs[t].reply = "posted"
         \/ /\ tab.pairing = sessGiven' /\ tab.brings = sessTabs[t].brings
            /\ tab.reply = sessTabs[t].reply /\ spent = {},
         tab.refresh = sessTabs[t].refresh, tab.phase = sessTabs[t].phase,
         tab.seen = sessTabs[t].seen, tab.checking = sessTabs[t].checking,
         sessTabs' = [sessTabs EXCEPT ![t] = tab],
         UNCHANGED <<sessStore, sessTroubles>>
  PROVE  SessInv'
<1>1. sessTabs' \in [Tabs -> TabType] /\ sessTabs'[t] = tab /\ \A u \in Tabs \ {t} : sessTabs'[u] = sessTabs[u]
  BY SessTabTypes
<1>2. sessGiven' = sessGiven + 1 /\ sessGiven' \in Sess!Sessions \ {0}
  BY PartsAssumption DEF Sess!Gives, SessInv, Sess!SessTypeOK, Sess!Sessions
<1>3. Sess!SessTypeOK'
  BY <1>1, <1>2 DEF SessInv, Sess!SessTypeOK, TabType
<1>4. /\ sessStore # sessGiven' /\ sessGiven' \notin sessValid
      /\ \A u \in Tabs : sessGiven' \notin {sessTabs[u].refresh, sessTabs[u].brings, sessTabs[u].pairing}
  BY <1>2, PartsAssumption, SessTabTypes DEF SessInv, TokensAreCounted, Sess!SessTypeOK, Sess!Sessions, TabType
<1>5. TokensAreCounted'
  BY <1>1, <1>2, PartsAssumption, SessTabTypes DEF SessInv, TokensAreCounted, Sess!SessTypeOK, Sess!Sessions, TabType
<1>6. TokensAreFresh'
  BY <1>1, <1>4 DEF SessInv, TokensAreFresh
<1>7. RefreshesAreUnderWay'
  BY <1>1, <1>2, <1>4 DEF SessInv, RefreshesAreUnderWay
<1>8. sessTroubles' = {} => TokensAreTaken'
  <2> SUFFICES ASSUME sessTroubles = {} PROVE TokensAreTaken'
    OBVIOUS
  <2>1. TokensAreTaken
    BY DEF SessInv
  <2>2. ASSUME NEW u \in Tabs
        PROVE  /\ sessTabs[u].brings # 0 => sessTabs[u].brings \in sessValid'
               /\ sessTabs[u].pairing # 0 => sessTabs[u].pairing \in sessValid'
    BY <2>1 DEF TokensAreTaken, SessInv, TokensAreFresh
  <2>3. sessStore \in sessValid' \/ \E u \in Tabs : sessTabs'[u].reply = "given"
    <3>1. CASE spent = {} /\ tab.reply = sessTabs[t].reply
      BY <1>1, <2>1, <3>1 DEF TokensAreTaken
    <3>2. CASE tab.reply = "given"
      BY <1>1, <3>2
    <3> QED
      BY <3>1, <3>2
  <2> QED
    BY <1>1, <1>2, <2>2, <2>3 DEF TokensAreTaken
<1>9. "missed" \notin sessTroubles' => SeenAreChecked'
  BY <1>1 DEF SessInv, SeenAreChecked
<1> QED
  BY <1>3, <1>5, <1>6, <1>7, <1>8, <1>9 DEF SessInv

\* A refresh starts from the token in the store.
LEMMA RefreshStarts ==
  ASSUME SessInv, NEW t \in Tabs, Sess!RefreshCredentials(t)
  PROVE  SessInv'
<1>1. /\ sessTabs[t].phase = "in" /\ sessTabs[t].refresh = 0
      /\ sessTabs' = [sessTabs EXCEPT ![t] = IF sessStore = 0 THEN [sessTabs[t] EXCEPT !.phase = "out"]
                         ELSE [sessTabs[t] EXCEPT !.refresh = sessStore, !.reply = "posted"]]
      /\ sessTroubles' = sessTroubles \cup Sess!Missed(t)
      /\ UNCHANGED <<sessStore, sessValid, sessGiven>>
  BY DEF Sess!RefreshCredentials
<1>2. sessTabs[t] \in TabType /\ sessStore \in Sess!Sessions /\ sessTroubles' \subseteq {"lost", "left", "revoked", "missed"}
  BY <1>1, SessTabTypes DEF SessInv, Sess!SessTypeOK, Sess!Missed
<1>3. CASE sessStore = 0
  <2>1. "missed" \notin sessTroubles' => ~sessTabs[t].seen
    BY <1>1, <1>3 DEF Sess!Missed
  <2>2. [sessTabs[t] EXCEPT !.phase = "out"] \in TabType
    BY <1>2 DEF TabType
  <2> DEFINE tab == [sessTabs[t] EXCEPT !.phase = "out"]
  <2>3. /\ tab.refresh = sessTabs[t].refresh /\ tab.reply = sessTabs[t].reply
        /\ tab.brings = sessTabs[t].brings /\ tab.pairing = sessTabs[t].pairing /\ tab.seen = sessTabs[t].seen
    BY <1>2 DEF TabType
  <2>4. sessTabs' = [sessTabs EXCEPT ![t] = tab] /\ tab \in TabType
    BY <1>1, <1>3, <2>2
  <2> HIDE DEF tab
  <2> QED
    BY <1>1, <1>2, <2>1, <2>3, <2>4, TabShows
<1>4. CASE sessStore # 0
  <2> DEFINE tab == [sessTabs[t] EXCEPT !.refresh = sessStore, !.reply = "posted"]
  <2>1. /\ tab \in TabType /\ tab.refresh = sessStore /\ tab.reply = "posted"
        /\ tab.brings = sessTabs[t].brings /\ tab.pairing = sessTabs[t].pairing
        /\ tab.phase = "in"
    BY <1>1, <1>2 DEF TabType
  <2>2. sessTabs' = [sessTabs EXCEPT ![t] = tab] /\ sessTroubles' = sessTroubles
    BY <1>1, <1>4 DEF Sess!Missed
  <2> HIDE DEF tab
  <2>3. sessTabs' \in [Tabs -> TabType] /\ sessTabs'[t] = tab /\ \A u \in Tabs \ {t} : sessTabs'[u] = sessTabs[u]
    BY <2>1, <2>2, SessTabTypes
  <2>4. sessTabs[t].reply # "given" /\ sessTabs[t].brings = 0
    BY <1>1 DEF SessInv, RefreshesAreUnderWay
  <2>5. Sess!SessTypeOK'
    BY <1>1, <2>2, <2>3 DEF SessInv, Sess!SessTypeOK, TabType
  <2>6. TokensAreCounted'
    BY <1>1, <2>1, <2>3 DEF SessInv, TokensAreCounted
  <2>7. TokensAreFresh'
    BY <1>1, <2>1, <2>3 DEF SessInv, TokensAreFresh
  <2>8. RefreshesAreUnderWay'
    BY <1>1, <1>4, <2>1, <2>3, <2>4 DEF SessInv, RefreshesAreUnderWay
  <2>9. sessTroubles' = {} => TokensAreTaken'
    BY <1>1, <2>1, <2>2, <2>3, <2>4 DEF SessInv, TokensAreTaken
  <2>10. "missed" \notin sessTroubles' => SeenAreChecked'
    BY <2>1, <2>2, <2>3 DEF SessInv, SeenAreChecked
  <2> QED
    BY <2>5, <2>6, <2>7, <2>8, <2>9, <2>10 DEF SessInv
<1> QED
  BY <1>3, <1>4

\* A storage event, a version check and its retry.
LEMMA EffectsKeep ==
  ASSUME SessInv, NEW t \in Tabs,
         \/ Sess!StorageEvent(t) \/ Sess!VersionChecked(t) \/ Sess!VersionCheckFails(t)
         \/ Sess!RetryConnection(t)
  PROVE  SessInv'
<1>0. sessTabs[t] \in TabType /\ sessTroubles \subseteq {"lost", "left", "revoked", "missed"}
  BY SessTabTypes DEF SessInv, Sess!SessTypeOK
<1>1. CASE Sess!StorageEvent(t)
  <2> DEFINE tab == Sess!credentialPresence(sessTabs[t], sessStore # 0)
  <2>1. /\ tab \in TabType
        /\ tab.refresh = sessTabs[t].refresh /\ tab.reply = sessTabs[t].reply
        /\ tab.brings = sessTabs[t].brings /\ tab.pairing = sessTabs[t].pairing
        /\ (sessTabs[t].phase = "out" /\ sessTabs[t].seen => sessTabs[t].checking) =>
             (tab.phase = "out" /\ tab.seen => tab.checking)
    BY <1>0, Presence
  <2>2. /\ sessTabs' = [sessTabs EXCEPT ![t] = tab]
        /\ UNCHANGED <<sessStore, sessValid, sessGiven, sessTroubles>>
    BY <1>1 DEF Sess!StorageEvent
  <2> HIDE DEF tab
  <2>3. "missed" \notin sessTroubles' => (tab.phase = "out" /\ tab.seen => tab.checking)
    BY <2>1, <2>2 DEF SessInv, SeenAreChecked
  <2> QED
    BY <1>0, <2>1, <2>2, <2>3, TabShows
<1>2. ASSUME NEW phase \in {"out", "in", "failed"}, Sess!Bootstraps(t, phase),
             phase = "out" => sessStore = 0
      PROVE  SessInv'
  <2> DEFINE tab == [sessTabs[t] EXCEPT !.checking = FALSE, !.phase = phase]
  <2>1. /\ tab \in TabType
        /\ tab.refresh = sessTabs[t].refresh /\ tab.reply = sessTabs[t].reply
        /\ tab.brings = sessTabs[t].brings /\ tab.pairing = sessTabs[t].pairing
        /\ tab.phase = phase /\ tab.seen = sessTabs[t].seen
    BY <1>0 DEF TabType
  <2>2. /\ sessTabs' = [sessTabs EXCEPT ![t] = tab]
        /\ sessTroubles' = sessTroubles \cup Sess!Missed(t)
        /\ UNCHANGED <<sessStore, sessValid, sessGiven>>
    BY <1>2 DEF Sess!Bootstraps
  <2> HIDE DEF tab
  <2>3. "missed" \notin sessTroubles' => (tab.phase = "out" /\ tab.seen => tab.checking)
    BY <1>2, <2>1, <2>2 DEF Sess!Missed
  <2>4. sessTroubles' \subseteq {"lost", "left", "revoked", "missed"}
    BY <1>0, <2>2 DEF Sess!Missed
  <2> QED
    BY <2>1, <2>2, <2>3, <2>4, TabShows
<1>3. CASE Sess!VersionChecked(t)
  BY <1>2, <1>3 DEF Sess!VersionChecked
<1>4. CASE Sess!VersionCheckFails(t)
  BY <1>2, <1>4 DEF Sess!VersionCheckFails
<1>5. CASE Sess!RetryConnection(t)
  BY <1>2, <1>5 DEF Sess!RetryConnection
<1> QED
  BY <1>1, <1>3, <1>4, <1>5

\* The bridge takes the token of a refresh once.
LEMMA RefreshHandledKeeps ==
  ASSUME SessInv, NEW t \in Tabs, Sess!RefreshHandled(t)
  PROVE  SessInv'
<1>0. sessTabs[t] \in TabType /\ sessTabs[t].reply = "posted"
  BY SessTabTypes DEF Sess!RefreshHandled
<1>1. CASE sessTabs[t].refresh \in sessValid
  <2> DEFINE tab == [sessTabs[t] EXCEPT !.reply = "given", !.brings = sessGiven']
             spent == {sessTabs[t].refresh}
  <2>1. /\ Sess!Gives /\ sessValid' = (sessValid \ spent) \cup {sessGiven'}
        /\ sessTabs' = [sessTabs EXCEPT ![t] = tab]
        /\ UNCHANGED <<sessStore, sessTroubles>>
    BY <1>0, <1>1, SessTabTypes DEF Sess!RefreshHandled
  <2>2. sessGiven' \in Sess!Sessions
    BY <2>1, PartsAssumption DEF Sess!Gives, SessInv, Sess!SessTypeOK, Sess!Sessions
  <2>3. /\ tab \in TabType /\ tab.reply = "given" /\ tab.brings = sessGiven'
        /\ tab.refresh = sessTabs[t].refresh /\ tab.pairing = sessTabs[t].pairing
        /\ tab.phase = sessTabs[t].phase /\ tab.seen = sessTabs[t].seen /\ tab.checking = sessTabs[t].checking
    BY <1>0, <2>2 DEF TabType
  <2>4. spent \in SUBSET {sessTabs[t].refresh}
    OBVIOUS
  <2> HIDE DEF tab, spent
  <2> QED
    BY <1>0, <2>1, <2>3, <2>4, BridgeGives
<1>2. CASE sessTabs[t].refresh \notin sessValid
  <2> DEFINE tab == [sessTabs[t] EXCEPT !.reply = "refused"]
  <2>1. /\ sessTabs' = [sessTabs EXCEPT ![t] = tab]
        /\ UNCHANGED <<sessStore, sessValid, sessGiven, sessTroubles>>
    BY <1>2 DEF Sess!RefreshHandled
  <2>2. /\ tab \in TabType /\ tab.reply = "refused" /\ tab.brings = sessTabs[t].brings
        /\ tab.refresh = sessTabs[t].refresh /\ tab.pairing = sessTabs[t].pairing
        /\ tab.phase = sessTabs[t].phase /\ tab.seen = sessTabs[t].seen /\ tab.checking = sessTabs[t].checking
    BY <1>0 DEF TabType
  <2> HIDE DEF tab
  <2>3. /\ sessTabs[t].refresh # 0 /\ sessTabs[t].brings = 0
        /\ sessTroubles = {} => TokensAreTaken
        /\ "missed" \notin sessTroubles => SeenAreChecked
        /\ sessTroubles \subseteq {"lost", "left", "revoked", "missed"}
    BY <1>0 DEF SessInv, RefreshesAreUnderWay, Sess!SessTypeOK
  <2>4. sessTroubles' = {} =>
          \/ sessStore' \in sessValid /\ sessTabs[t].reply # "given"
          \/ \E u \in Tabs : (IF u = t THEN tab.reply ELSE sessTabs[u].reply) = "given"
    BY <1>0, <2>1, <2>3 DEF TokensAreTaken
  <2> QED
    BY <1>2, <2>1, <2>2, <2>3, <2>4, TabDrops DEF SeenAreChecked
<1> QED
  BY <1>1, <1>2

\* What a refresh leaves of its tab when it is over.
LEMMA SettledTab ==
  ASSUME SessInv, NEW t \in Tabs
  PROVE  /\ Sess!Settled(t) \in TabType
         /\ Sess!Settled(t).refresh = 0 /\ Sess!Settled(t).brings = 0 /\ Sess!Settled(t).reply = "none"
         /\ Sess!Settled(t).pairing = sessTabs[t].pairing /\ Sess!Settled(t).phase = sessTabs[t].phase
         /\ Sess!Settled(t).seen = sessTabs[t].seen /\ Sess!Settled(t).checking = sessTabs[t].checking
<1>1. sessTabs[t] \in TabType /\ 0 \in Sess!Sessions
  BY SessTabTypes, PartsAssumption DEF Sess!Sessions
<1> QED
  BY <1>1 DEF Sess!Settled, TabType

\* A reply is lost, on its way there or back.
LEMMA RefreshLostKeeps ==
  ASSUME SessInv, NEW t \in Tabs, Sess!RefreshLost(t)
  PROVE  SessInv'
<1> DEFINE tab == [sessTabs[t] EXCEPT !.reply = "lost", !.brings = 0]
<1>0. sessTabs[t] \in TabType /\ 0 \in Sess!Sessions
  BY SessTabTypes, PartsAssumption DEF Sess!Sessions
<1>1. /\ sessTabs[t].reply \in {"posted", "given", "refused"}
      /\ sessTroubles' = IF sessTabs[t].reply = "given" THEN sessTroubles \cup {"lost"} ELSE sessTroubles
      /\ sessTabs' = [sessTabs EXCEPT ![t] = tab]
      /\ UNCHANGED <<sessStore, sessValid, sessGiven>>
  BY SessTabTypes DEF Sess!RefreshLost
<1>2. /\ tab \in TabType /\ tab.reply = "lost" /\ tab.brings = 0
      /\ tab.refresh = sessTabs[t].refresh /\ tab.pairing = sessTabs[t].pairing
      /\ tab.phase = sessTabs[t].phase /\ tab.seen = sessTabs[t].seen /\ tab.checking = sessTabs[t].checking
  BY <1>0 DEF TabType
<1> HIDE DEF tab
<1>3. /\ sessTabs[t].refresh # 0
      /\ sessTroubles = {} => TokensAreTaken
      /\ "missed" \notin sessTroubles => SeenAreChecked
      /\ sessTroubles' \subseteq {"lost", "left", "revoked", "missed"}
  BY <1>1 DEF SessInv, RefreshesAreUnderWay, Sess!SessTypeOK
<1>4. sessTroubles' = {} =>
        \/ sessStore' \in sessValid /\ sessTabs[t].reply # "given"
        \/ \E u \in Tabs : (IF u = t THEN tab.reply ELSE sessTabs[u].reply) = "given"
  <2> SUFFICES ASSUME sessTroubles' = {}, sessStore \notin sessValid
               PROVE  \E u \in Tabs \ {t} : sessTabs[u].reply = "given"
    BY <1>1
  <2>1. sessTroubles = {} /\ sessTabs[t].reply # "given"
    BY <1>1
  <2> QED
    BY <1>3, <2>1 DEF TokensAreTaken
<1>5. "missed" \notin sessTroubles' => (tab.phase = "out" /\ tab.seen => tab.checking)
  BY <1>1, <1>2, <1>3 DEF SeenAreChecked
<1> QED
  BY <1>1, <1>2, <1>3, <1>4, <1>5, TabDrops

\* The reply of a refresh stores the token it brings.
LEMMA RefreshSucceedsKeeps ==
  ASSUME SessInv, NEW t \in Tabs, Sess!RefreshSucceeds(t)
  PROVE  SessInv'
<1> DEFINE tab == Sess!Settled(t)
           token == sessTabs[t].brings
<1>1. /\ token \in Sess!Sessions \ {0}
  BY SessTabTypes DEF Sess!RefreshSucceeds, SessInv, RefreshesAreUnderWay, TabType
<1>2. /\ sessStore' = token
      /\ sessTabs' = [sessTabs EXCEPT ![t] = Sess!credentialPresence(tab, token # 0)]
      /\ UNCHANGED <<sessValid, sessGiven, sessTroubles>>
  BY DEF Sess!RefreshSucceeds, Sess!Stores
<1>3. /\ tab \in TabType /\ tab.refresh = 0 /\ tab.brings = 0 /\ tab.reply = "none"
      /\ tab.pairing = sessTabs[t].pairing /\ tab.phase = sessTabs[t].phase
      /\ tab.seen = sessTabs[t].seen /\ tab.checking = sessTabs[t].checking
  BY SettledTab
<1> HIDE DEF tab
<1> QED
  BY <1>1, <1>2, <1>3, TabStores

\* The credentials are removed: the tab is out, and has seen it.
LEMMA ClearsKeeps ==
  ASSUME SessInv, NEW t \in Tabs, NEW tab \in TabType, Sess!Stores(0, t, tab),
         tab.refresh \in {0, sessTabs[t].refresh}, tab.brings \in {0, sessTabs[t].brings},
         tab.pairing = sessTabs[t].pairing,
         tab.reply # "none" => tab.refresh # 0,
         tab.reply = "given" <=> tab.brings # 0,
         tab.reply = "refused" => tab.refresh \notin sessValid,
         UNCHANGED <<sessValid, sessGiven>>,
         sessTroubles \subseteq sessTroubles', sessTroubles' \subseteq {"lost", "left", "revoked", "missed"},
         sessTroubles' = {} => \E u \in Tabs \ {t} : sessTabs[u].reply = "given"
  PROVE  SessInv'
<1> DEFINE after == Sess!credentialPresence(tab, FALSE)
<1>1. sessStore' = 0 /\ sessTabs' = [sessTabs EXCEPT ![t] = after]
  BY DEF Sess!Stores
<1>2. /\ after \in TabType
      /\ after.refresh = tab.refresh /\ after.reply = tab.reply /\ after.brings = tab.brings
      /\ after.pairing = tab.pairing /\ ~after.seen
  BY Presence
<1> HIDE DEF after
<1> QED
  BY <1>1, <1>2, TabDrops

\* A refresh that was refused removes the credentials only if no other tab
\* has saved some meanwhile: then one is about to.
LEMMA RefreshFailsKeeps ==
  ASSUME SessInv, NEW t \in Tabs, Sess!RefreshFails(t)
  PROVE  SessInv'
<1>0. /\ sessTabs[t].reply \in {"refused", "lost"}
      /\ UNCHANGED <<sessValid, sessGiven, sessTroubles>>
      /\ sessTroubles \subseteq {"lost", "left", "revoked", "missed"}
  BY DEF Sess!RefreshFails, SessInv, Sess!SessTypeOK
<1>1. CASE sessTabs[t].reply = "lost" \/ Sess!recoverConcurrentCredentials(t)
  <2> DEFINE tab == Sess!Settled(t)
  <2>1. sessTabs' = [sessTabs EXCEPT ![t] = tab] /\ UNCHANGED sessStore
    BY <1>1 DEF Sess!RefreshFails
  <2>2. /\ tab \in TabType /\ tab.refresh = 0 /\ tab.brings = 0 /\ tab.reply = "none"
        /\ tab.pairing = sessTabs[t].pairing /\ tab.phase = sessTabs[t].phase
        /\ tab.seen = sessTabs[t].seen /\ tab.checking = sessTabs[t].checking
    BY SettledTab
  <2> HIDE DEF tab
  <2>3. sessTroubles = {} => sessStore \in sessValid \/ \E u \in Tabs \ {t} : sessTabs[u].reply = "given"
    BY <1>0 DEF SessInv, TokensAreTaken
  <2>4. "missed" \notin sessTroubles => (tab.phase = "out" /\ tab.seen => tab.checking)
    BY <2>2 DEF SessInv, SeenAreChecked
  <2>5. sessTroubles' = {} =>
          \/ sessStore' \in sessValid /\ sessTabs[t].reply # "given"
          \/ \E u \in Tabs : (IF u = t THEN tab.reply ELSE sessTabs[u].reply) = "given"
    BY <1>0, <2>1, <2>3
  <2> QED
    BY <1>0, <2>1, <2>2, <2>4, <2>5, TabDrops
<1>2. CASE sessTabs[t].reply = "refused" /\ ~Sess!recoverConcurrentCredentials(t)
  <2> DEFINE tab == [Sess!Settled(t) EXCEPT !.phase = "out"]
  <2>1. Sess!Stores(0, t, tab)
    BY <1>2 DEF Sess!RefreshFails
  <2>2. /\ tab \in TabType /\ tab.refresh = 0 /\ tab.brings = 0 /\ tab.reply = "none"
        /\ tab.pairing = sessTabs[t].pairing
    BY SettledTab DEF TabType
  <2> HIDE DEF tab
  <2>3. sessStore \in {0, sessTabs[t].refresh}
    BY <1>2 DEF Sess!recoverConcurrentCredentials
  <2>4. sessStore \notin sessValid
    BY <1>2, <2>3 DEF SessInv, RefreshesAreUnderWay, Sess!SessTypeOK
  <2>5. sessTroubles' = {} => \E u \in Tabs \ {t} : sessTabs[u].reply = "given"
    BY <1>0, <1>2, <2>4 DEF SessInv, TokensAreTaken
  <2> QED
    BY <1>0, <2>1, <2>2, <2>5, ClearsKeeps
<1> QED
  BY <1>0, <1>1, <1>2

\* Pairing.
LEMMA PairingKeeps ==
  ASSUME SessInv, NEW t \in Tabs, Sess!DoPair(t) \/ Sess!PairReturns(t) \/ Sess!PairLost(t)
  PROVE  SessInv'
<1>0. sessTabs[t] \in TabType /\ 0 \in Sess!Sessions
  BY SessTabTypes, PartsAssumption DEF Sess!Sessions
<1>1. CASE Sess!DoPair(t)
  <2> DEFINE tab == [sessTabs[t] EXCEPT !.pairing = sessGiven']
             spent == {}
  <2>1. /\ Sess!Gives /\ sessValid' = (sessValid \ spent) \cup {sessGiven'}
        /\ sessTabs' = [sessTabs EXCEPT ![t] = tab]
        /\ UNCHANGED <<sessStore, sessTroubles>>
    BY <1>1, SessTabTypes DEF Sess!DoPair
  <2>2. sessGiven' \in Sess!Sessions
    BY <2>1, PartsAssumption DEF Sess!Gives, SessInv, Sess!SessTypeOK, Sess!Sessions
  <2>3. /\ tab \in TabType /\ tab.reply = sessTabs[t].reply /\ tab.brings = sessTabs[t].brings
        /\ tab.refresh = sessTabs[t].refresh /\ tab.pairing = sessGiven'
        /\ tab.phase = sessTabs[t].phase /\ tab.seen = sessTabs[t].seen /\ tab.checking = sessTabs[t].checking
    BY <1>0, <2>2 DEF TabType
  <2>4. spent \in SUBSET {sessTabs[t].refresh} /\ spent = {}
    OBVIOUS
  <2> HIDE DEF tab, spent
  <2> QED
    BY <2>1, <2>3, <2>4, BridgeGives
<1>2. CASE Sess!PairReturns(t)
  <2> DEFINE tab == [sessTabs[t] EXCEPT !.pairing = 0]
             token == sessTabs[t].pairing
  <2>1. /\ token \in Sess!Sessions \ {0}
        /\ sessStore' = token
        /\ sessTabs' = [sessTabs EXCEPT ![t] = Sess!credentialPresence(tab, token # 0)]
        /\ UNCHANGED <<sessValid, sessGiven, sessTroubles>>
    BY <1>0, <1>2 DEF Sess!PairReturns, Sess!Stores, TabType
  <2>2. /\ tab \in TabType /\ tab.reply = sessTabs[t].reply /\ tab.brings = sessTabs[t].brings
        /\ tab.refresh = sessTabs[t].refresh /\ tab.pairing = 0
        /\ tab.phase = sessTabs[t].phase /\ tab.seen = sessTabs[t].seen /\ tab.checking = sessTabs[t].checking
    BY <1>0 DEF TabType
  <2>3. /\ tab.reply # "none" => tab.refresh # 0
        /\ tab.reply = "given" <=> tab.brings # 0
        /\ tab.reply = "refused" => tab.refresh \notin sessValid
    BY <2>2 DEF SessInv, RefreshesAreUnderWay
  <2> HIDE DEF tab
  <2> QED
    BY <2>1, <2>2, <2>3, TabStores
<1>3. CASE Sess!PairLost(t)
  <2> DEFINE tab == [sessTabs[t] EXCEPT !.pairing = 0]
  <2>1. /\ sessTabs' = [sessTabs EXCEPT ![t] = tab]
        /\ UNCHANGED <<sessStore, sessValid, sessGiven, sessTroubles>>
    BY <1>3 DEF Sess!PairLost
  <2>2. /\ tab \in TabType /\ tab.reply = sessTabs[t].reply /\ tab.brings = sessTabs[t].brings
        /\ tab.refresh = sessTabs[t].refresh /\ tab.pairing = 0
        /\ tab.phase = sessTabs[t].phase /\ tab.seen = sessTabs[t].seen /\ tab.checking = sessTabs[t].checking
    BY <1>0 DEF TabType
  <2>3. /\ tab.reply # "none" => tab.refresh # 0
        /\ tab.reply = "given" <=> tab.brings # 0
        /\ tab.reply = "refused" => tab.refresh \notin sessValid
        /\ "missed" \notin sessTroubles => (tab.phase = "out" /\ tab.seen => tab.checking)
        /\ sessTroubles \subseteq {"lost", "left", "revoked", "missed"}
    BY <2>2 DEF SessInv, RefreshesAreUnderWay, SeenAreChecked, Sess!SessTypeOK
  <2> HIDE DEF tab
  <2>4. sessTroubles' = {} =>
          \/ sessStore' \in sessValid /\ sessTabs[t].reply # "given"
          \/ \E u \in Tabs : (IF u = t THEN tab.reply ELSE sessTabs[u].reply) = "given"
    BY <2>1, <2>2 DEF SessInv, TokensAreTaken
  <2> QED
    BY <2>1, <2>2, <2>3, <2>4, TabDrops
<1> QED
  BY <1>1, <1>2, <1>3

\* Logout and the revocation of the device.
LEMMA LeavingKeeps ==
  ASSUME SessInv,
         \/ \E t \in Tabs : Sess!Logout(t) \/ Sess!RevokeSelf(t)
         \/ Sess!Revoked
  PROVE  SessInv'
<1>1. ASSUME NEW valid \in SUBSET sessValid, sessValid' = valid,
             UNCHANGED <<sessStore, sessGiven, sessTabs>>, sessTroubles \subseteq sessTroubles',
             sessTroubles' \subseteq {"lost", "left", "revoked", "missed"}, sessTroubles' # {}
      PROVE  SessInv'
  BY <1>1 DEF SessInv, Sess!SessTypeOK, TokensAreCounted, TokensAreFresh, RefreshesAreUnderWay, SeenAreChecked
<1>2. CASE Sess!Revoked
  <2>1. sessTroubles' = sessTroubles \cup {"revoked"} /\ UNCHANGED <<sessStore, sessGiven, sessTabs>>
        /\ sessValid' \in SUBSET sessValid
    BY <1>2 DEF Sess!Revoked
  <2> QED
    BY <1>1, <2>1 DEF SessInv, Sess!SessTypeOK
<1>3. ASSUME NEW t \in Tabs, Sess!Logout(t) \/ Sess!RevokeSelf(t)
      PROVE  SessInv'
  <2> DEFINE tab == [sessTabs[t] EXCEPT !.phase = "out"]
             after == Sess!credentialPresence(tab, FALSE)
  <2>1. /\ tab \in TabType /\ tab.reply = sessTabs[t].reply /\ tab.brings = sessTabs[t].brings
        /\ tab.refresh = sessTabs[t].refresh /\ tab.pairing = sessTabs[t].pairing
    BY SessTabTypes DEF TabType
  <2>2. /\ Sess!Stores(0, t, tab) /\ sessValid' \subseteq sessValid /\ UNCHANGED sessGiven
        /\ sessTroubles' \in {sessTroubles \cup {"left"}, sessTroubles \cup {"revoked"}}
    BY <1>3 DEF Sess!Logout, Sess!RevokeSelf
  <2> HIDE DEF tab
  <2>3. sessStore' = 0 /\ sessTabs' = [sessTabs EXCEPT ![t] = after]
    BY <2>2 DEF Sess!Stores
  <2>4. /\ after \in TabType
        /\ after.refresh = sessTabs[t].refresh /\ after.reply = sessTabs[t].reply
        /\ after.brings = sessTabs[t].brings /\ after.pairing = sessTabs[t].pairing /\ ~after.seen
    BY <2>1, Presence
  <2> HIDE DEF after
  <2>5. sessTabs' \in [Tabs -> TabType] /\ sessTabs'[t] = after /\ \A u \in Tabs \ {t} : sessTabs'[u] = sessTabs[u]
    BY <2>3, <2>4, SessTabTypes
  <2>6. Sess!SessTypeOK'
    BY <2>2, <2>3, <2>5, PartsAssumption DEF SessInv, Sess!SessTypeOK, TabType, Sess!Sessions
  <2>7. TokensAreCounted'
    BY <2>2, <2>3, <2>4, <2>5, <2>6 DEF SessInv, TokensAreCounted, Sess!SessTypeOK, Sess!Sessions
  <2>8. TokensAreFresh' /\ RefreshesAreUnderWay'
    BY <2>2, <2>3, <2>4, <2>5 DEF SessInv, TokensAreFresh, RefreshesAreUnderWay
  <2>9. sessTroubles' # {} /\ ("missed" \notin sessTroubles' => SeenAreChecked')
    BY <2>2, <2>4, <2>5 DEF SessInv, SeenAreChecked
  <2> QED
    BY <2>6, <2>7, <2>8, <2>9 DEF SessInv
<1> QED
  BY <1>2, <1>3

\* No step breaks the invariant of a session.
LEMMA SessKeeps == SessInv /\ [Sess!SessNext]_sessVars => SessInv'
<1> SUFFICES ASSUME SessInv, [Sess!SessNext]_sessVars PROVE SessInv'
  OBVIOUS
<1>1. CASE UNCHANGED sessVars
  BY <1>1 DEF sessVars, SessInv, Sess!SessTypeOK, TokensAreCounted, TokensAreFresh, RefreshesAreUnderWay,
     TokensAreTaken, SeenAreChecked
<1>2. ASSUME NEW t \in Tabs,
             \/ Sess!StorageEvent(t) \/ Sess!VersionChecked(t) \/ Sess!VersionCheckFails(t) \/ Sess!RetryConnection(t)
             \/ Sess!RefreshCredentials(t) \/ Sess!RefreshHandled(t) \/ Sess!RefreshLost(t)
             \/ Sess!RefreshSucceeds(t) \/ Sess!RefreshFails(t)
             \/ Sess!DoPair(t) \/ Sess!PairReturns(t) \/ Sess!PairLost(t) \/ Sess!Logout(t) \/ Sess!RevokeSelf(t)
      PROVE  SessInv'
  BY <1>2, EffectsKeep, RefreshStarts, RefreshHandledKeeps, RefreshLostKeeps, RefreshSucceedsKeeps,
     RefreshFailsKeeps, PairingKeeps, LeavingKeeps
<1> QED
  BY <1>1, <1>2, LeavingKeeps DEF Sess!SessNext

-----------------------------------------------------------------------------
(* The daemon (DaemonLifecycle)                                            *)

\* A part's own copy of Cardinality counts like the library's.
LEMMA DaemonCardinality == \A S : Daemon!Cardinality(S) = Cardinality(S)
  BY DEF Daemon!Cardinality, Cardinality

\* Those on their way to the lock, and those that have it until they exit.
Taking == {"stale", "unlinked", "creating"}
Having == {"locked", "ready", "listening", "running", "closing", "closed", "failed"}
Unspoilt == daemonFaults \cap {"raced", "failed"} = {}

\* One process takes the lock or has it, and the file is its own.
LockFollows ==
  /\ \A p \in Daemon!Pids : daemonProcs[p] # "failing"
  /\ \A p, q \in Daemon!Pids :
       daemonProcs[p] \in Taking /\ daemonProcs[q] \in Taking \cup Having => p = q
  /\ \A p \in Daemon!Pids : daemonProcs[p] = "creating" => daemonLock = p /\ daemonLockTorn
  /\ \A p \in Daemon!Pids : daemonProcs[p] \in Having => daemonLock = p /\ ~daemonLockTorn

\* The daemon that listens has the port, and the one that runs the manifest.
ManifestFollows ==
  /\ \A p \in Daemon!Pids : daemonProcs[p] \in {"listening", "running", "closing"} => daemonPort = p
  /\ \A p \in Daemon!Pids : daemonProcs[p] = "running" => daemonManifest = p

\* What a stop command waits for does not run any more.
StopFollows ==
  daemonStop # Daemon!NoPid => daemonProcs[daemonStop] \in {"closing", "closed", "failed", "dead"}

DaemonInv ==
  /\ Daemon!DaemonTypeOK
  /\ Unspoilt => LockFollows
  /\ daemonFaults = {} => ManifestFollows
  /\ StopFollows

\* What the invariant of the daemon is for.
LEMMA DaemonImplies ==
  DaemonInv => Daemon!DaemonTypeOK /\ Daemon!LockIsExclusive /\ Daemon!RunningIsFound
<1> SUFFICES ASSUME DaemonInv PROVE Daemon!LockIsExclusive /\ Daemon!RunningIsFound
  BY DEF DaemonInv
<1>1. Daemon!LockIsExclusive
  <2> SUFFICES ASSUME Unspoilt PROVE Cardinality(Daemon!Holders) <= 1
    BY DaemonCardinality DEF Daemon!LockIsExclusive, Unspoilt
  <2>1. \A p \in Daemon!Holders : p = daemonLock
    BY DEF DaemonInv, LockFollows, Daemon!Holders, Daemon!Holding, Having
  <2>2. Daemon!Holders \subseteq {daemonLock}
    BY <2>1
  <2>3. IsFiniteSet({daemonLock}) /\ Cardinality({daemonLock}) = 1
    BY FS_Singleton
  <2>4. Cardinality(Daemon!Holders) <= Cardinality({daemonLock})
    BY <2>2, <2>3, FS_Subset
  <2> QED
    BY <2>3, <2>4
<1>2. Daemon!RunningIsFound
  <2> SUFFICES ASSUME daemonFaults = {}, NEW p \in Daemon!Pids, daemonProcs[p] = "running"
               PROVE  Daemon!getDaemonStatus = [pid |-> p, reachable |-> TRUE]
    BY DEF Daemon!RunningIsFound
  <2>1. daemonManifest = p /\ daemonPort = p
    BY DEF DaemonInv, ManifestFollows
  <2>2. p # Daemon!NoPid
    BY PartsAssumption DEF Daemon!Pids, Daemon!NoPid
  <2>3. Daemon!live = p
    BY <2>1, <2>2 DEF Daemon!live, Daemon!isProcessRunning, Daemon!Alive, Daemon!Holding
  <2> QED
    BY <2>1, <2>2, <2>3 DEF Daemon!getDaemonStatus
<1> QED
  BY <1>1, <1>2

\* The invariant of the daemon holds at first.
LEMMA DaemonBegins == Daemon!DaemonInit => DaemonInv
<1> SUFFICES ASSUME Daemon!DaemonInit PROVE DaemonInv
  OBVIOUS
<1>1. Daemon!DaemonTypeOK
  BY DEF Daemon!DaemonInit, Daemon!DaemonTypeOK, Daemon!NoPid
<1>2. \A p \in Daemon!Pids : daemonProcs[p] = "none"
  BY DEF Daemon!DaemonInit
<1>3. LockFollows /\ ManifestFollows
  BY <1>2 DEF LockFollows, ManifestFollows, Taking, Having
<1>4. StopFollows
  BY DEF Daemon!DaemonInit, StopFollows
<1> QED
  BY <1>1, <1>3, <1>4 DEF DaemonInv

\* Every step moves one process at most, and none back to an earlier phase.
LEMMA DaemonTypes ==
  DaemonInv /\ [Daemon!DaemonNext]_daemonVars => Daemon!DaemonTypeOK'
<1> SUFFICES ASSUME DaemonInv, [Daemon!DaemonNext]_daemonVars PROVE Daemon!DaemonTypeOK'
  OBVIOUS
<1> USE DEF DaemonInv, Daemon!DaemonTypeOK, Daemon!Becomes, Daemon!files, Daemon!Unlinked, Daemon!Dies, Daemon!Alive, Daemon!Holding, Daemon!Acquiring
<1>1. CASE Daemon!Run \/ Daemon!Start
  BY <1>1 DEF Daemon!Run, Daemon!Start
<1>2. CASE Daemon!Stop
  <2>1. Daemon!live \in Daemon!Pids \cup {Daemon!NoPid} /\ Daemon!startingPid \in Daemon!Pids \cup {Daemon!NoPid}
    BY DEF Daemon!live, Daemon!startingPid
  <2> QED
    BY <1>2, <2>1 DEF Daemon!Stop
<1>3. CASE Daemon!StopEnds
  BY <1>3 DEF Daemon!StopEnds
<1>4. ASSUME NEW p \in Daemon!Pids,
             \/ Daemon!ReadLock(p) \/ Daemon!UnlinkLock(p) \/ Daemon!CreateLock(p) \/ Daemon!WriteLock(p)
      PROVE Daemon!DaemonTypeOK'
  BY <1>4 DEF Daemon!ReadLock, Daemon!UnlinkLock, Daemon!CreateLock, Daemon!WriteLock
<1>5. ASSUME NEW p \in Daemon!Pids,
             \/ Daemon!Initialized(p) \/ Daemon!InitializeFails(p) \/ Daemon!Listen(p) \/ Daemon!ListenFails(p)
             \/ Daemon!WriteManifest(p)
      PROVE Daemon!DaemonTypeOK'
  BY <1>5 DEF Daemon!Initialized, Daemon!InitializeFails, Daemon!Listen, Daemon!ListenFails, Daemon!WriteManifest
<1>6. ASSUME NEW p \in Daemon!Pids, Daemon!ServerClosed(p) \/ Daemon!StartFails(p)
      PROVE Daemon!DaemonTypeOK'
  BY <1>6 DEF Daemon!ServerClosed, Daemon!StartFails
<1>9. ASSUME NEW p \in Daemon!Pids, Daemon!Killed(p)
      PROVE Daemon!DaemonTypeOK'
  BY <1>9 DEF Daemon!Killed
<1>8. ASSUME NEW p \in Daemon!Pids, Daemon!ShutdownEnds(p)
      PROVE Daemon!DaemonTypeOK'
  BY <1>8 DEF Daemon!ShutdownEnds
<1>7. CASE UNCHANGED daemonVars
  BY <1>7 DEF daemonVars
<1> QED
  BY <1>1, <1>2, <1>3, <1>4, <1>5, <1>6, <1>7, <1>8, <1>9 DEF Daemon!DaemonNext

\* No step breaks the invariant of the daemon.
LEMMA DaemonKeeps == DaemonInv /\ [Daemon!DaemonNext]_daemonVars => DaemonInv'
<1> SUFFICES ASSUME DaemonInv, [Daemon!DaemonNext]_daemonVars PROVE DaemonInv'
  OBVIOUS
<1>t. Daemon!DaemonTypeOK'
  BY DaemonTypes
<1>p. Daemon!Pids \subseteq Nat /\ Daemon!NoPid \notin Daemon!Pids
  BY PartsAssumption DEF Daemon!Pids, Daemon!NoPid
<1>f. daemonFaults \subseteq daemonFaults'
  BY DEF Daemon!DaemonNext, daemonVars, Daemon!Run, Daemon!Start, Daemon!Stop, Daemon!StopEnds, Daemon!ReadLock,
         Daemon!UnlinkLock, Daemon!CreateLock, Daemon!WriteLock, Daemon!Initialized, Daemon!InitializeFails,
         Daemon!Listen, Daemon!ListenFails, Daemon!WriteManifest, Daemon!ServerClosed, Daemon!ShutdownEnds,
         Daemon!StartFails, Daemon!Killed
<1> DEFINE Kept == /\ Unspoilt' => LockFollows'
                   /\ daemonFaults' = {} => ManifestFollows'
                   /\ StopFollows'
<1> SUFFICES Kept
  BY <1>t DEF DaemonInv
<1>u. /\ Unspoilt' => Unspoilt /\ LockFollows
      /\ daemonFaults' = {} => Unspoilt /\ LockFollows /\ ManifestFollows
  BY <1>f DEF Unspoilt, DaemonInv
<1>y. /\ daemonProcs \in [Daemon!Pids -> Daemon!Alive \cup {"none", "dead"}] /\ StopFollows
      /\ daemonStop \in Daemon!Pids \cup {Daemon!NoPid} /\ daemonManifest \in Daemon!Pids \cup {Daemon!NoPid}
      /\ daemonLock \in Daemon!Pids \cup {Daemon!NoPid}
  BY DEF DaemonInv, Daemon!DaemonTypeOK
<1> USE <1>p, <1>u, <1>y DEF LockFollows, ManifestFollows, StopFollows, Taking, Having, Daemon!Becomes, Daemon!files,
        Daemon!Unlinked, Daemon!Dies
<1>1. CASE Daemon!Run
  BY <1>1 DEF Daemon!Run, Unspoilt
<1>2. CASE Daemon!Start
  BY <1>2 DEF Daemon!Start, Daemon!live, Daemon!isProcessRunning, Daemon!Alive, Daemon!Holding, Unspoilt
<1>3. CASE Daemon!Stop
  <2>1. Daemon!live \in Daemon!Pids \cup {Daemon!NoPid} /\ Daemon!startingPid \in Daemon!Pids \cup {Daemon!NoPid}
    BY DEF Daemon!live, Daemon!startingPid
  <2>2. \A p \in Daemon!Pids : daemonProcs[p] = "running" /\ daemonFaults = {} => Daemon!live = p
    BY DEF DaemonInv, Daemon!live, Daemon!isProcessRunning, Daemon!Alive, Daemon!Holding
  <2> QED
    BY <1>3, <2>1, <2>2 DEF Daemon!Stop, Unspoilt
<1>4. CASE Daemon!StopEnds
  BY <1>4 DEF Daemon!StopEnds, Unspoilt
<1>5. ASSUME NEW p \in Daemon!Pids, Daemon!ReadLock(p) PROVE Kept
  <2>1. Unspoilt' => \A q \in Daemon!Pids \ {p} : daemonProcs[q] \notin Taking
    BY <1>5 DEF Daemon!ReadLock, Unspoilt
  <2>2. Unspoilt' /\ (\E q \in Daemon!Pids : daemonProcs[q] \in Having) => Daemon!lockIsHeld
    BY DEF Daemon!lockIsHeld, Daemon!isProcessRunning, Daemon!Alive, Daemon!Holding
  <2> QED
    BY <1>5, <2>1, <2>2 DEF Daemon!ReadLock
<1>6. ASSUME NEW p \in Daemon!Pids, Daemon!UnlinkLock(p) PROVE Kept
  BY <1>6 DEF Daemon!UnlinkLock
<1>7. ASSUME NEW p \in Daemon!Pids, Daemon!CreateLock(p) PROVE Kept
  BY <1>7 DEF Daemon!CreateLock
<1>8. ASSUME NEW p \in Daemon!Pids, Daemon!WriteLock(p) PROVE Kept
  BY <1>8 DEF Daemon!WriteLock
<1>9. ASSUME NEW p \in Daemon!Pids, Daemon!Initialized(p) \/ Daemon!InitializeFails(p) PROVE Kept
  BY <1>9 DEF Daemon!Initialized, Daemon!InitializeFails
<1>10. ASSUME NEW p \in Daemon!Pids, Daemon!Listen(p) PROVE Kept
  BY <1>10 DEF Daemon!Listen
<1>11. ASSUME NEW p \in Daemon!Pids, Daemon!ListenFails(p) PROVE Kept
  BY <1>11 DEF Daemon!ListenFails, Unspoilt
<1>12. ASSUME NEW p \in Daemon!Pids, Daemon!WriteManifest(p) PROVE Kept
  BY <1>12 DEF Daemon!WriteManifest
<1>13. ASSUME NEW p \in Daemon!Pids, Daemon!ServerClosed(p) PROVE Kept
  BY <1>13 DEF Daemon!ServerClosed
<1>14. ASSUME NEW p \in Daemon!Pids, Daemon!ShutdownEnds(p) PROVE Kept
  BY <1>14 DEF Daemon!ShutdownEnds
<1>15. ASSUME NEW p \in Daemon!Pids, Daemon!StartFails(p) PROVE Kept
  BY <1>15 DEF Daemon!StartFails
<1>16. ASSUME NEW p \in Daemon!Pids, Daemon!Killed(p) PROVE Kept
  BY <1>16 DEF Daemon!Killed
<1>17. CASE UNCHANGED daemonVars
  BY <1>17 DEF daemonVars, Unspoilt
<1> QED
  BY <1>1, <1>2, <1>3, <1>4, <1>5, <1>6, <1>7, <1>8, <1>9, <1>10, <1>11, <1>12, <1>13, <1>14, <1>15, <1>16, <1>17
     DEF Daemon!DaemonNext

-----------------------------------------------------------------------------
(* The configuration (BridgeConfig)                                        *)

\* The type of a key in the file, and what config set wrote, which is what the
\* file still holds.
ConfInv ==
  /\ Conf!ConfTypeOK
  /\ confSet # Conf!None => confFile = confSet
  /\ Conf!SpawnedAsAsked

\* The invariant of the configuration holds at first.
LEMMA ConfBegins == Conf!ConfInit => ConfInv
  BY DEF Conf!ConfInit, ConfInv, Conf!ConfTypeOK, Conf!SpawnedAsAsked, Conf!Typed, Conf!Plain, Conf!None,
     Conf!Values, Conf!Keys

\* A written value is one that can be written.
LEMMA WritesKeeps ==
  ASSUME ConfInv, NEW v \in Conf!Typed(confKey) \cup {Conf!None},
         NEW set \in Conf!Plain \cup {"emptyList", Conf!None}, set \in {v, Conf!None},
         Conf!Writes(v, set)
  PROVE  ConfInv'
  BY DEF ConfInv, Conf!ConfTypeOK, Conf!SpawnedAsAsked, Conf!Writes, Conf!Typed, Conf!Plain, Conf!None

\* What a start hands on is read as if it had been given in the foreground.
LEMMA StartKeeps ==
  ASSUME ConfInv, NEW form \in {"spaced", "equals"}, NEW flag \in Conf!Values \cup {Conf!None},
         Conf!HandleStart(form, flag)
  PROVE  ConfInv'
<1> QED
  BY DEF ConfInv, Conf!ConfTypeOK, Conf!SpawnedAsAsked, Conf!HandleStart, Conf!Spawned, Conf!serializeConfigArgs,
     Conf!parseArgs, Conf!requireValue, Conf!normalizePositiveInt, Conf!Load, Conf!Typed, Conf!Plain, Conf!None,
     Conf!Values, Conf!Keys, Conf!or, Conf!normalize, Conf!Usable, Conf!normalizeCorsOrigins,
     Conf!normalizePathOverride, Conf!readBridgeConfigFile

\* No step breaks the invariant of the configuration.
LEMMA ConfKeeps == ConfInv /\ [Conf!ConfNext]_confVars => ConfInv'
<1> SUFFICES ASSUME ConfInv, [Conf!ConfNext]_confVars PROVE ConfInv'
  OBVIOUS
<1>1. ASSUME NEW v \in Conf!Values, Conf!ConfigSet(v) PROVE ConfInv'
  BY <1>1, WritesKeeps DEF Conf!ConfigSet
<1>2. CASE Conf!ConfigEdit
  BY <1>2, WritesKeeps DEF Conf!ConfigEdit
<1>3. CASE Conf!ConfigReset
  BY <1>3, WritesKeeps DEF Conf!ConfigReset
<1>4. CASE UNCHANGED confVars
  BY <1>4 DEF confVars, ConfInv, Conf!ConfTypeOK, Conf!SpawnedAsAsked, Conf!Typed
<1> QED
  BY <1>1, <1>2, <1>3, <1>4, StartKeeps DEF Conf!ConfNext

\* What config set has written is what is loaded.
LEMMA ConfImplies == ConfInv => Conf!ConfTypeOK /\ Conf!SpawnedAsAsked /\ Conf!SetIsEffective
  BY DEF ConfInv, Conf!ConfTypeOK, Conf!SetIsEffective, Conf!getBridgeConfigValue, Conf!Load, Conf!Typed,
     Conf!Plain, Conf!None,
     Conf!Values, Conf!Keys, Conf!or, Conf!normalize, Conf!Usable, Conf!normalizeCorsOrigins,
     Conf!normalizePathOverride, Conf!readBridgeConfigFile

-----------------------------------------------------------------------------
(* Caches of a thread (ThreadCaches)                                       *)

Touches(c) == svcRuns[c].phase \in {"turn", "turned", "resume", "resumed"}
TellsActual(settings) == \A f \in SvcFields : settings[f] \in {"none", svcActual[f]}

\* A call that is alone is the only one that touches the settings; unless they
\* strayed, every call is alone, and what it will write agrees with the
\* app-server.
AloneTouches ==
  \A c \in SvcCalls : svcRuns[c].alone =>
    /\ Touches(c)
    /\ \A d \in SvcCalls : Touches(d) => d = c
    /\ svcRuns[c].phase = "resumed" => svcRuns[c].settings = svcActual

Unstrayed ==
  /\ \A c \in SvcCalls : Touches(c) => svcRuns[c].alone
  /\ \A c \in SvcCalls : svcRuns[c].phase = "turn" => svcRuns[c].settings = svcSettings
  /\ \A c \in SvcCalls : svcRuns[c].phase = "turned" =>
       TellsActual(Svc!Merged(svcRuns[c].settings, svcRuns[c].sets))
  /\ (\A c \in SvcCalls : svcRuns[c].phase # "turned") => TellsActual(svcSettings)

SvcInv ==
  /\ Svc!SvcTypeOK
  /\ Svc!LiveUsageWins
  /\ AloneTouches
  /\ ~svcHistory.strayed => Unstrayed

\* What the invariant of the caches is for.
LEMMA SvcImplies == SvcInv => Svc!SvcTypeOK /\ Svc!SettingsAgree /\ Svc!LiveUsageWins
  BY DEF SvcInv, Unstrayed, Svc!SettingsAgree, Svc!Touching, TellsActual

\* A call that is not under way knows no settings.
LEMMA IdleCall ==
  /\ Svc!Unset \in Svc!PartialSettings
  /\ Svc!Idle = [phase |-> "idle", settings |-> Svc!Unset, sets |-> Svc!Unset, alone |-> FALSE]
  /\ Svc!Idle \in [phase : Svc!Phases, settings : Svc!PartialSettings, sets : Svc!PartialSettings,
                   alone : BOOLEAN]
  BY DEF Svc!Idle, Svc!Unset, Svc!PartialSettings, Svc!Phases

\* The invariant of the caches holds at first.
LEMMA SvcBegins == Svc!SvcInit => SvcInv
<1> SUFFICES ASSUME Svc!SvcInit PROVE SvcInv
  OBVIOUS
<1>1. Svc!SvcTypeOK
  BY IdleCall DEF Svc!SvcInit, Svc!SvcTypeOK, Svc!Settings
<1>2. TellsActual(svcSettings)
  BY DEF TellsActual, Svc!SvcInit, Svc!Unset
<1> QED
  BY <1>1, <1>2, IdleCall DEF Svc!SvcInit, SvcInv, AloneTouches, Unstrayed, Svc!LiveUsageWins, Touches

\* A call begins.
LEMMA BeginsKeeps ==
  ASSUME SvcInv, NEW c \in SvcCalls,
         NEW run \in [phase : {"turn", "resume"}, settings : Svc!PartialSettings, sets : Svc!PartialSettings,
                      alone : BOOLEAN],
         run.phase = "turn" => run.settings = svcSettings,
         Svc!Begins(c, run)
  PROVE  SvcInv'
<1>1. /\ svcRuns[c].phase = "idle"
      /\ svcRuns' = [d \in SvcCalls |-> IF d = c THEN [run EXCEPT !.alone = (Svc!Touching = {})]
                                        ELSE [svcRuns[d] EXCEPT !.alone = FALSE]]
      /\ svcHistory' = [svcHistory EXCEPT !.strayed = svcHistory.strayed \/ Svc!Touching # {}]
      /\ UNCHANGED <<svcActual, svcSettings, svcUsage>>
  BY DEF Svc!Begins
<1>2. Svc!Touching = {} <=> \A d \in SvcCalls : ~Touches(d)
  BY DEF Svc!Touching, Touches
<1>3. /\ svcRuns' \in [SvcCalls -> [phase : Svc!Phases, settings : Svc!PartialSettings,
                                    sets : Svc!PartialSettings, alone : BOOLEAN]]
      /\ svcHistory' \in [strayed : BOOLEAN, live : BOOLEAN]
      /\ svcHistory'.live = svcHistory.live
      /\ svcHistory'.strayed = (svcHistory.strayed \/ Svc!Touching # {})
  BY <1>1 DEF SvcInv, Svc!SvcTypeOK, Svc!Phases
<1>4. /\ svcRuns'[c].phase = run.phase /\ svcRuns'[c].settings = run.settings
      /\ svcRuns'[c].alone = (Svc!Touching = {})
      /\ \A d \in SvcCalls \ {c} : svcRuns'[d].phase = svcRuns[d].phase /\ ~svcRuns'[d].alone
  BY <1>1 DEF SvcInv, Svc!SvcTypeOK
<1>5. Svc!SvcTypeOK' /\ Svc!LiveUsageWins'
  BY <1>1, <1>3 DEF SvcInv, Svc!SvcTypeOK, Svc!LiveUsageWins
<1>6. AloneTouches'
  BY <1>1, <1>2, <1>4 DEF AloneTouches, Touches
<1>7. ~svcHistory'.strayed => Unstrayed'
  <2> SUFFICES ASSUME ~svcHistory.strayed, Svc!Touching = {} PROVE Unstrayed'
    BY <1>3
  <2>1. \A d \in SvcCalls : ~Touches(d)
    BY <1>2
  <2>2. TellsActual(svcSettings)
    BY <2>1 DEF SvcInv, Unstrayed, Touches
  <2> QED
    BY <1>1, <1>4, <2>1, <2>2 DEF Unstrayed, Touches, TellsActual
<1> QED
  BY <1>5, <1>6, <1>7 DEF SvcInv

\* A call that was not about to write settings goes on with nothing to write.
LEMMA LeavesKeeps ==
  ASSUME SvcInv, NEW c \in SvcCalls, svcRuns[c].phase \notin {"turned", "resumed"},
         NEW run \in [phase : {"idle", "scanning", "unsubscribe", "unsubscribed"},
                      settings : Svc!PartialSettings, sets : Svc!PartialSettings, alone : {FALSE}],
         svcRuns' = [svcRuns EXCEPT ![c] = run],
         UNCHANGED <<svcActual, svcSettings>>, svcHistory'.strayed = svcHistory.strayed
  PROVE  /\ svcRuns' \in [SvcCalls -> [phase : Svc!Phases, settings : Svc!PartialSettings,
                                       sets : Svc!PartialSettings, alone : BOOLEAN]]
         /\ AloneTouches'
         /\ ~svcHistory'.strayed => Unstrayed'
<1>1. svcRuns' \in [SvcCalls -> [phase : Svc!Phases, settings : Svc!PartialSettings,
                                 sets : Svc!PartialSettings, alone : BOOLEAN]]
  BY DEF SvcInv, Svc!SvcTypeOK, Svc!Phases
<1>2. /\ svcRuns'[c] = run
      /\ \A d \in SvcCalls \ {c} : svcRuns'[d] = svcRuns[d]
  BY DEF SvcInv, Svc!SvcTypeOK
<1>3. AloneTouches'
  <2>1. ~svcRuns'[c].alone /\ ~Touches(c)'
    BY <1>2 DEF Touches
  <2>2. \A d \in SvcCalls \ {c} : Touches(d)' <=> Touches(d)
    BY <1>2 DEF Touches
  <2>3. AloneTouches
    BY DEF SvcInv
  <2> QED
    BY <1>2, <2>1, <2>2, <2>3 DEF AloneTouches
<1>4. ~svcHistory'.strayed => Unstrayed'
  <2> SUFFICES ASSUME Unstrayed PROVE Unstrayed'
    BY DEF SvcInv
  <2>1. (\A d \in SvcCalls : svcRuns'[d].phase # "turned") => TellsActual(svcSettings)
    BY <1>2 DEF Unstrayed
  <2>2. \A d \in SvcCalls : svcRuns'[d].phase = "turned" =>
          TellsActual(Svc!Merged(svcRuns'[d].settings, svcRuns'[d].sets))
    BY <1>2 DEF Unstrayed
  <2>3. TellsActual(svcSettings)' = TellsActual(svcSettings)
    BY DEF TellsActual
  <2>4. \A d \in SvcCalls : svcRuns'[d].phase = "turned" =>
          TellsActual(Svc!Merged(svcRuns[d].settings, svcRuns[d].sets))'
    BY <1>2, <2>2 DEF TellsActual, Svc!Merged
  <2> QED
    BY <1>2, <2>1, <2>3, <2>4 DEF Unstrayed, Touches
<1> QED
  BY <1>1, <1>3, <1>4

\* Settings that are merged are settings.
LEMMA MergedTypes ==
  ASSUME NEW sets \in Svc!PartialSettings
  PROVE  /\ \A s \in Svc!Settings : Svc!Merged(s, sets) \in Svc!Settings
         /\ \A s \in Svc!PartialSettings : Svc!Merged(s, sets) \in Svc!PartialSettings
  BY DEF Svc!Merged, Svc!Settings, Svc!PartialSettings

\* The app-server takes what a turn sets.
LEMMA TurnStartsKeeps ==
  ASSUME SvcInv, NEW c \in SvcCalls, Svc!TurnStarts(c)
  PROVE  SvcInv'
<1>1. /\ svcRuns[c].phase = "turn"
      /\ svcActual' = Svc!Merged(svcActual, svcRuns[c].sets)
      /\ svcRuns' = [svcRuns EXCEPT ![c] = [svcRuns[c] EXCEPT !.phase = "turned"]]
      /\ UNCHANGED <<svcSettings, svcUsage, svcHistory>>
  BY DEF Svc!TurnStarts
<1>2. svcRuns[c] \in [phase : Svc!Phases, settings : Svc!PartialSettings,
                      sets : Svc!PartialSettings, alone : BOOLEAN]
  BY DEF SvcInv, Svc!SvcTypeOK
<1>3. /\ svcRuns'[c].phase = "turned" /\ svcRuns'[c].settings = svcRuns[c].settings
      /\ svcRuns'[c].sets = svcRuns[c].sets /\ svcRuns'[c].alone = svcRuns[c].alone
      /\ \A d \in SvcCalls \ {c} : svcRuns'[d] = svcRuns[d]
  BY <1>1, <1>2 DEF SvcInv, Svc!SvcTypeOK
<1>4. svcActual' \in Svc!Settings
  BY <1>1, <1>2, MergedTypes DEF SvcInv, Svc!SvcTypeOK
<1>5. Svc!SvcTypeOK' /\ Svc!LiveUsageWins'
  BY <1>1, <1>2, <1>4 DEF SvcInv, Svc!SvcTypeOK, Svc!Phases, Svc!LiveUsageWins
<1>6. AloneTouches'
  BY <1>1, <1>3 DEF SvcInv, AloneTouches, Touches
<1>7. ~svcHistory'.strayed => Unstrayed'
  <2> SUFFICES ASSUME ~svcHistory.strayed PROVE Unstrayed'
    BY <1>1
  <2>1. Unstrayed /\ svcRuns[c].alone
    BY <1>1 DEF SvcInv, Unstrayed, Touches
  <2>2. \A d \in SvcCalls : Touches(d) => d = c
    BY <2>1 DEF SvcInv, AloneTouches
  <2>3. TellsActual(svcSettings) /\ svcRuns[c].settings = svcSettings
    BY <1>1, <2>1, <2>2 DEF Unstrayed, Touches
  <2>4. TellsActual(Svc!Merged(svcRuns[c].settings, svcRuns[c].sets))'
    BY <1>1, <1>2, <1>3, <2>3 DEF TellsActual, Svc!Merged, SvcInv, Svc!SvcTypeOK, Svc!Settings, Svc!PartialSettings
  <2> QED
    BY <1>3, <2>1, <2>2, <2>4 DEF Unstrayed, Touches
<1> QED
  BY <1>5, <1>6, <1>7 DEF SvcInv

\* The settings merged with what the turn set are remembered.
LEMMA StartTurnReturnsKeeps ==
  ASSUME SvcInv, NEW c \in SvcCalls, Svc!StartTurnReturns(c)
  PROVE  SvcInv'
<1>1. /\ svcRuns[c].phase = "turned"
      /\ svcSettings' = Svc!Merged(svcRuns[c].settings, svcRuns[c].sets)
      /\ svcRuns' = [svcRuns EXCEPT ![c] = Svc!Idle]
      /\ UNCHANGED <<svcActual, svcUsage, svcHistory>>
  BY DEF Svc!StartTurnReturns, Svc!mergeThreadSettings
<1>2. svcRuns[c] \in [phase : Svc!Phases, settings : Svc!PartialSettings,
                      sets : Svc!PartialSettings, alone : BOOLEAN]
  BY DEF SvcInv, Svc!SvcTypeOK
<1>3. /\ svcRuns'[c].phase = "idle" /\ ~svcRuns'[c].alone
      /\ \A d \in SvcCalls \ {c} : svcRuns'[d] = svcRuns[d]
  BY <1>1, IdleCall DEF SvcInv, Svc!SvcTypeOK
<1>4. svcSettings' \in Svc!PartialSettings
  BY <1>1, <1>2, MergedTypes
<1>5. Svc!SvcTypeOK' /\ Svc!LiveUsageWins'
  BY <1>1, <1>4, IdleCall DEF SvcInv, Svc!SvcTypeOK, Svc!LiveUsageWins
<1>6. AloneTouches'
  BY <1>1, <1>3 DEF SvcInv, AloneTouches, Touches
<1>7. ~svcHistory'.strayed => Unstrayed'
  <2> SUFFICES ASSUME ~svcHistory.strayed PROVE Unstrayed'
    BY <1>1
  <2>1. Unstrayed /\ svcRuns[c].alone
    BY <1>1 DEF SvcInv, Unstrayed, Touches
  <2>2. \A d \in SvcCalls : Touches(d) => d = c
    BY <2>1 DEF SvcInv, AloneTouches
  <2>3. \A d \in SvcCalls : ~Touches(d)'
    BY <1>3, <2>2 DEF Touches
  <2>4. TellsActual(svcSettings)'
    BY <1>1, <2>1 DEF Unstrayed, TellsActual
  <2> QED
    BY <2>3, <2>4 DEF Unstrayed, Touches
<1> QED
  BY <1>5, <1>6, <1>7 DEF SvcInv

\* The app-server answers a resume with its settings.
LEMMA ResumesKeeps ==
  ASSUME SvcInv, NEW c \in SvcCalls, Svc!Resumes(c)
  PROVE  SvcInv'
<1>1. /\ svcRuns[c].phase = "resume"
      /\ svcRuns' = [svcRuns EXCEPT ![c] = [svcRuns[c] EXCEPT !.phase = "resumed", !.settings = svcActual]]
      /\ UNCHANGED <<svcActual, svcSettings, svcUsage, svcHistory>>
  BY DEF Svc!Resumes
<1>2. svcRuns[c] \in [phase : Svc!Phases, settings : Svc!PartialSettings,
                      sets : Svc!PartialSettings, alone : BOOLEAN]
  BY DEF SvcInv, Svc!SvcTypeOK
<1>3. /\ svcRuns'[c].phase = "resumed" /\ svcRuns'[c].settings = svcActual
      /\ svcRuns'[c].alone = svcRuns[c].alone
      /\ \A d \in SvcCalls \ {c} : svcRuns'[d] = svcRuns[d]
  BY <1>1, <1>2 DEF SvcInv, Svc!SvcTypeOK
<1>4. svcActual \in Svc!PartialSettings
  BY DEF SvcInv, Svc!SvcTypeOK, Svc!Settings, Svc!PartialSettings
<1>5. Svc!SvcTypeOK' /\ Svc!LiveUsageWins'
  BY <1>1, <1>2, <1>4 DEF SvcInv, Svc!SvcTypeOK, Svc!Phases, Svc!LiveUsageWins
<1>6. AloneTouches'
  BY <1>1, <1>3 DEF SvcInv, AloneTouches, Touches
<1>7. ~svcHistory'.strayed => Unstrayed'
  BY <1>1, <1>3 DEF SvcInv, Unstrayed, Touches, TellsActual
<1> QED
  BY <1>5, <1>6, <1>7 DEF SvcInv

\* The settings of a resume replace those remembered; one that was alone puts
\* an end to their straying.
LEMMA ResumeReturnsKeeps ==
  ASSUME SvcInv, NEW c \in SvcCalls, Svc!ResumeReturns(c)
  PROVE  SvcInv'
<1> DEFINE run == IF svcUsage = "none" THEN [Svc!Idle EXCEPT !.phase = "scanning"] ELSE Svc!Idle
<1>1. /\ svcRuns[c].phase = "resumed"
      /\ svcSettings' = svcRuns[c].settings
      /\ svcRuns' = [svcRuns EXCEPT ![c] = run]
      /\ svcHistory' = [svcHistory EXCEPT !.strayed = svcHistory.strayed /\ ~svcRuns[c].alone]
      /\ UNCHANGED <<svcActual, svcUsage>>
  BY DEF Svc!ResumeReturns
<1>2. /\ run \in [phase : Svc!Phases, settings : Svc!PartialSettings, sets : Svc!PartialSettings, alone : {FALSE}]
      /\ run.phase \in {"scanning", "idle"}
  BY IdleCall DEF Svc!Phases
<1>3. /\ svcRuns[c].settings \in Svc!PartialSettings /\ svcRuns[c].alone \in BOOLEAN
      /\ svcHistory'.strayed = (svcHistory.strayed /\ ~svcRuns[c].alone)
      /\ svcHistory'.live = svcHistory.live
      /\ svcHistory' \in [strayed : BOOLEAN, live : BOOLEAN]
  BY <1>1 DEF SvcInv, Svc!SvcTypeOK
<1> HIDE DEF run
<1>4. /\ svcRuns'[c] = run
      /\ \A d \in SvcCalls \ {c} : svcRuns'[d] = svcRuns[d]
  BY <1>1 DEF SvcInv, Svc!SvcTypeOK
<1>5. Svc!SvcTypeOK' /\ Svc!LiveUsageWins'
  BY <1>1, <1>2, <1>3 DEF SvcInv, Svc!SvcTypeOK, Svc!LiveUsageWins
<1>6. AloneTouches'
  BY <1>1, <1>2, <1>4 DEF SvcInv, AloneTouches, Touches
<1>7. ~svcHistory'.strayed => Unstrayed'
  <2> SUFFICES ASSUME ~svcHistory'.strayed PROVE Unstrayed'
    OBVIOUS
  <2>1. svcRuns[c].alone
    BY <1>1, <1>3 DEF SvcInv, Unstrayed, Touches
  <2>2. /\ svcRuns[c].settings = svcActual
        /\ \A d \in SvcCalls : Touches(d) => d = c
    BY <1>1, <2>1 DEF SvcInv, AloneTouches
  <2>3. \A d \in SvcCalls : ~Touches(d)'
    BY <1>2, <1>4, <2>2 DEF Touches
  <2>4. TellsActual(svcSettings)'
    BY <1>1, <2>2 DEF TellsActual
  <2> QED
    BY <2>3, <2>4 DEF Unstrayed, Touches
<1> QED
  BY <1>5, <1>6, <1>7 DEF SvcInv

\* Somebody else changes the settings.
LEMMA SettingsChangeKeeps ==
  ASSUME SvcInv, NEW settings \in Svc!Settings, Svc!SettingsChange(settings)
  PROVE  SvcInv'
<1>1. /\ svcActual' = settings
      /\ svcHistory' = [svcHistory EXCEPT !.strayed = TRUE]
      /\ svcRuns' = [c \in SvcCalls |-> [svcRuns[c] EXCEPT !.alone = FALSE]]
      /\ UNCHANGED <<svcSettings, svcUsage>>
  BY DEF Svc!SettingsChange
<1>2. Svc!SvcTypeOK' /\ Svc!LiveUsageWins' /\ svcHistory'.strayed
  BY <1>1 DEF SvcInv, Svc!SvcTypeOK, Svc!LiveUsageWins
<1>3. \A c \in SvcCalls : ~svcRuns'[c].alone
  BY <1>1 DEF SvcInv, Svc!SvcTypeOK
<1> QED
  BY <1>2, <1>3 DEF SvcInv, AloneTouches

\* No step breaks the invariant of the caches.
LEMMA SvcKeeps == SvcInv /\ [Svc!SvcNext]_svcVars => SvcInv'
<1> SUFFICES ASSUME SvcInv, [Svc!SvcNext]_svcVars PROVE SvcInv'
  OBVIOUS
<1>1. ASSUME NEW c \in SvcCalls, NEW sets \in Svc!PartialSettings, Svc!StartTurn(c, sets) PROVE SvcInv'
  <2> DEFINE run == [Svc!Idle EXCEPT !.phase = "turn", !.settings = svcSettings, !.sets = sets]
  <2>1. /\ run \in [phase : {"turn", "resume"}, settings : Svc!PartialSettings, sets : Svc!PartialSettings,
                    alone : BOOLEAN]
        /\ run.settings = svcSettings
    BY IdleCall DEF SvcInv, Svc!SvcTypeOK
  <2>2. Svc!Begins(c, run)
    BY <1>1 DEF Svc!StartTurn
  <2> HIDE DEF run
  <2> QED
    BY <2>1, <2>2, BeginsKeeps
<1>2. ASSUME NEW c \in SvcCalls, Svc!ResumeThread(c) PROVE SvcInv'
  <2> DEFINE run == [Svc!Idle EXCEPT !.phase = "resume"]
  <2>1. /\ run \in [phase : {"turn", "resume"}, settings : Svc!PartialSettings, sets : Svc!PartialSettings,
                    alone : BOOLEAN]
        /\ run.phase # "turn"
    BY IdleCall
  <2>2. Svc!Begins(c, run)
    BY <1>2 DEF Svc!ResumeThread
  <2> HIDE DEF run
  <2> QED
    BY <2>1, <2>2, BeginsKeeps
<1>3. ASSUME NEW c \in SvcCalls,
             \/ Svc!CallFails(c) \/ Svc!RolloutRead(c) \/ Svc!UnsubscribeThread(c)
             \/ Svc!Unsubscribes(c) \/ Svc!UnsubscribeReturns(c)
      PROVE  SvcInv'
  <2>0. svcRuns[c] \in [phase : Svc!Phases, settings : Svc!PartialSettings,
                        sets : Svc!PartialSettings, alone : BOOLEAN]
    BY DEF SvcInv, Svc!SvcTypeOK
  <2>1. svcRuns[c].phase = "unsubscribe" => ~svcRuns[c].alone
    BY DEF SvcInv, AloneTouches, Touches
  <2>2. PICK run \in [phase : {"idle", "scanning", "unsubscribe", "unsubscribed"},
                      settings : Svc!PartialSettings, sets : Svc!PartialSettings, alone : {FALSE}] :
          svcRuns' = [svcRuns EXCEPT ![c] = run]
    <3>1. Svc!Idle \in [phase : {"idle", "scanning", "unsubscribe", "unsubscribed"},
                        settings : Svc!PartialSettings, sets : Svc!PartialSettings, alone : {FALSE}]
      BY IdleCall
    <3>2. [Svc!Idle EXCEPT !.phase = "unsubscribe"]
             \in [phase : {"idle", "scanning", "unsubscribe", "unsubscribed"},
                  settings : Svc!PartialSettings, sets : Svc!PartialSettings, alone : {FALSE}]
      BY IdleCall
    <3>3. CASE Svc!Unsubscribes(c)
      <4>1. svcRuns' = [svcRuns EXCEPT ![c] = [svcRuns[c] EXCEPT !.phase = "unsubscribed"]]
        BY <3>3 DEF Svc!Unsubscribes
      <4>2. [svcRuns[c] EXCEPT !.phase = "unsubscribed"]
               \in [phase : {"idle", "scanning", "unsubscribe", "unsubscribed"},
                    settings : Svc!PartialSettings, sets : Svc!PartialSettings, alone : {FALSE}]
        BY <2>0, <2>1, <3>3 DEF Svc!Unsubscribes
      <4> QED
        BY <4>1, <4>2
    <3> QED
      BY <1>3, <3>1, <3>2, <3>3 DEF Svc!CallFails, Svc!RolloutRead, Svc!UnsubscribeThread, Svc!UnsubscribeReturns
  <2>3. /\ svcRuns[c].phase \notin {"turned", "resumed"}
        /\ UNCHANGED <<svcActual, svcSettings>>
    BY <1>3 DEF Svc!CallFails, Svc!RolloutRead, Svc!UnsubscribeThread, Svc!Unsubscribes, Svc!UnsubscribeReturns
  <2>4. /\ svcHistory'.strayed = svcHistory.strayed
        /\ svcHistory' \in [strayed : BOOLEAN, live : BOOLEAN]
        /\ svcUsage' \in {"none", "rollout", "live"}
        /\ Svc!LiveUsageWins'
    BY <1>3 DEF SvcInv, Svc!SvcTypeOK, Svc!LiveUsageWins, Svc!CallFails, Svc!RolloutRead, Svc!UnsubscribeThread,
       Svc!Unsubscribes, Svc!UnsubscribeReturns, Svc!Clears
  <2> QED
    BY <2>2, <2>3, <2>4, LeavesKeeps DEF SvcInv, Svc!SvcTypeOK
<1>4. CASE Svc!ThreadClosed \/ Svc!TokenUsageUpdated \/ UNCHANGED svcVars
  <2>1. /\ UNCHANGED <<svcActual, svcSettings, svcRuns>>
        /\ svcHistory'.strayed = svcHistory.strayed
        /\ svcHistory' \in [strayed : BOOLEAN, live : BOOLEAN]
        /\ svcUsage' \in {"none", "rollout", "live"}
        /\ Svc!LiveUsageWins'
    BY <1>4 DEF SvcInv, Svc!SvcTypeOK, Svc!LiveUsageWins, Svc!ThreadClosed, Svc!TokenUsageUpdated, Svc!Clears, svcVars
  <2> QED
    BY <2>1 DEF SvcInv, Svc!SvcTypeOK, AloneTouches, Unstrayed, Touches, TellsActual
<1> QED
  BY <1>1, <1>2, <1>3, <1>4, TurnStartsKeeps, StartTurnReturnsKeeps, ResumesKeeps, ResumeReturnsKeeps,
     SettingsChangeKeeps DEF Svc!SvcNext

-----------------------------------------------------------------------------
(* A turn as it is shown (ThreadDetailState)                               *)

\* This part's own copy of Cardinality counts like the library's.
LEMMA TurnCardinality == \A S : Turn!Cardinality(S) = Cardinality(S)
  BY DEF Turn!Cardinality, Cardinality

\* No two items have the same id.
Distinct(items) == \A i, j \in DOMAIN items : items[i].id = items[j].id => i = j

\* Some items of a sequence are those at the places, each once.
LEMMA SiftedIs ==
  ASSUME NEW S, NEW items \in Seq(S), NEW places \in SUBSET (DOMAIN items)
  PROVE  LET s == Turn!Sifted(items, places)
         IN  /\ s \in Seq(S)
             /\ \A n \in DOMAIN s : \E k \in places : s[n] = items[k]
             /\ \A k \in places : \E n \in DOMAIN s : s[n] = items[k]
             /\ Distinct(items) => Distinct(s)
<1> DEFINE rank(k) == Turn!Cardinality({j \in places : j <= k})
<1> DEFINE size == Turn!Cardinality(places)
<1>1. DOMAIN items = 1 .. Len(items) /\ Len(items) \in Nat
  OBVIOUS
<1>s. size = Cardinality(places) /\ \A k : rank(k) = Cardinality({j \in places : j <= k})
  BY TurnCardinality
<1> HIDE DEF size, rank
<1>2. IsFiniteSet(places) /\ size \in Nat
  <2>1. IsFiniteSet(1 .. Len(items))
    BY <1>1, FS_Interval
  <2>2. IsFiniteSet(places)
    BY <1>1, <2>1, FS_Subset
  <2> QED
    BY <1>s, <2>2, FS_CardinalityType
<1>3. ASSUME NEW k \in places PROVE rank(k) \in 1 .. size
  <2> DEFINE below == {j \in places : j <= k}
  <2>1. k \in below
    BY <1>1
  <2>2. IsFiniteSet(below) /\ Cardinality(below) <= size
    BY <1>2, <1>s, FS_Subset
  <2>3. Cardinality(below) \in Nat
    BY <2>2, FS_CardinalityType
  <2>4. Cardinality(below) # 0
    BY <2>1, <2>2, FS_EmptySet
  <2> HIDE DEF below
  <2>5. Cardinality(below) \in 1 .. size
    BY <1>2, <2>2, <2>3, <2>4
  <2> QED
    BY <1>s, <2>5 DEF below
<1>4. ASSUME NEW k \in places, NEW m \in places, k < m PROVE rank(k) < rank(m)
  <2> DEFINE low == {j \in places : j <= k}
  <2> DEFINE high == {j \in places : j <= m}
  <2>1. low \in SUBSET high
    BY <1>1, <1>4
  <2>2. m \in high /\ m \notin low
    BY <1>1, <1>4
  <2>3. IsFiniteSet(high)
    BY <1>2, FS_Subset
  <2> HIDE DEF low, high
  <2>4. Cardinality(low) <= Cardinality(high) /\ Cardinality(low) # Cardinality(high) /\ IsFiniteSet(low)
    BY <2>1, <2>2, <2>3, FS_Subset
  <2>5. Cardinality(low) \in Nat /\ Cardinality(high) \in Nat
    BY <2>3, <2>4, FS_CardinalityType
  <2>6. Cardinality(low) < Cardinality(high)
    BY <2>4, <2>5
  <2> QED
    BY <1>s, <2>6 DEF low, high
<1>5. \A k, m \in places : rank(k) = rank(m) => k = m
  <2> SUFFICES ASSUME NEW k \in places, NEW m \in places, k # m PROVE rank(k) # rank(m)
    OBVIOUS
  <2>1. rank(k) \in Nat /\ rank(m) \in Nat
    BY <1>2, <1>3
  <2>2. k < m \/ m < k
    BY <1>1
  <2> QED
    BY <1>4, <2>1, <2>2
<1>6. \A n \in 1 .. size : \E k \in places : rank(k) = n
  <2> DEFINE f == [k \in places |-> rank(k)]
  <2>1. f \in Injection(places, 1 .. size)
    <3>1. f \in [places -> 1 .. size]
      BY <1>3
    <3>2. \A k, m \in places : f[k] = f[m] => k = m
      BY <1>5
    <3> HIDE DEF f
    <3> QED
      BY <3>1, <3>2 DEF Injection, IsInjective
  <2>2. IsFiniteSet(1 .. size) /\ Cardinality(1 .. size) = size
    BY <1>2, FS_Interval
  <2>3. f \in Surjection(places, 1 .. size)
    <3>1. Cardinality(places) = Cardinality(1 .. size)
      BY <1>s, <2>2
    <3> HIDE DEF f
    <3> QED
      BY <2>1, <2>2, <3>1, FS_Injection
  <2> QED
    BY <2>3 DEF Surjection
<1> DEFINE at(n) == CHOOSE k \in places : rank(k) = n
<1>7. ASSUME NEW n \in 1 .. size PROVE at(n) \in places /\ rank(at(n)) = n
  BY <1>6
<1>8. Turn!Sifted(items, places) = [n \in 1 .. size |-> items[at(n)]]
  BY DEF Turn!Sifted, rank, size
<1> HIDE DEF at
<1> DEFINE s == [n \in 1 .. size |-> items[at(n)]]
<1>9. s \in Seq(S)
  BY <1>2, <1>7
<1>10. \A n \in DOMAIN s : \E k \in places : s[n] = items[k]
  BY <1>7
<1>11. ASSUME NEW k \in places PROVE \E n \in DOMAIN s : s[n] = items[k]
  <2>1. rank(k) \in 1 .. size /\ at(rank(k)) = k
    BY <1>3, <1>5, <1>7
  <2> QED
    BY <2>1
<1>12. ASSUME Distinct(items), NEW n \in DOMAIN s, NEW m \in DOMAIN s, s[n].id = s[m].id PROVE n = m
  <2>1. at(n) \in DOMAIN items /\ at(m) \in DOMAIN items /\ items[at(n)].id = items[at(m)].id
    BY <1>7, <1>12
  <2>2. at(n) = at(m)
    BY <1>12, <2>1 DEF Distinct
  <2> QED
    BY <1>7, <1>12, <2>2
<1>13. Distinct(items) => Distinct(s)
  BY <1>12 DEF Distinct
<1> QED
  BY <1>8, <1>9, <1>10, <1>11, <1>13

\* An item is put in the place of the one with its id, or behind the items.
Put(items, item) == IF Turn!Has(items, item.id) THEN Turn!Replace(items, item) ELSE Append(items, item)

\* The items are then what they were but for that one.
LEMMA PutIs ==
  ASSUME NEW items \in Seq(Turn!Items), NEW item \in Turn!Items, Distinct(items)
  PROVE  /\ Put(items, item) \in Seq(Turn!Items) /\ Distinct(Put(items, item))
         /\ \A id : Turn!Has(Put(items, item), id) <=> Turn!Has(items, id) \/ id = item.id
         /\ \E n \in DOMAIN Put(items, item) : Put(items, item)[n] = item
         /\ \A k \in DOMAIN items :
              items[k].id # item.id => \E n \in DOMAIN Put(items, item) : Put(items, item)[n] = items[k]
         /\ \A n \in DOMAIN Put(items, item) :
              Put(items, item)[n] = item \/ \E k \in DOMAIN items : Put(items, item)[n] = items[k] /\ items[k].id # item.id
<1> DEFINE s == Put(items, item)
<1>0. DOMAIN items = 1 .. Len(items) /\ Len(items) \in Nat
  OBVIOUS
<1>1. CASE Turn!Has(items, item.id)
  <2>1. s = [k \in DOMAIN items |-> IF items[k].id = item.id THEN item ELSE items[k]]
    BY <1>1 DEF Put, Turn!Replace
  <2>2. PICK i \in DOMAIN items : items[i].id = item.id
    BY <1>1 DEF Turn!Has
  <2>3. DOMAIN s = DOMAIN items /\ \A k \in DOMAIN items : s[k].id = items[k].id
    BY <2>1
  <2>4. s \in Seq(Turn!Items)
    BY <1>0, <2>1
  <2>5. Distinct(s)
    BY <2>3 DEF Distinct
  <2>6. \A id : Turn!Has(s, id) <=> Turn!Has(items, id) \/ id = item.id
    BY <2>2, <2>3 DEF Turn!Has
  <2>7. s[i] = item
    BY <2>1, <2>2
  <2> QED
    BY <2>1, <2>2, <2>3, <2>4, <2>5, <2>6, <2>7
<1>2. CASE ~Turn!Has(items, item.id)
  <2>1. s = Append(items, item)
    BY <1>2 DEF Put
  <2>2. /\ s \in Seq(Turn!Items) /\ Len(s) = Len(items) + 1 /\ DOMAIN s = 1 .. Len(items) + 1
        /\ s[Len(items) + 1] = item /\ \A k \in 1 .. Len(items) : s[k] = items[k]
    BY <2>1
  <2> HIDE DEF s
  <2>3. \A k \in DOMAIN items : items[k].id # item.id
    BY <1>2 DEF Turn!Has
  <2>4. \A n \in DOMAIN s : n \in 1 .. Len(items) \/ n = Len(items) + 1
    BY <1>0, <2>2
  <2>5. \A n \in 1 .. Len(items) : n \in DOMAIN s /\ n \in DOMAIN items
    BY <1>0, <2>2
  <2>6. Len(items) + 1 \in DOMAIN s
    BY <1>0, <2>2
  <2>7. Distinct(s)
    <3> SUFFICES ASSUME NEW i \in DOMAIN s, NEW j \in DOMAIN s, s[i].id = s[j].id PROVE i = j
      BY DEF Distinct
    <3>1. CASE i \in 1 .. Len(items) /\ j \in 1 .. Len(items)
      BY <1>0, <2>2, <3>1 DEF Distinct
    <3>2. CASE i = Len(items) + 1 /\ j \in 1 .. Len(items)
      BY <1>0, <2>2, <2>3, <3>2
    <3>3. CASE j = Len(items) + 1 /\ i \in 1 .. Len(items)
      BY <1>0, <2>2, <2>3, <3>3
    <3> QED
      BY <2>4, <3>1, <3>2, <3>3
  <2>8. ASSUME NEW id PROVE Turn!Has(s, id) <=> Turn!Has(items, id) \/ id = item.id
    <3>1. Turn!Has(s, id) => Turn!Has(items, id) \/ id = item.id
      BY <1>0, <2>2, <2>4 DEF Turn!Has
    <3>2. Turn!Has(items, id) => Turn!Has(s, id)
      BY <1>0, <2>2, <2>5 DEF Turn!Has
    <3>3. id = item.id => Turn!Has(s, id)
      BY <2>2, <2>6 DEF Turn!Has
    <3> QED
      BY <3>1, <3>2, <3>3
  <2>9. ASSUME NEW k \in DOMAIN items PROVE \E n \in DOMAIN s : s[n] = items[k]
    BY <1>0, <2>2, <2>5
  <2>10. ASSUME NEW n \in DOMAIN s PROVE s[n] = item \/ \E k \in DOMAIN items : s[n] = items[k] /\ items[k].id # item.id
    BY <1>0, <2>2, <2>3, <2>4
  <2>11. \E n \in DOMAIN s : s[n] = item
    BY <2>2, <2>6
  <2> QED
    BY <2>2, <2>7, <2>8, <2>9, <2>10, <2>11 DEF s
<1> QED
  BY <1>1, <1>2

\* The item of an id is among them.
LEMMA ItemOfIs ==
  ASSUME NEW items, NEW id, Turn!Has(items, id)
  PROVE  \E k \in DOMAIN items : items[k] = Turn!ItemOf(items, id) /\ items[k].id = id
BY DEF Turn!Has, Turn!ItemOf

\* What the reducer does to the items for an item.
LEMMA UpsertIs ==
  ASSUME NEW items \in Seq(Turn!Items), NEW item \in Turn!Items
  PROVE  \E new \in Turn!Items :
           /\ Turn!upsertItem(items, item) = Put(items, new)
           /\ new.id = item.id /\ new.done = item.done /\ (item.text # <<>> => new.text = item.text)
<1>1. CASE ~Turn!Has(items, item.id)
  BY <1>1 DEF Turn!upsertItem, Put
<1>2. CASE Turn!Has(items, item.id)
  <2> DEFINE old == Turn!ItemOf(items, item.id)
  <2> DEFINE new == Turn!mergeThreadItem(old, item)
  <2>1. old \in Turn!Items
    BY <1>2, ItemOfIs
  <2>2. /\ new \in Turn!Items
        /\ new.id = item.id /\ new.done = item.done /\ (item.text # <<>> => new.text = item.text)
    BY <2>1 DEF Turn!mergeThreadItem, Turn!Items
  <2>3. Turn!upsertItem(items, item) = Turn!Replace(items, new)
    BY <1>2 DEF Turn!upsertItem
  <2> HIDE DEF new
  <2>4. Put(items, new) = Turn!Replace(items, new)
    BY <1>2, <2>2 DEF Put
  <2> QED
    BY <2>2, <2>3, <2>4
<1> QED
  BY <1>1, <1>2

\* What the reducer does to the items for a delta.
LEMMA AppendDeltaIs ==
  ASSUME NEW items \in Seq(Turn!Items), NEW id \in ItemTypes, NEW delta \in Deltas
  PROVE  \E new \in Turn!Items : Turn!appendDelta(items, id, delta) = Put(items, new) /\ new.id = id
<1> DEFINE item == IF Turn!Has(items, id) THEN Turn!ItemOf(items, id) ELSE Turn!Begun(id)
<1> DEFINE repeats == id = "reasoning" /\ item.text # <<>> /\ item.text[Len(item.text)] = delta
<1> DEFINE new == IF repeats THEN item ELSE Turn!Extended(item, delta)
<1>1. item \in Turn!Items /\ item.id = id
  <2>1. CASE Turn!Has(items, id)
    BY <2>1, ItemOfIs
  <2>2. CASE ~Turn!Has(items, id)
    BY <2>2 DEF Turn!Begun, Turn!Items
  <2> QED
    BY <2>1, <2>2
<1>2. Turn!appendDelta(items, id, delta) = IF Turn!Has(items, id) THEN Turn!Replace(items, new) ELSE Append(items, new)
  BY DEF Turn!appendDelta
<1> HIDE DEF item
<1>3. new \in Turn!Items /\ new.id = id
  <2>1. Turn!Extended(item, delta) \in Turn!Items /\ Turn!Extended(item, delta).id = id
    BY <1>1 DEF Turn!Items, Turn!Extended
  <2> QED
    BY <1>1, <2>1
<1> HIDE DEF new
<1>4. Turn!appendDelta(items, id, delta) = Put(items, new)
  BY <1>2, <1>3 DEF Put
<1> QED
  BY <1>3, <1>4

\* The detail that events are applied to, once the thread was read.
IsRead == turnRead # Turn!Unloaded
Shown == IF turnClient = Turn!Unloaded THEN turnRead ELSE turnClient

Places == 1 .. Len(turnEvents)

\* An event the client has not applied: it waits, or it was missed.
Comes(e) == (turnNext # 0 /\ turnNext <= e) \/ e \in turnMissed

ItemEvent(e, id) == turnEvents[e].type = "item" /\ turnEvents[e].item.id = id
AboutItem(e, id) == turnEvents[e].type \in {"item", "delta"} /\ turnEvents[e].item.id = id

TurnEventType ==
  [type : {"statusChanged", "turnStarted", "turnCompleted", "turnError", "item", "delta"},
   status : Turn!Status,
   item : [id : ItemTypes \cup {"none"}, text : Seq(Deltas), done : BOOLEAN]]

TurnTypes ==
  /\ turnServer \in Turn!Details
  /\ turnEvents \in Seq(TurnEventType)
  /\ turnNext \in 0 .. Len(turnEvents) + 1
  /\ turnMissed \subseteq Places
  /\ ~IsRead => turnMissed = {}
  /\ turnRead \in Turn!Details \cup {Turn!Unloaded}
  /\ turnClient \in Turn!Details \cup {Turn!Unloaded}
  /\ turnClient # Turn!Unloaded => IsRead

\* The turn's events begin with its start, and are of its items.
EventIsOfTheTurn(e) ==
  /\ turnEvents[e].type = "turnStarted" <=> e = 1
  /\ turnEvents[e].type = "turnCompleted" => turnEvents[e].status \in {"completed", "failed"}
  /\ turnEvents[e].type = "turnError" => turnEvents[e].status \in {"inProgress", "failed"}
  /\ turnEvents[e].type \in {"item", "delta"} =>
       /\ turnEvents[e].item.id \in ItemTypes
       /\ Turn!Has(turnServer.items, turnEvents[e].item.id)
  /\ turnEvents[e].type = "delta" => turnEvents[e].item.text # <<>>

EventsAreOfTheTurn ==
  /\ turnServer.turn = "none" <=> turnEvents = <<>>
  /\ turnServer.turn = "none" => turnServer.items = <<>> /\ turnServer.active = FALSE
  /\ Distinct(turnServer.items)
  /\ \A e \in Places : EventIsOfTheTurn(e)

\* What ended the activity is still to be applied, was missed, or is shown.
StatusSettles ==
  /\ turnServer.turn = "none" /\ IsRead => Shown.active = FALSE
  /\ turnServer.active = TRUE =>
       /\ \A e \in Places : turnEvents[e].type # "statusChanged"
       /\ IsRead => Comes(1) \/ Shown.active = TRUE
  /\ turnServer.turn # "none" /\ turnServer.active = FALSE =>
       \E e \in Places : /\ turnEvents[e].type = "statusChanged"
                         /\ IsRead => Comes(e) \/ Shown.active = FALSE

\* So is what ended the turn, and nothing changes its status afterwards.
TurnSettles ==
  turnServer.turn \in {"completed", "failed"} =>
    /\ \A k \in DOMAIN turnServer.items : turnServer.items[k].done = TRUE
    /\ \E m \in Places :
         /\ turnEvents[m].type = "turnCompleted" /\ turnEvents[m].status = turnServer.turn
         /\ \A e \in Places : e > m => turnEvents[e].type = "statusChanged"
         /\ IsRead => Comes(m) \/ Shown.turn = turnServer.turn

\* So is the completion of an item, the last event about it, unless the start of
\* the turn was missed, without which items are dropped.
ShowsDone(d, item) ==
  \E j \in DOMAIN Shown.items :
     /\ Shown.items[j].id = item.id /\ Shown.items[j].done = TRUE
     /\ turnEvents[d].item.text # <<>> => Shown.items[j].text = item.text

IsDoneAt(d, item) ==
  /\ ItemEvent(d, item.id) /\ turnEvents[d].item.done = TRUE
  /\ turnEvents[d].item.text \in {item.text, <<>>}
  /\ \A e \in Places : AboutItem(e, item.id) /\ e # d =>
       e < d /\ (turnEvents[e].type = "item" => turnEvents[e].item.text = <<>>)
  /\ IsRead => Comes(d) \/ 1 \in turnMissed \/ ShowsDone(d, item)

ItemSettles(item) ==
  /\ item.done = TRUE => \E d \in Places : IsDoneAt(d, item)
  /\ item.done = FALSE => \A e \in Places : ItemEvent(e, item.id) => turnEvents[e].item.text = <<>>

ItemsSettle == \A k \in DOMAIN turnServer.items : ItemSettles(turnServer.items[k])

\* Nothing is shown that is not of the turn.
ShownIsOfTheTurn ==
  IsRead => /\ Shown.turn = "none" => (Comes(1) \/ turnEvents = <<>>) /\ Shown.items = <<>>
            /\ Distinct(Shown.items)
            /\ \A j \in DOMAIN Shown.items : Turn!Has(turnServer.items, Shown.items[j].id)

TurnInv ==
  TurnTypes /\ EventsAreOfTheTurn /\ StatusSettles /\ TurnSettles /\ ItemsSettle /\ ShownIsOfTheTurn

\* A detail that was read is none that is not loaded.
LEMMA UnloadedIsNoDetail == Turn!Unloaded \notin Turn!Details /\ Turn!Unloaded.turn = "unloaded"
  BY DEF Turn!Unloaded, Turn!Details, Turn!Status

\* The invariant of the turn holds at first.
LEMMA TurnBegins == Turn!TurnInit => TurnInv
<1> SUFFICES ASSUME Turn!TurnInit PROVE TurnInv
  OBVIOUS
<1>1. /\ turnServer = [active |-> FALSE, turn |-> "none", items |-> <<>>]
      /\ turnEvents = <<>> /\ turnNext = 0 /\ turnMissed = {} /\ turnRead = Turn!Unloaded /\ turnClient = Turn!Unloaded
  BY DEF Turn!TurnInit, Turn!Unloaded
<1>2. TurnTypes
  BY <1>1 DEF TurnTypes, IsRead, Turn!Details, Turn!Status
<1>3. EventsAreOfTheTurn
  BY <1>1 DEF EventsAreOfTheTurn, Distinct, Places
<1>4. StatusSettles
  BY <1>1 DEF StatusSettles, IsRead
<1>5. TurnSettles /\ ItemsSettle /\ ShownIsOfTheTurn
  BY <1>1 DEF TurnSettles, ItemsSettle, ShownIsOfTheTurn, IsRead
<1> QED
  BY <1>2, <1>3, <1>4, <1>5 DEF TurnInv

\* What the invariant of the turn is for.
LEMMA TurnImplies == TurnInv => Turn!TurnConverges /\ Turn!TurnTypeOK
<1> SUFFICES ASSUME TurnInv PROVE Turn!TurnConverges /\ Turn!TurnTypeOK
  OBVIOUS
<1>1. Turn!TurnTypeOK
  BY DEF TurnInv, TurnTypes, Turn!TurnTypeOK, Places
<1>2. ASSUME Turn!CaughtUp
      PROVE  /\ Turn!Missed(IF turnServer.active THEN "turnStarted" ELSE "statusChanged")
                  \/ turnClient.active = turnServer.active
             /\ Distinct(turnClient.items)
             /\ turnServer.turn \in {"completed", "failed"} =>
                  /\ Turn!Missed("turnCompleted") \/ turnClient.turn = turnServer.turn
                  /\ \A j \in DOMAIN turnClient.items : Turn!Has(turnServer.items, turnClient.items[j].id)
                  /\ \A k \in DOMAIN turnServer.items :
                       LET item == turnServer.items[k]
                       IN  \/ Turn!Missed("turnStarted") \/ Turn!MissedEndOf(item.id)
                           \/ \E j \in DOMAIN turnClient.items :
                                /\ turnClient.items[j].id = item.id /\ turnClient.items[j].done
                                /\ Turn!WithText(item.id) => turnClient.items[j].text = item.text
  <2>1. /\ IsRead /\ Shown = turnClient /\ turnClient \in Turn!Details /\ turnServer \in Turn!Details
        /\ Len(turnEvents) \in Nat /\ DOMAIN turnEvents = Places /\ turnMissed \subseteq Places
        /\ \A e \in Places : Comes(e) => e \in turnMissed
    BY <1>2 DEF TurnInv, TurnTypes, Shown, Places, Comes, Turn!CaughtUp
  <2>2. 1 \in turnMissed => Turn!Missed("turnStarted")
    BY <2>1 DEF Turn!Missed, TurnInv, EventsAreOfTheTurn, EventIsOfTheTurn
  <2>3. Turn!Missed(IF turnServer.active THEN "turnStarted" ELSE "statusChanged")
          \/ turnClient.active = turnServer.active
    <3>1. turnServer.active \in BOOLEAN
      BY <2>1 DEF Turn!Details
    <3>2. CASE turnServer.turn = "none"
      BY <2>1, <3>2 DEF TurnInv, EventsAreOfTheTurn, StatusSettles
    <3>3. CASE turnServer.turn # "none" /\ turnServer.active = FALSE
      BY <2>1, <3>3 DEF TurnInv, StatusSettles, Turn!Missed
    <3>4. CASE turnServer.turn # "none" /\ turnServer.active = TRUE
      <4>1. 1 \in Places
        BY <2>1, <3>4 DEF TurnInv, EventsAreOfTheTurn, TurnTypes, Places
      <4> QED
        BY <2>1, <2>2, <3>4, <4>1 DEF TurnInv, StatusSettles
    <3> QED
      BY <3>1, <3>2, <3>3, <3>4
  <2>4. ASSUME turnServer.turn \in {"completed", "failed"}
        PROVE  Turn!Missed("turnCompleted") \/ turnClient.turn = turnServer.turn
    BY <2>1, <2>4 DEF TurnInv, TurnSettles, Turn!Missed
  <2>5. ASSUME turnServer.turn \in {"completed", "failed"}, NEW k \in DOMAIN turnServer.items
        PROVE  LET item == turnServer.items[k]
               IN  \/ Turn!Missed("turnStarted") \/ Turn!MissedEndOf(item.id)
                   \/ \E j \in DOMAIN turnClient.items :
                        /\ turnClient.items[j].id = item.id /\ turnClient.items[j].done
                        /\ Turn!WithText(item.id) => turnClient.items[j].text = item.text
    <3> DEFINE item == turnServer.items[k]
    <3>1. item.done = TRUE /\ ItemSettles(item)
      BY <2>5 DEF TurnInv, TurnSettles, ItemsSettle
    <3> HIDE DEF item
    <3>2. PICK d \in Places : IsDoneAt(d, item)
      BY <3>1 DEF ItemSettles
    <3>3. CASE d \in turnMissed
      BY <3>2, <3>3 DEF IsDoneAt, ItemEvent, Turn!MissedEndOf, item
    <3>4. CASE 1 \in turnMissed
      BY <2>2, <3>4
    <3>5. CASE ShowsDone(d, item)
      <4>1. ASSUME Turn!WithText(item.id) PROVE turnEvents[d].item.text # <<>>
        <5>1. PICK e \in Places : turnEvents[e].type = "item" /\ turnEvents[e].item.id = item.id /\ turnEvents[e].item.text # <<>>
          BY <2>1, <4>1 DEF Turn!WithText
        <5>2. AboutItem(e, item.id)
          BY <5>1 DEF AboutItem
        <5>3. e = d
          BY <3>2, <5>1, <5>2 DEF IsDoneAt
        <5> QED
          BY <5>1, <5>3
      <4> QED
        BY <2>1, <3>5, <4>1 DEF ShowsDone, item
    <3> QED
      BY <2>1, <3>2, <3>3, <3>4, <3>5 DEF IsDoneAt
  <2> QED
    BY <2>1, <2>3, <2>4, <2>5 DEF TurnInv, ShownIsOfTheTurn
<1> QED
  BY <1>1, <1>2 DEF Turn!TurnConverges, Distinct

\* Steps of the client that apply no event leave what is shown.
LEMMA TurnLoadKeeps ==
  ASSUME TurnInv, Turn!OpenStream \/ Turn!LoadReturns
  PROVE  TurnInv'
<1>1. CASE Turn!OpenStream
  <2>1. /\ turnNext = 0 /\ turnNext' = Len(turnEvents) + 1
        /\ UNCHANGED <<turnServer, turnEvents, turnMissed, turnRead, turnClient>>
    BY <1>1 DEF Turn!OpenStream
  <2>2. Len(turnEvents) \in Nat /\ turnNext' # 0
    BY <2>1 DEF TurnInv, TurnTypes
  <2>3. /\ IsRead' = IsRead /\ Shown' = Shown /\ Places' = Places
        /\ \A e : Comes(e) => e \in turnMissed'
    BY <2>1 DEF IsRead, Shown, Places, Comes
  <2>c. \A e : e \in turnMissed' => Comes(e)'
    BY DEF Comes
  <2>4. TurnTypes'
    BY <2>1, <2>2, <2>3 DEF TurnInv, TurnTypes
  <2>5. EventsAreOfTheTurn'
    BY <2>1, <2>3 DEF TurnInv, EventsAreOfTheTurn, EventIsOfTheTurn
  <2>6. StatusSettles' /\ TurnSettles'
    BY <2>1, <2>3, <2>c DEF TurnInv, StatusSettles, TurnSettles
  <2>7. ItemsSettle'
    BY <2>1, <2>3, <2>c DEF TurnInv, ItemsSettle, ItemSettles, IsDoneAt, ItemEvent, AboutItem, ShowsDone
  <2>8. ShownIsOfTheTurn'
    BY <2>1, <2>3, <2>c DEF TurnInv, ShownIsOfTheTurn
  <2> QED
    BY <2>4, <2>5, <2>6, <2>7, <2>8 DEF TurnInv
<1>2. CASE Turn!LoadReturns
  <2>1. /\ turnRead # Turn!Unloaded /\ turnClient = Turn!Unloaded /\ turnClient' = turnRead
        /\ UNCHANGED <<turnServer, turnEvents, turnNext, turnMissed, turnRead>>
    BY <1>2 DEF Turn!LoadReturns
  <2>3. IsRead' = IsRead /\ Shown' = Shown /\ Places' = Places /\ \A e : Comes(e)' <=> Comes(e)
    BY <2>1 DEF IsRead, Shown, Places, Comes
  <2>4. TurnTypes'
    BY <2>1, <2>3 DEF TurnInv, TurnTypes, IsRead
  <2>5. EventsAreOfTheTurn'
    BY <2>1, <2>3 DEF TurnInv, EventsAreOfTheTurn, EventIsOfTheTurn
  <2>6. StatusSettles' /\ TurnSettles'
    BY <2>1, <2>3 DEF TurnInv, StatusSettles, TurnSettles
  <2>7. ItemsSettle'
    BY <2>1, <2>3 DEF TurnInv, ItemsSettle, ItemSettles, IsDoneAt, ItemEvent, AboutItem, ShowsDone
  <2>8. ShownIsOfTheTurn'
    BY <2>1, <2>3 DEF TurnInv, ShownIsOfTheTurn
  <2> QED
    BY <2>4, <2>5, <2>6, <2>7, <2>8 DEF TurnInv
<1> QED
  BY <1>1, <1>2

\* The answer to a read shows the turn as it is, but for items under way.
LEMMA ReadIs ==
  ASSUME TurnInv, Turn!ReadThread
  PROVE  LET items == turnRead'.items
         IN  /\ turnRead' \in Turn!Details /\ turnRead'.turn = turnServer.turn
             /\ turnRead'.active = turnServer.active
             /\ turnServer.turn = "none" => items = <<>>
             /\ Distinct(items)
             /\ \A j \in DOMAIN items : Turn!Has(turnServer.items, items[j].id)
             /\ \A k \in DOMAIN turnServer.items :
                  turnServer.items[k].done = TRUE => \E j \in DOMAIN items : items[j] = turnServer.items[k]
<1> DEFINE s == turnServer.items
<1> DEFINE read == Turn!ReadItems
<1> DEFINE cached == Turn!Sifted(s, Turn!Commands(s))
<1> DEFINE items == IF turnServer.turn = "none" THEN <<>> ELSE read \o cached
<1>0. /\ turnServer \in Turn!Details /\ s \in Seq(Turn!Items) /\ Distinct(s)
      /\ turnServer.turn = "none" => s = <<>>
  BY DEF TurnInv, TurnTypes, EventsAreOfTheTurn, Turn!Details
<1>1. turnRead' = [turnServer EXCEPT !.items = items]
  BY DEF Turn!ReadThread, Turn!mergeCachedCommandItems
<1>2. /\ read \in Seq(Turn!Items) /\ Distinct(read)
      /\ \A n \in DOMAIN read : \E k \in DOMAIN s : read[n] = s[k] /\ s[k].id # "commandExecution"
      /\ \A k \in DOMAIN s : s[k].done = TRUE /\ s[k].id # "commandExecution" => \E n \in DOMAIN read : read[n] = s[k]
  <2> DEFINE places == {k \in DOMAIN s : s[k].done} \ Turn!Commands(s)
  <2>1. read = Turn!Sifted(s, places)
    BY DEF Turn!ReadItems
  <2>2. places \in SUBSET (DOMAIN s)
    OBVIOUS
  <2>3. \A k \in DOMAIN s : k \in places <=> s[k].done /\ s[k].id # "commandExecution"
    BY DEF Turn!Commands
  <2> HIDE DEF s, places, read
  <2>4. LET r == Turn!Sifted(s, places)
        IN  /\ r \in Seq(Turn!Items)
            /\ \A n \in DOMAIN r : \E k \in places : r[n] = s[k]
            /\ \A k \in places : \E n \in DOMAIN r : r[n] = s[k]
            /\ Distinct(s) => Distinct(r)
    BY <1>0, <2>2, SiftedIs
  <2> QED
    BY <1>0, <2>1, <2>2, <2>3, <2>4
<1>3. /\ cached \in Seq(Turn!Items) /\ Distinct(cached)
      /\ \A n \in DOMAIN cached : \E k \in DOMAIN s : cached[n] = s[k] /\ s[k].id = "commandExecution"
      /\ \A k \in DOMAIN s : s[k].id = "commandExecution" => \E n \in DOMAIN cached : cached[n] = s[k]
  <2> DEFINE places == Turn!Commands(s)
  <2>2. places \in SUBSET (DOMAIN s)
    BY DEF Turn!Commands
  <2>3. \A k \in DOMAIN s : k \in places <=> s[k].id = "commandExecution"
    BY DEF Turn!Commands
  <2>4. LET r == Turn!Sifted(s, places)
        IN  /\ r \in Seq(Turn!Items)
            /\ \A n \in DOMAIN r : \E k \in places : r[n] = s[k]
            /\ \A k \in places : \E n \in DOMAIN r : r[n] = s[k]
            /\ Distinct(s) => Distinct(r)
    <3> HIDE DEF places, s
    <3> QED
      BY <1>0, <2>2, SiftedIs
  <2> HIDE DEF s, places
  <2>5. cached = Turn!Sifted(s, places)
    BY DEF places
  <2> HIDE DEF cached
  <2> QED
    BY <1>0, <2>2, <2>3, <2>4, <2>5
<1> HIDE DEF read, cached
<1> DEFINE both == read \o cached
<1>4. /\ both \in Seq(Turn!Items)
      /\ \A n \in DOMAIN read : n \in DOMAIN both /\ both[n] = read[n]
      /\ \A n \in DOMAIN cached : \E m \in DOMAIN both : both[m] = cached[n]
      /\ \A m \in DOMAIN both : \/ m \in DOMAIN read /\ both[m] = read[m]
                                \/ m - Len(read) \in DOMAIN cached /\ both[m] = cached[m - Len(read)]
  <2>1. /\ DOMAIN read = 1 .. Len(read) /\ Len(read) \in Nat /\ DOMAIN cached = 1 .. Len(cached) /\ Len(cached) \in Nat
    BY <1>2, <1>3
  <2>2. both \in Seq(Turn!Items)
    BY <1>2, <1>3
  <2>3. Len(both) = Len(read) + Len(cached) /\ DOMAIN both = 1 .. Len(both)
    BY <1>2, <1>3
  <2>4. \A m \in 1 .. Len(read) + Len(cached) : both[m] = IF m <= Len(read) THEN read[m] ELSE cached[m - Len(read)]
    BY <1>2, <1>3
  <2> HIDE DEF both
  <2>5. ASSUME NEW n \in DOMAIN read PROVE n \in DOMAIN both /\ both[n] = read[n]
    <3>1. n \in 1 .. Len(read) + Len(cached) /\ n <= Len(read)
      BY <2>1
    <3> QED
      BY <2>3, <2>4, <3>1
  <2>6. ASSUME NEW n \in DOMAIN cached PROVE \E m \in DOMAIN both : both[m] = cached[n]
    <3> DEFINE m == Len(read) + n
    <3>1. m \in 1 .. Len(read) + Len(cached) /\ ~(m <= Len(read)) /\ m - Len(read) = n
      BY <2>1
    <3> HIDE DEF m
    <3>2. both[m] = cached[n]
      BY <2>4, <3>1
    <3> QED
      BY <2>3, <3>1, <3>2
  <2>7. ASSUME NEW m \in DOMAIN both
        PROVE  \/ m \in DOMAIN read /\ both[m] = read[m]
               \/ m - Len(read) \in DOMAIN cached /\ both[m] = cached[m - Len(read)]
    <3>1. CASE m <= Len(read)
      BY <2>1, <2>3, <2>4, <3>1
    <3>2. CASE ~(m <= Len(read))
      <4>1. m - Len(read) \in 1 .. Len(cached) /\ m \in 1 .. Len(read) + Len(cached)
        BY <2>1, <2>3, <3>2
      <4> QED
        BY <2>1, <2>4, <3>2, <4>1
    <3> QED
      BY <3>1, <3>2
  <2> QED
    BY <2>2, <2>5, <2>6, <2>7
<1>5. Distinct(both)
  <2> HIDE DEF both, s
  <2> SUFFICES ASSUME NEW i \in DOMAIN both, NEW j \in DOMAIN both, both[i].id = both[j].id PROVE i = j
    BY DEF Distinct
  <2>0. Len(read) \in Nat /\ i \in Nat /\ j \in Nat
    BY <1>2, <1>4
  <2>1. CASE i \in DOMAIN read /\ both[i] = read[i] /\ j \in DOMAIN read /\ both[j] = read[j]
    BY <1>2, <2>1 DEF Distinct
  <2>2. CASE /\ i - Len(read) \in DOMAIN cached /\ both[i] = cached[i - Len(read)]
             /\ j - Len(read) \in DOMAIN cached /\ both[j] = cached[j - Len(read)]
    <3>1. i - Len(read) = j - Len(read)
      BY <1>3, <2>2 DEF Distinct
    <3> QED
      BY <2>0, <3>1
  <2>3. CASE /\ i \in DOMAIN read /\ both[i] = read[i]
             /\ j - Len(read) \in DOMAIN cached /\ both[j] = cached[j - Len(read)]
    <3>1. both[i].id # "commandExecution" /\ both[j].id = "commandExecution"
      BY <1>2, <1>3, <2>3
    <3> QED
      BY <3>1
  <2>4. CASE /\ j \in DOMAIN read /\ both[j] = read[j]
             /\ i - Len(read) \in DOMAIN cached /\ both[i] = cached[i - Len(read)]
    <3>1. both[j].id # "commandExecution" /\ both[i].id = "commandExecution"
      BY <1>2, <1>3, <2>4
    <3> QED
      BY <3>1
  <2> QED
    BY <1>4, <2>1, <2>2, <2>3, <2>4
<1>6. \A j \in DOMAIN both : Turn!Has(s, both[j].id)
  <2> HIDE DEF both, s
  <2> TAKE j \in DOMAIN both
  <2>1. CASE j \in DOMAIN read /\ both[j] = read[j]
    BY <1>2, <2>1 DEF Turn!Has
  <2>2. CASE j - Len(read) \in DOMAIN cached /\ both[j] = cached[j - Len(read)]
    BY <1>3, <2>2 DEF Turn!Has
  <2> QED
    BY <1>4, <2>1, <2>2
<1>7. ASSUME NEW k \in DOMAIN s, s[k].done = TRUE PROVE \E j \in DOMAIN both : both[j] = s[k]
  <2> HIDE DEF both, s
  <2>1. CASE s[k].id = "commandExecution"
    BY <1>3, <1>4, <2>1
  <2>2. CASE s[k].id # "commandExecution"
    BY <1>2, <1>4, <1>7, <2>2
  <2> QED
    BY <2>1, <2>2
<1>8. /\ items \in Seq(Turn!Items) /\ Distinct(items) /\ (turnServer.turn = "none" => items = <<>>)
      /\ \A j \in DOMAIN items : Turn!Has(s, items[j].id)
      /\ \A k \in DOMAIN s : s[k].done = TRUE => \E j \in DOMAIN items : items[j] = s[k]
  <2>1. CASE turnServer.turn = "none"
    <3>1. items = <<>> /\ s = <<>>
      BY <1>0, <2>1
    <3> HIDE DEF items, s
    <3>2. items \in Seq(Turn!Items) /\ DOMAIN items = {} /\ DOMAIN s = {}
      BY <3>1
    <3>3. Distinct(items)
      BY <3>2 DEF Distinct
    <3> QED
      BY <3>1, <3>2, <3>3
  <2>2. CASE turnServer.turn # "none"
    <3>1. items = both
      BY <2>2
    <3> HIDE DEF items, both, s
    <3> QED
      BY <1>4, <1>5, <1>6, <1>7, <2>2, <3>1
  <2> QED
    BY <2>1, <2>2
<1> HIDE DEF items
<1>9. /\ turnRead' \in Turn!Details /\ turnRead'.turn = turnServer.turn
      /\ turnRead'.active = turnServer.active /\ turnRead'.items = items
  BY <1>0, <1>1, <1>8 DEF Turn!Details
<1> QED
  BY <1>8, <1>9

\* A read keeps the invariant of the turn.
LEMMA TurnReadKeeps == TurnInv /\ Turn!ReadThread => TurnInv'
<1> SUFFICES ASSUME TurnInv, Turn!ReadThread PROVE TurnInv'
  OBVIOUS
<1>1. /\ ~IsRead /\ turnClient = Turn!Unloaded
      /\ UNCHANGED <<turnServer, turnEvents, turnNext, turnMissed, turnClient>>
  BY DEF Turn!ReadThread, IsRead, TurnInv, TurnTypes
<1> DEFINE items == turnRead'.items
<1>2. /\ turnRead' \in Turn!Details /\ turnRead'.turn = turnServer.turn
      /\ turnRead'.active = turnServer.active
      /\ turnServer.turn = "none" => items = <<>>
      /\ Distinct(items)
      /\ \A j \in DOMAIN items : Turn!Has(turnServer.items, items[j].id)
      /\ \A k \in DOMAIN turnServer.items :
           turnServer.items[k].done = TRUE => \E j \in DOMAIN items : items[j] = turnServer.items[k]
  BY ReadIs
<1>3. IsRead' /\ Shown' = turnRead' /\ Places' = Places
  BY <1>1, <1>2, UnloadedIsNoDetail DEF IsRead, Shown, Places
<1>4. TurnTypes'
  BY <1>1, <1>2, <1>3 DEF TurnInv, TurnTypes
<1>5. EventsAreOfTheTurn'
  BY <1>1, <1>3 DEF TurnInv, EventsAreOfTheTurn, EventIsOfTheTurn
<1>6. StatusSettles'
  BY <1>1, <1>2, <1>3 DEF TurnInv, StatusSettles, EventsAreOfTheTurn
<1>7. TurnSettles'
  BY <1>1, <1>2, <1>3 DEF TurnInv, TurnSettles
<1>8. ItemsSettle'
  <2> SUFFICES ASSUME NEW k \in DOMAIN turnServer.items PROVE ItemSettles(turnServer.items[k])'
    BY <1>1 DEF ItemsSettle
  <2>1. ItemSettles(turnServer.items[k])
    BY DEF TurnInv, ItemsSettle
  <2>2. ASSUME turnServer.items[k].done = TRUE PROVE \E d \in Places : IsDoneAt(d, turnServer.items[k])'
    <3>1. PICK d \in Places : IsDoneAt(d, turnServer.items[k])
      BY <2>1, <2>2 DEF ItemSettles
    <3>2. PICK j \in DOMAIN items : items[j] = turnServer.items[k]
      BY <1>2, <2>2
    <3>3. ShowsDone(d, turnServer.items[k])'
      BY <1>1, <1>3, <2>2, <3>2 DEF ShowsDone
    <3> QED
      BY <1>1, <1>3, <3>1, <3>3 DEF IsDoneAt, ItemEvent, AboutItem
  <2> QED
    BY <1>1, <1>3, <2>1, <2>2 DEF ItemSettles, ItemEvent
<1>9. ShownIsOfTheTurn'
  <2>1. turnServer.turn = "none" => turnEvents = <<>>
    BY DEF TurnInv, EventsAreOfTheTurn
  <2> QED
    BY <1>1, <1>2, <1>3, <2>1 DEF ShownIsOfTheTurn
<1> QED
  BY <1>4, <1>5, <1>6, <1>7, <1>8, <1>9 DEF TurnInv

\* What an event does to a detail, by its type.
LEMMA ApplyIs ==
  ASSUME TurnInv, NEW n \in Places, NEW c \in Turn!Details, Distinct(c.items)
  PROVE  LET event == turnEvents[n]
             r == Turn!applyThreadEvent(c, event)
         IN  /\ r \in Turn!Details
             /\ r.active = IF event.type = "statusChanged" THEN FALSE
                           ELSE IF event.type = "turnStarted" THEN TRUE ELSE c.active
             /\ event.type \notin {"turnStarted", "turnCompleted", "turnError"} => r.turn = c.turn
             /\ event.type = "turnCompleted" => r.turn = event.status
             /\ r.turn = "none" => c.turn = "none" /\ event.type # "turnStarted"
             /\ \/ r.items = c.items /\ (event.type = "item" => c.turn = "none")
                \/ /\ event.type \in {"item", "delta"} /\ event.item.id \in ItemTypes
                   /\ c.turn # "none"
                   /\ \E new \in Turn!Items :
                        /\ r.items = Put(c.items, new) /\ new.id = event.item.id
                        /\ event.type = "item" => /\ new.done = event.item.done
                                                  /\ event.item.text # <<>> => new.text = event.item.text
<1> DEFINE event == turnEvents[n]
<1> DEFINE r == Turn!applyThreadEvent(c, event)
<1>1. /\ event \in TurnEventType /\ EventIsOfTheTurn(n)
  BY DEF TurnInv, TurnTypes, EventsAreOfTheTurn, Places
<1>2. /\ event.type \in {"statusChanged", "turnStarted", "turnCompleted", "turnError", "item", "delta"}
      /\ event.status \in Turn!Status
      /\ event.type = "turnCompleted" => event.status \in {"completed", "failed"}
      /\ event.type = "turnError" => event.status \in {"inProgress", "failed"}
      /\ event.type \in {"item", "delta"} => event.item.id \in ItemTypes
      /\ event.type = "delta" => event.item.text # <<>>
      /\ event.item.text \in Seq(Deltas) /\ event.item.done \in BOOLEAN
      /\ event.type \in {"item", "delta"} => event.item \in Turn!Items
  BY <1>1 DEF TurnEventType, EventIsOfTheTurn, Turn!Items
<1> HIDE DEF event
<1>3. /\ c.active \in BOOLEAN /\ c.turn \in Turn!Status /\ c.items \in Seq(Turn!Items)
      /\ c = [active |-> c.active, turn |-> c.turn, items |-> c.items]
  BY DEF Turn!Details
<1> DEFINE Result(active, turn, items) == r = [active |-> active, turn |-> turn, items |-> items]
<1>4. CASE event.type = "statusChanged"
  <2>1. r = [c EXCEPT !.active = FALSE]
    BY <1>4 DEF Turn!applyThreadEvent
  <2>2. r \in Turn!Details /\ r.active = FALSE /\ r.turn = c.turn /\ r.items = c.items
    BY <2>1 DEF Turn!Details
  <2> QED
    BY <1>4, <2>2 DEF event
<1>5. CASE event.type = "turnStarted"
  <2>1. r = [[c EXCEPT !.turn = "inProgress"] EXCEPT !.active = TRUE]
    BY <1>5 DEF Turn!applyThreadEvent, Turn!upsertTurn
  <2>2. r \in Turn!Details /\ r.active = TRUE /\ r.turn = "inProgress" /\ r.items = c.items
    BY <2>1 DEF Turn!Details, Turn!Status
  <2> QED
    BY <1>5, <2>2 DEF event
<1>6. CASE event.type = "turnCompleted"
  <2>1. r = [c EXCEPT !.turn = event.status]
    BY <1>6 DEF Turn!applyThreadEvent, Turn!upsertTurn
  <2>2. r \in Turn!Details /\ r.active = c.active /\ r.turn = event.status /\ r.items = c.items
    BY <1>2, <2>1 DEF Turn!Details
  <2> QED
    BY <1>2, <1>6, <2>2 DEF event
<1>7. CASE event.type = "turnError"
  <2>1. r = IF c.turn = "none" THEN c ELSE [c EXCEPT !.turn = event.status]
    BY <1>7 DEF Turn!applyThreadEvent
  <2>2. /\ r \in Turn!Details /\ r.active = c.active /\ r.items = c.items
        /\ c.turn # "none" => r.turn = event.status
    BY <1>2, <2>1 DEF Turn!Details
  <2> QED
    BY <1>2, <1>7, <2>2 DEF event
<1>8. CASE event.type = "item"
  <2>1. r = IF c.turn = "none" THEN c ELSE [c EXCEPT !.items = Turn!upsertItem(c.items, event.item)]
    BY <1>8 DEF Turn!applyThreadEvent
  <2>2. CASE c.turn = "none"
    BY <1>8, <2>1, <2>2 DEF event
  <2>3. CASE c.turn # "none"
    <3>1. PICK new \in Turn!Items :
             /\ Turn!upsertItem(c.items, event.item) = Put(c.items, new)
             /\ new.id = event.item.id /\ new.done = event.item.done
             /\ event.item.text # <<>> => new.text = event.item.text
      BY <1>2, <1>3, <1>8, UpsertIs
    <3>2. Put(c.items, new) \in Seq(Turn!Items)
      BY <1>3, PutIs
    <3>3. r = [c EXCEPT !.items = Put(c.items, new)]
      BY <2>1, <2>3, <3>1
    <3>4. r \in Turn!Details /\ r.active = c.active /\ r.turn = c.turn /\ r.items = Put(c.items, new)
      BY <3>2, <3>3 DEF Turn!Details
    <3> HIDE DEF r
    <3>5. /\ event.type \in {"item", "delta"} /\ event.item.id \in ItemTypes /\ c.turn # "none"
          /\ \E x \in Turn!Items :
               /\ r.items = Put(c.items, x) /\ x.id = event.item.id
               /\ event.type = "item" => /\ x.done = event.item.done
                                         /\ event.item.text # <<>> => x.text = event.item.text
      BY <1>2, <1>8, <2>3, <3>1, <3>4
    <3> QED
      BY <1>8, <2>3, <3>4, <3>5 DEF event, r
  <2> QED
    BY <2>2, <2>3
<1>9. CASE event.type = "delta"
  <2>1. r = IF c.turn = "none" THEN c
            ELSE [c EXCEPT !.items = Turn!appendDelta(c.items, event.item.id, event.item.text[1])]
    BY <1>9 DEF Turn!applyThreadEvent
  <2>2. CASE c.turn = "none"
    BY <1>9, <2>1, <2>2 DEF event
  <2>3. CASE c.turn # "none"
    <3>0. event.item.text[1] \in Deltas
      BY <1>2, <1>9
    <3>1. PICK new \in Turn!Items :
             /\ Turn!appendDelta(c.items, event.item.id, event.item.text[1]) = Put(c.items, new)
             /\ new.id = event.item.id
      BY <1>2, <1>3, <1>9, <3>0, AppendDeltaIs
    <3>2. Put(c.items, new) \in Seq(Turn!Items)
      BY <1>3, PutIs
    <3>3. r = [c EXCEPT !.items = Put(c.items, new)]
      BY <2>1, <2>3, <3>1
    <3>4. r \in Turn!Details /\ r.active = c.active /\ r.turn = c.turn /\ r.items = Put(c.items, new)
      BY <3>2, <3>3 DEF Turn!Details
    <3> HIDE DEF r
    <3>5. /\ event.type \in {"item", "delta"} /\ event.item.id \in ItemTypes /\ c.turn # "none"
          /\ \E x \in Turn!Items :
               /\ r.items = Put(c.items, x) /\ x.id = event.item.id
               /\ event.type = "item" => /\ x.done = event.item.done
                                         /\ event.item.text # <<>> => x.text = event.item.text
      BY <1>2, <1>9, <2>3, <3>1, <3>4
    <3> QED
      BY <1>9, <2>3, <3>4, <3>5 DEF event, r
  <2> QED
    BY <2>2, <2>3
<1> QED
  BY <1>2, <1>4, <1>5, <1>6, <1>7, <1>8, <1>9 DEF event

\* An event that is applied brings the client nearer to the turn.
LEMMA ApplyKeeps == TurnInv /\ Turn!ApplyEvent => TurnInv'
<1> SUFFICES ASSUME TurnInv, Turn!ApplyEvent PROVE TurnInv'
  OBVIOUS
<1> DEFINE n == turnNext
<1> DEFINE event == turnEvents[n]
<1> DEFINE c == turnClient
<1> DEFINE r == Turn!applyThreadEvent(c, event)
<1>1. /\ c # Turn!Unloaded /\ n # 0 /\ n <= Len(turnEvents) /\ turnClient' = r /\ turnNext' = n + 1
      /\ UNCHANGED <<turnServer, turnEvents, turnMissed, turnRead>>
  BY DEF Turn!ApplyEvent
<1>2. /\ IsRead /\ Shown = c /\ c \in Turn!Details /\ n \in Places /\ Len(turnEvents) \in Nat
      /\ turnNext' \in 0 .. Len(turnEvents) + 1 /\ turnNext' > 0
  BY <1>1 DEF TurnInv, TurnTypes, Shown, Places
<1>3. /\ Distinct(c.items) /\ (c.turn = "none" => (n = 1 \/ 1 \in turnMissed) /\ c.items = <<>>)
      /\ \A j \in DOMAIN c.items : Turn!Has(turnServer.items, c.items[j].id)
  <2>1. Comes(1) \/ turnEvents = <<>> => n = 1 \/ 1 \in turnMissed
    BY <1>1, <1>2 DEF Comes, Places
  <2> QED
    BY <1>2, <2>1 DEF TurnInv, ShownIsOfTheTurn
<1>4. /\ r \in Turn!Details
      /\ r.active = IF event.type = "statusChanged" THEN FALSE
                    ELSE IF event.type = "turnStarted" THEN TRUE ELSE c.active
      /\ event.type \notin {"turnStarted", "turnCompleted", "turnError"} => r.turn = c.turn
      /\ event.type = "turnCompleted" => r.turn = event.status
      /\ r.turn = "none" => c.turn = "none" /\ event.type # "turnStarted"
      /\ \/ r.items = c.items /\ (event.type = "item" => c.turn = "none")
         \/ /\ event.type \in {"item", "delta"} /\ event.item.id \in ItemTypes
            /\ c.turn # "none"
            /\ \E new \in Turn!Items :
                 /\ r.items = Put(c.items, new) /\ new.id = event.item.id
                 /\ event.type = "item" => /\ new.done = event.item.done
                                           /\ event.item.text # <<>> => new.text = event.item.text
  BY <1>2, <1>3, ApplyIs
<1>5. /\ EventIsOfTheTurn(n) /\ c.items \in Seq(Turn!Items)
  BY <1>2 DEF TurnInv, EventsAreOfTheTurn, Turn!Details
<1> HIDE DEF r, event
<1>6. IsRead' /\ Shown' = r /\ Places' = Places
  BY <1>1, <1>2, <1>4, UnloadedIsNoDetail DEF IsRead, Shown, Places
<1>7. \A e \in Places : /\ Comes(e) => e = n \/ Comes(e)'
                        /\ ~Comes(e) => ~(n <= e)
                        /\ e \in Nat
  BY <1>1, <1>2 DEF Places, Comes
<1>m. \A e : e \in turnMissed => Comes(e) /\ Comes(e)'
  BY <1>1 DEF Comes
<1>8. TurnTypes'
  BY <1>1, <1>2, <1>4, <1>6 DEF TurnInv, TurnTypes
<1>9. EventsAreOfTheTurn'
  BY <1>1, <1>6 DEF TurnInv, EventsAreOfTheTurn, EventIsOfTheTurn
<1>10. event.type = "turnStarted" <=> n = 1
  BY <1>5 DEF EventIsOfTheTurn, event
<1>11. StatusSettles'
  <2>1. turnServer.turn # "none"
    <3>1. turnEvents # <<>>
      BY <1>2 DEF Places
    <3> QED
      BY <3>1 DEF TurnInv, EventsAreOfTheTurn
  <2>2. ASSUME turnServer.active = TRUE
        PROVE  /\ \A e \in Places : turnEvents[e].type # "statusChanged"
               /\ Comes(1)' \/ r.active = TRUE
    <3>1. /\ \A e \in Places : turnEvents[e].type # "statusChanged"
          /\ Comes(1)' \/ n = 1 \/ c.active = TRUE
      <4>1. 1 \in Places
        BY <1>2 DEF Places
      <4> QED
        BY <1>2, <1>7, <2>2, <4>1 DEF TurnInv, StatusSettles
    <3>2. event.type # "statusChanged"
      BY <1>2, <3>1 DEF event
    <3> QED
      BY <1>4, <1>10, <3>1, <3>2
  <2>3. ASSUME turnServer.active = FALSE
        PROVE  \E e \in Places : turnEvents[e].type = "statusChanged" /\ (Comes(e)' \/ r.active = FALSE)
    <3>1. PICK e \in Places : turnEvents[e].type = "statusChanged" /\ (Comes(e) \/ c.active = FALSE)
      BY <1>2, <2>1, <2>3 DEF TurnInv, StatusSettles
    <3>2. CASE n = e
      <4>1. event.type = "statusChanged"
        BY <3>1, <3>2 DEF event
      <4>2. r.active = FALSE
        BY <1>4, <4>1
      <4> QED
        BY <3>1, <4>2
    <3>3. CASE n # e /\ Comes(e)
      BY <1>7, <3>1, <3>3
    <3>4. CASE ~Comes(e)
      <4>1. n # 1
        BY <1>2, <1>7, <3>4 DEF Places
      <4>2. r.active = FALSE
        BY <1>4, <1>10, <3>1, <3>4, <4>1
      <4> QED
        BY <3>1, <4>2
    <3> QED
      BY <3>2, <3>3, <3>4
  <2> QED
    BY <1>1, <1>6, <2>1, <2>2, <2>3 DEF StatusSettles
<1>12. TurnSettles'
  <2> SUFFICES ASSUME turnServer.turn \in {"completed", "failed"} PROVE TurnSettles'
    BY <1>1 DEF TurnSettles
  <2>1. PICK m \in Places :
            /\ turnEvents[m].type = "turnCompleted" /\ turnEvents[m].status = turnServer.turn
            /\ \A e \in Places : e > m => turnEvents[e].type = "statusChanged"
            /\ Comes(m) \/ c.turn = turnServer.turn
    BY <1>2 DEF TurnInv, TurnSettles
  <2>2. Comes(m)' \/ r.turn = turnServer.turn
    <3>1. CASE n = m
      <4>1. event.type = "turnCompleted" /\ event.status = turnServer.turn
        BY <2>1, <3>1 DEF event
      <4> QED
        BY <1>4, <4>1
    <3>2. CASE n # m /\ Comes(m)
      BY <1>7, <3>2
    <3>3. CASE ~Comes(m)
      <4>1. n > m
        BY <1>2, <1>7, <3>3 DEF Places
      <4>2. event.type = "statusChanged"
        BY <1>2, <2>1, <4>1 DEF event
      <4> QED
        BY <1>4, <2>1, <3>3, <4>2
    <3> QED
      BY <3>1, <3>2, <3>3
  <2>3. \A k \in DOMAIN turnServer.items : turnServer.items[k].done = TRUE
    BY DEF TurnInv, TurnSettles
  <2> QED
    BY <1>1, <1>6, <2>1, <2>2, <2>3 DEF TurnSettles
<1>13. ItemsSettle'
  <2> SUFFICES ASSUME NEW k \in DOMAIN turnServer.items PROVE ItemSettles(turnServer.items[k])'
    BY <1>1 DEF ItemsSettle
  <2> DEFINE item == turnServer.items[k]
  <2>1. ItemSettles(item)
    BY DEF TurnInv, ItemsSettle
  <2>2. ASSUME item.done = TRUE, NEW d \in Places, IsDoneAt(d, item)
        PROVE  IsDoneAt(d, turnServer.items[k])'
    <3>1. Comes(d) \/ 1 \in turnMissed \/ ShowsDone(d, item)
      BY <1>2, <2>2 DEF IsDoneAt
    <3>2. CASE n = d /\ 1 \notin turnMissed
      <4>1. /\ event.type = "item" /\ event.item.id = item.id /\ event.item.done = TRUE
            /\ event.item.text \in {item.text, <<>>}
        BY <2>2, <3>2 DEF IsDoneAt, ItemEvent, event
      <4>2. c.turn # "none"
        BY <1>3, <1>10, <3>2, <4>1
      <4>3. PICK new \in Turn!Items :
               /\ r.items = Put(c.items, new) /\ new.id = event.item.id
               /\ new.done = event.item.done /\ (event.item.text # <<>> => new.text = event.item.text)
        BY <1>4, <4>1, <4>2
      <4>4. \E j \in DOMAIN r.items : r.items[j] = new
        BY <1>3, <1>5, <4>3, PutIs
      <4>5. \E j \in DOMAIN r.items : /\ r.items[j].id = item.id /\ r.items[j].done = TRUE
                                      /\ turnEvents[d].item.text # <<>> => r.items[j].text = item.text
        BY <3>2, <4>1, <4>3, <4>4 DEF event
      <4>6. ShowsDone(d, turnServer.items[k])'
        BY <1>1, <1>6, <4>5 DEF ShowsDone
      <4> QED
        BY <1>1, <1>6, <2>2, <4>6 DEF IsDoneAt, ItemEvent, AboutItem
    <3>3. CASE (n # d /\ Comes(d)) \/ 1 \in turnMissed
      <4>1. Comes(d)' \/ 1 \in turnMissed'
        BY <1>1, <1>7, <3>3
      <4> QED
        BY <1>1, <1>6, <2>2, <4>1 DEF IsDoneAt, ItemEvent, AboutItem
    <3>4. CASE ~Comes(d) /\ 1 \notin turnMissed
      <4>1. ShowsDone(d, item)
        BY <3>1, <3>4
      <4>2. PICK j \in DOMAIN c.items : /\ c.items[j].id = item.id /\ c.items[j].done = TRUE
                                        /\ turnEvents[d].item.text # <<>> => c.items[j].text = item.text
        BY <1>2, <4>1 DEF ShowsDone
      <4>3. ~AboutItem(n, item.id)
        <5>1. ~(n < d) /\ n # d
          BY <1>2, <1>7, <3>4 DEF Places
        <5> QED
          BY <1>2, <2>2, <5>1 DEF IsDoneAt
      <4>4. \E i \in DOMAIN r.items : r.items[i] = c.items[j]
        <5>1. CASE r.items = c.items
          BY <5>1
        <5>2. CASE r.items # c.items
          <6>1. PICK new \in Turn!Items : /\ r.items = Put(c.items, new) /\ new.id = event.item.id
                                          /\ event.type \in {"item", "delta"}
            BY <1>4, <5>2
          <6>2. new.id # item.id
            BY <4>3, <6>1 DEF AboutItem, event
          <6> HIDE DEF c
          <6>3. \A l \in DOMAIN c.items : c.items[l].id # new.id =>
                  \E i \in DOMAIN Put(c.items, new) : Put(c.items, new)[i] = c.items[l]
            <7>1. c.items \in Seq(Turn!Items) /\ Distinct(c.items)
              BY <1>3, <1>5
            <7> QED
              BY <7>1, PutIs
          <6> QED
            BY <4>2, <6>1, <6>2, <6>3
        <5> QED
          BY <5>1, <5>2
      <4>5. \E i \in DOMAIN r.items : /\ r.items[i].id = item.id /\ r.items[i].done = TRUE
                                      /\ turnEvents[d].item.text # <<>> => r.items[i].text = item.text
        BY <4>2, <4>4
      <4>6. ShowsDone(d, turnServer.items[k])'
        BY <1>1, <1>6, <4>5 DEF ShowsDone
      <4> QED
        BY <1>1, <1>6, <2>2, <4>6 DEF IsDoneAt, ItemEvent, AboutItem
    <3> QED
      BY <3>2, <3>3, <3>4
  <2> QED
    BY <1>1, <1>6, <2>1, <2>2 DEF ItemSettles, ItemEvent
<1>14. ShownIsOfTheTurn'
  <2>1. r.turn = "none" => Comes(1)' /\ r.items = <<>>
    <3> SUFFICES ASSUME r.turn = "none" PROVE Comes(1)' /\ r.items = <<>>
      OBVIOUS
    <3>1. c.turn = "none" /\ n # 1 /\ r.items = c.items
      BY <1>4, <1>10
    <3> QED
      BY <1>3, <1>m, <3>1
  <2>2. Distinct(r.items) /\ \A j \in DOMAIN r.items : Turn!Has(turnServer.items, r.items[j].id)
    <3>1. CASE r.items = c.items
      BY <1>3, <3>1
    <3>2. CASE r.items # c.items
      <4>1. PICK new \in Turn!Items : /\ r.items = Put(c.items, new) /\ new.id = event.item.id
                                      /\ event.type \in {"item", "delta"}
        BY <1>4, <3>2
      <4>2. Turn!Has(turnServer.items, new.id)
        BY <1>5, <4>1 DEF EventIsOfTheTurn, event
      <4> HIDE DEF c
      <4>3. /\ Distinct(r.items)
            /\ \A id : Turn!Has(r.items, id) <=> Turn!Has(c.items, id) \/ id = new.id
        <5>1. /\ Distinct(Put(c.items, new))
              /\ \A id : Turn!Has(Put(c.items, new), id) <=> Turn!Has(c.items, id) \/ id = new.id
          BY <1>3, <1>5, PutIs
        <5> QED
          BY <4>1, <5>1
      <4>4. ASSUME NEW j \in DOMAIN r.items PROVE Turn!Has(turnServer.items, r.items[j].id)
        <5>1. Turn!Has(r.items, r.items[j].id)
          BY DEF Turn!Has
        <5>2. CASE Turn!Has(c.items, r.items[j].id)
          <6>1. PICK k \in DOMAIN c.items : c.items[k].id = r.items[j].id
            BY <5>2 DEF Turn!Has
          <6> QED
            BY <1>3, <6>1
        <5>3. CASE r.items[j].id = new.id
          BY <4>2, <5>3
        <5> QED
          BY <4>3, <5>1, <5>2, <5>3
      <4> QED
        BY <4>3, <4>4
    <3> QED
      BY <3>1, <3>2
  <2> QED
    BY <1>1, <1>6, <2>1, <2>2 DEF ShownIsOfTheTurn
<1> QED
  BY <1>8, <1>9, <1>11, <1>12, <1>13, <1>14 DEF TurnInv

NextPlace == Len(turnEvents) + 1

\* An event that is sent is the last; the client does not see it yet.
LEMMA EmitsIs ==
  ASSUME TurnInv, NEW event \in TurnEventType, NEW server \in Turn!Details, Turn!Emits(event, server)
  PROVE  /\ turnServer' = server /\ TurnTypes'
         /\ IsRead' = IsRead /\ Shown' = Shown /\ turnNext' = turnNext
         /\ NextPlace \in Places' /\ NextPlace \notin Places /\ NextPlace \in Nat
         /\ \A e : e = NextPlace /\ IsRead' => Comes(e)'
         /\ \A e \in Places : Comes(e) => Comes(e)'
         /\ 1 \in turnMissed => 1 \in turnMissed'
         /\ \A e \in Places : e \in Places' /\ e < NextPlace /\ turnEvents'[e] = turnEvents[e]
         /\ \A e \in Places' : e \in Places \/ e = NextPlace
         /\ turnEvents'[NextPlace] = event /\ turnEvents' # <<>>
         /\ turnServer.turn # "none" => NextPlace # 1
<1>1. /\ turnServer' = server /\ turnEvents' = Append(turnEvents, event)
      /\ UNCHANGED <<turnNext, turnRead, turnClient>>
      /\ turnMissed' = IF turnNext = 0 /\ IsRead THEN turnMissed \cup {NextPlace} ELSE turnMissed
  BY DEF Turn!Emits, IsRead, NextPlace
<1>2. turnEvents \in Seq(TurnEventType) /\ Len(turnEvents) \in Nat /\ turnNext \in 0 .. Len(turnEvents) + 1
  BY DEF TurnInv, TurnTypes
<1>3. /\ turnEvents' \in Seq(TurnEventType) /\ Len(turnEvents') = Len(turnEvents) + 1
      /\ turnEvents'[Len(turnEvents) + 1] = event
      /\ \A e \in 1 .. Len(turnEvents) : turnEvents'[e] = turnEvents[e]
  BY <1>1, <1>2
<1>4. IsRead' = IsRead /\ Shown' = Shown
  BY <1>1 DEF IsRead, Shown
<1>5. TurnTypes'
  <2>1. turnNext' \in 0 .. Len(turnEvents') + 1
    BY <1>1, <1>2, <1>3
  <2>2. turnMissed' \subseteq Places' /\ (~IsRead' => turnMissed' = {})
    <3>1. Places' = Places \cup {NextPlace}
      BY <1>2, <1>3 DEF Places, NextPlace
    <3>2. turnMissed \subseteq Places /\ (~IsRead => turnMissed = {})
      BY DEF TurnInv, TurnTypes
    <3> QED
      BY <1>1, <1>4, <3>1, <3>2
  <2> QED
    BY <1>1, <1>3, <1>4, <2>1, <2>2 DEF TurnInv, TurnTypes
<1>6. /\ NextPlace \in Places' /\ NextPlace \notin Places /\ NextPlace \in Nat /\ turnNext <= NextPlace
      /\ \A e \in Places : e \in Places' /\ e < NextPlace
      /\ \A e \in Places' : e \in Places \/ e = NextPlace
  BY <1>2, <1>3 DEF NextPlace, Places
<1>c. /\ \A e : e = NextPlace /\ IsRead' => Comes(e)'
      /\ \A e \in Places : Comes(e) => Comes(e)'
      /\ 1 \in turnMissed => 1 \in turnMissed'
  BY <1>1, <1>4, <1>6 DEF Comes
<1>7. turnServer.turn # "none" => NextPlace # 1
  <2>1. turnServer.turn # "none" => turnEvents # <<>>
    BY DEF TurnInv, EventsAreOfTheTurn
  <2> QED
    BY <1>2, <2>1 DEF NextPlace
<1>8. turnEvents' # <<>>
  BY <1>2, <1>3
<1> QED
  BY <1>1, <1>3, <1>4, <1>5, <1>6, <1>c, <1>7, <1>8 DEF NextPlace, Places

\* An event about something else changes nothing for an item.
LEMMA ItemStays ==
  ASSUME TurnInv, NEW event \in TurnEventType, NEW server \in Turn!Details, Turn!Emits(event, server),
         NEW item, ItemSettles(item), event.type \in {"item", "delta"} => event.item.id # item.id
  PROVE  ItemSettles(item)'
<1> USE EmitsIs
<1>1. ASSUME NEW d \in Places, IsDoneAt(d, item) PROVE IsDoneAt(d, item)'
  <2>1. turnEvents'[d] = turnEvents[d]
    OBVIOUS
  <2>2. IsRead' => Comes(d)' \/ 1 \in turnMissed' \/ ShowsDone(d, item)'
    BY <1>1, <2>1 DEF IsDoneAt, ShowsDone
  <2>3. ASSUME NEW e \in Places', AboutItem(e, item.id)', e # d
        PROVE  e < d /\ (turnEvents'[e].type = "item" => turnEvents'[e].item.text = <<>>)
    <3>1. e \in Places
      BY <2>3 DEF AboutItem
    <3> QED
      BY <1>1, <2>3, <3>1 DEF IsDoneAt, AboutItem
  <2> QED
    BY <1>1, <2>1, <2>2, <2>3 DEF IsDoneAt, ItemEvent
<1>2. item.done = TRUE => \E d \in Places' : IsDoneAt(d, item)'
  BY <1>1 DEF ItemSettles
<1>3. ASSUME item.done = FALSE, NEW e \in Places', ItemEvent(e, item.id)'
      PROVE  turnEvents'[e].item.text = <<>>
  <2>1. e \in Places
    BY <1>3 DEF ItemEvent
  <2> QED
    BY <1>3, <2>1 DEF ItemSettles, ItemEvent
<1> QED
  BY <1>2, <1>3 DEF ItemSettles

\* An event leaves what is shown of the turn, and that the events are of it.
LEMMA EventsStay ==
  ASSUME TurnInv, NEW event \in TurnEventType, NEW server \in Turn!Details, Turn!Emits(event, server),
         turnServer.turn # "none", server.turn # "none", event.type # "turnStarted",
         event.type = "turnCompleted" => event.status \in {"completed", "failed"},
         event.type = "turnError" => event.status \in {"inProgress", "failed"},
         event.type \in {"item", "delta"} => event.item.id \in ItemTypes /\ Turn!Has(server.items, event.item.id),
         event.type = "delta" => event.item.text # <<>>,
         Distinct(server.items), \A id : Turn!Has(turnServer.items, id) => Turn!Has(server.items, id)
  PROVE  EventsAreOfTheTurn' /\ ShownIsOfTheTurn'
<1> USE EmitsIs
<1>1. ASSUME NEW e \in Places' PROVE EventIsOfTheTurn(e)'
  <2>1. CASE e = NextPlace
    BY <2>1 DEF EventIsOfTheTurn
  <2>2. CASE e \in Places
    <3>1. EventIsOfTheTurn(e)
      BY <2>2 DEF TurnInv, EventsAreOfTheTurn
    <3> QED
      BY <2>2, <3>1 DEF EventIsOfTheTurn
  <2> QED
    BY <2>1, <2>2
<1>2. EventsAreOfTheTurn'
  BY <1>1 DEF EventsAreOfTheTurn
<1>3. 1 \in Places /\ turnEvents # <<>>
  BY DEF TurnInv, TurnTypes, EventsAreOfTheTurn, Places
<1>4. ShownIsOfTheTurn'
  BY <1>3 DEF TurnInv, ShownIsOfTheTurn
<1> QED
  BY <1>2, <1>4

\* An event that is not about the activity leaves it.
LEMMA StatusStays ==
  ASSUME TurnInv, NEW event \in TurnEventType, NEW server \in Turn!Details, Turn!Emits(event, server),
         turnServer.turn # "none", server.turn # "none", event.type # "statusChanged",
         server.active = turnServer.active
  PROVE  StatusSettles'
<1> USE EmitsIs
<1>0. 1 \in Places
  BY DEF TurnInv, TurnTypes, EventsAreOfTheTurn, Places
<1>1. server.active = TRUE =>
        /\ \A e \in Places' : turnEvents'[e].type # "statusChanged"
        /\ IsRead' => Comes(1)' \/ Shown'.active = TRUE
  BY <1>0 DEF TurnInv, StatusSettles
<1>2. ASSUME server.active = FALSE
      PROVE  \E e \in Places' : /\ turnEvents'[e].type = "statusChanged"
                                /\ IsRead' => Comes(e)' \/ Shown'.active = FALSE
  <2>1. PICK e \in Places : /\ turnEvents[e].type = "statusChanged"
                            /\ IsRead => Comes(e) \/ Shown.active = FALSE
    BY <1>2 DEF TurnInv, StatusSettles
  <2>2. e \in Places' /\ turnEvents'[e] = turnEvents[e]
    OBVIOUS
  <2> QED
    BY <2>1, <2>2
<1> QED
  BY <1>1, <1>2 DEF StatusSettles

\* An event about an item of the turn under way.
LEMMA ItemEventKeeps ==
  ASSUME TurnInv, NEW event \in TurnEventType, NEW new \in Turn!Items, turnServer.turn = "inProgress",
         event.type \in {"item", "delta"}, event.item.id = new.id,
         event.type = "delta" => event.item.text # <<>>,
         Turn!Emits(event, [turnServer EXCEPT !.items = Put(turnServer.items, new)]),
         ItemSettles(new)'
  PROVE  TurnInv'
<1> DEFINE items == turnServer.items
<1> DEFINE server == [turnServer EXCEPT !.items = Put(items, new)]
<1>1. turnServer \in Turn!Details /\ items \in Seq(Turn!Items) /\ Distinct(items)
  BY DEF TurnInv, TurnTypes, EventsAreOfTheTurn, Turn!Details
<1>2. /\ Put(items, new) \in Seq(Turn!Items) /\ Distinct(Put(items, new))
      /\ \A id : Turn!Has(Put(items, new), id) <=> Turn!Has(items, id) \/ id = new.id
      /\ \A n \in DOMAIN Put(items, new) :
           Put(items, new)[n] = new \/ \E k \in DOMAIN items : Put(items, new)[n] = items[k] /\ items[k].id # new.id
  BY <1>1, PutIs
<1>3. /\ server \in Turn!Details /\ server.items = Put(items, new) /\ server.turn = "inProgress"
      /\ server.active = turnServer.active
  BY <1>1, <1>2 DEF Turn!Details
<1>4. Turn!Emits(event, server)
  OBVIOUS
<1>5. event.item.id \in ItemTypes
  BY DEF Turn!Items
<1> HIDE DEF server
<1>6. turnServer' = server /\ TurnTypes'
  BY <1>3, <1>4, EmitsIs
<1>7. EventsAreOfTheTurn' /\ ShownIsOfTheTurn'
  BY <1>2, <1>3, <1>4, <1>5, EventsStay
<1>8. StatusSettles'
  BY <1>3, <1>4, StatusStays
<1>9. TurnSettles'
  BY <1>3, <1>6 DEF TurnSettles
<1>10. ASSUME NEW item, ItemSettles(item), item.id # new.id PROVE ItemSettles(item)'
  BY <1>3, <1>4, <1>10, ItemStays
<1>11. ItemsSettle'
  <2> SUFFICES ASSUME NEW k \in DOMAIN Put(items, new), NEW item, item = Put(items, new)[k]
               PROVE  ItemSettles(item)'
    BY <1>3, <1>6 DEF ItemsSettle
  <2>1. CASE item = new
    BY <2>1
  <2>2. CASE item # new
    <3>1. PICK j \in DOMAIN items : item = items[j] /\ items[j].id # new.id
      BY <1>2, <2>2
    <3>2. ItemSettles(items[j])
      BY DEF TurnInv, ItemsSettle
    <3>3. ItemSettles(item) /\ item.id # new.id
      BY <3>1, <3>2
    <3> QED
      BY <1>10, <3>3
  <2> QED
    BY <2>1, <2>2
<1> QED
  BY <1>6, <1>7, <1>8, <1>9, <1>11 DEF TurnInv

\* An event about the turn, or its activity, leaves its items.
LEMMA TurnEventKeeps ==
  ASSUME TurnInv, NEW event \in TurnEventType, NEW server \in Turn!Details, Turn!Emits(event, server),
         turnServer.turn # "none", server.turn # "none", server.items = turnServer.items,
         event.type \in {"statusChanged", "turnCompleted", "turnError"},
         event.type = "turnCompleted" => event.status \in {"completed", "failed"},
         event.type = "turnError" => event.status \in {"inProgress", "failed"}
  PROVE  TurnTypes' /\ EventsAreOfTheTurn' /\ ShownIsOfTheTurn' /\ ItemsSettle'
<1>1. turnServer' = server /\ TurnTypes'
  BY EmitsIs
<1>2. Distinct(server.items)
  BY DEF TurnInv, EventsAreOfTheTurn
<1>3. EventsAreOfTheTurn' /\ ShownIsOfTheTurn'
  BY <1>2, EventsStay
<1>4. ItemsSettle'
  <2> SUFFICES ASSUME NEW k \in DOMAIN server.items, NEW item, item = server.items[k]
               PROVE  ItemSettles(item)'
    BY <1>1 DEF ItemsSettle
  <2>1. ItemSettles(item)
    BY DEF TurnInv, ItemsSettle
  <2> QED
    BY <2>1, ItemStays
<1> QED
  BY <1>1, <1>3, <1>4

\* The turn starts.
LEMMA TurnStartedKeeps == TurnInv /\ Turn!TurnStarts => TurnInv'
<1> SUFFICES ASSUME TurnInv, Turn!TurnStarts PROVE TurnInv'
  OBVIOUS
<1> DEFINE event == Turn!Event("turnStarted", "inProgress", Turn!NoItem)
<1> DEFINE server == [turnServer EXCEPT !.turn = "inProgress", !.active = TRUE]
<1>1. turnServer.turn = "none" /\ Turn!Emits(event, server)
  BY DEF Turn!TurnStarts
<1>2. /\ event \in TurnEventType /\ event.type = "turnStarted"
  BY DEF TurnEventType, Turn!Event, Turn!NoItem, Turn!Begun, Turn!Status
<1>3. turnServer \in Turn!Details /\ turnServer.items = <<>> /\ turnEvents = <<>> /\ turnServer.active = FALSE
  BY <1>1 DEF TurnInv, TurnTypes, EventsAreOfTheTurn
<1>4. server \in Turn!Details /\ server.turn = "inProgress" /\ server.active = TRUE /\ server.items = <<>>
  BY <1>3 DEF Turn!Details, Turn!Status
<1> HIDE DEF event, server
<1>5. /\ turnServer' = server /\ TurnTypes' /\ IsRead' = IsRead /\ Shown' = Shown
      /\ \A e \in Places' : e = 1 /\ turnEvents'[e] = event
      /\ turnEvents' # <<>> /\ (IsRead' => Comes(1)')
  <2>1. NextPlace = 1 /\ Places = {}
    BY <1>3 DEF NextPlace, Places
  <2> QED
    BY <1>1, <1>2, <1>4, <2>1, EmitsIs
<1>6. EventsAreOfTheTurn'
  <2>1. \A e \in Places' : EventIsOfTheTurn(e)'
    BY <1>2, <1>5 DEF EventIsOfTheTurn
  <2> QED
    BY <1>4, <1>5, <2>1 DEF EventsAreOfTheTurn, Distinct
<1>7. StatusSettles'
  BY <1>2, <1>4, <1>5 DEF StatusSettles
<1>8. TurnSettles' /\ ItemsSettle'
  BY <1>4, <1>5 DEF TurnSettles, ItemsSettle
<1>9. ShownIsOfTheTurn'
  BY <1>3, <1>4, <1>5 DEF TurnInv, ShownIsOfTheTurn
<1> QED
  BY <1>5, <1>6, <1>7, <1>8, <1>9 DEF TurnInv

\* An item starts, as yet without text.
LEMMA ItemStartsKeeps ==
  ASSUME TurnInv, NEW id \in ItemTypes, Turn!ItemStarts(id)
  PROVE  TurnInv'
<1> DEFINE new == Turn!Begun(id)
<1> DEFINE event == Turn!Event("item", "none", new)
<1>1. /\ turnServer.turn = "inProgress" /\ ~Turn!Has(turnServer.items, id)
      /\ Turn!Emits(event, [turnServer EXCEPT !.items = Append(turnServer.items, new)])
  BY DEF Turn!ItemStarts
<1>2. /\ new \in Turn!Items /\ new.id = id /\ new.done = FALSE /\ new.text = <<>>
  BY DEF Turn!Begun, Turn!Items
<1>3. /\ event \in TurnEventType /\ event.type = "item" /\ event.item = new
  BY DEF Turn!Event, TurnEventType, Turn!Status, Turn!Begun
<1> HIDE DEF new, event
<1>4. Put(turnServer.items, new) = Append(turnServer.items, new)
  BY <1>1, <1>2 DEF Put
<1> DEFINE server == [turnServer EXCEPT !.items = Put(turnServer.items, new)]
<1>5. Turn!Emits(event, server)
  BY <1>1, <1>4
<1>6. server \in Turn!Details
  <2>1. turnServer \in Turn!Details /\ turnServer.items \in Seq(Turn!Items)
    BY DEF TurnInv, TurnTypes, Turn!Details
  <2>2. Put(turnServer.items, new) \in Seq(Turn!Items)
    BY <1>2, <1>4, <2>1
  <2> QED
    BY <2>1, <2>2 DEF Turn!Details
<1>7. ItemSettles(new)'
  <2> HIDE DEF server
  <2>1. ASSUME NEW e \in Places', turnEvents'[e].type = "item", turnEvents'[e].item.id = id
        PROVE  turnEvents'[e].item.text = <<>>
    <3>1. CASE e = NextPlace
      BY <1>2, <1>3, <1>5, <1>6, <3>1, EmitsIs
    <3>2. CASE e \in Places
      <4>1. turnEvents'[e] = turnEvents[e]
        BY <1>3, <1>5, <1>6, <3>2, EmitsIs
      <4>2. EventIsOfTheTurn(e)
        BY <3>2 DEF TurnInv, EventsAreOfTheTurn
      <4> QED
        BY <1>1, <2>1, <4>1, <4>2 DEF EventIsOfTheTurn
    <3> QED
      BY <1>3, <1>5, <1>6, <3>1, <3>2, EmitsIs
  <2>2. new' = new
    BY DEF new, Turn!Begun
  <2> QED
    BY <1>2, <2>1, <2>2 DEF ItemSettles, ItemEvent
<1> QED
  BY <1>1, <1>2, <1>3, <1>5, <1>7, ItemEventKeeps

\* The item of an id that is under way.
LEMMA RunningIs ==
  ASSUME TurnInv, NEW id, Turn!Running(id)
  PROVE  /\ turnServer.turn = "inProgress" /\ Turn!Has(turnServer.items, id)
         /\ Turn!ItemOf(turnServer.items, id) \in Turn!Items
         /\ Turn!ItemOf(turnServer.items, id).id = id /\ Turn!ItemOf(turnServer.items, id).done = FALSE
         /\ \A e \in Places : ItemEvent(e, id) => turnEvents[e].item.text = <<>>
         /\ turnServer \in Turn!Details /\ turnServer.items \in Seq(Turn!Items) /\ Distinct(turnServer.items)
<1>1. /\ turnServer \in Turn!Details /\ turnServer.items \in Seq(Turn!Items) /\ Distinct(turnServer.items)
  BY DEF TurnInv, TurnTypes, EventsAreOfTheTurn, Turn!Details
<1>2. /\ turnServer.turn = "inProgress" /\ Turn!Has(turnServer.items, id)
      /\ ~Turn!ItemOf(turnServer.items, id).done
  BY DEF Turn!Running
<1>3. PICK k \in DOMAIN turnServer.items :
         turnServer.items[k] = Turn!ItemOf(turnServer.items, id) /\ turnServer.items[k].id = id
  BY <1>2, ItemOfIs
<1>4. turnServer.items[k] \in Turn!Items
  BY <1>1
<1>5. turnServer.items[k].done = FALSE
  BY <1>2, <1>3, <1>4 DEF Turn!Items
<1>6. ItemSettles(turnServer.items[k])
  BY DEF TurnInv, ItemsSettle
<1> QED
  BY <1>1, <1>2, <1>3, <1>4, <1>5, <1>6 DEF ItemSettles

\* What a delta changes at the app-server, and the event that tells of it.
LEMMA DeltaArrivesIs ==
  ASSUME NEW id, NEW delta, Turn!DeltaArrives(id, delta)
  PROVE  /\ Turn!Running(id)
         /\ Turn!Emits(Turn!Event("delta", "none", Turn!Piece(id, delta)),
              [turnServer EXCEPT !.items =
                Turn!Replace(turnServer.items, Turn!Extended(Turn!ItemOf(turnServer.items, id), delta))])
BY DEF Turn!DeltaArrives

\* An item that is under way grows by a piece of text.
LEMMA DeltaArrivesKeeps ==
  ASSUME TurnInv, NEW id \in ItemTypes, NEW delta \in Deltas, Turn!DeltaArrives(id, delta)
  PROVE  TurnInv'
<1> DEFINE items == turnServer.items
<1> DEFINE event == Turn!Event("delta", "none", Turn!Piece(id, delta))
<1>0. /\ Turn!Running(id)
      /\ Turn!Emits(event, [turnServer EXCEPT !.items =
           Turn!Replace(items, Turn!Extended(Turn!ItemOf(items, id), delta))])
  BY DeltaArrivesIs
<1> HIDE DEF event
<1> SUFFICES ASSUME NEW new, new = Turn!Extended(Turn!ItemOf(items, id), delta)
             PROVE  TurnInv'
  OBVIOUS
<1>1. Turn!Running(id) /\ Turn!Emits(event, [turnServer EXCEPT !.items = Turn!Replace(items, new)])
  BY <1>0
<1>2. /\ turnServer.turn = "inProgress" /\ Turn!Has(items, id)
      /\ Turn!ItemOf(items, id) \in Turn!Items
      /\ Turn!ItemOf(items, id).id = id /\ Turn!ItemOf(items, id).done = FALSE
      /\ \A e \in Places : ItemEvent(e, id) => turnEvents[e].item.text = <<>>
      /\ turnServer \in Turn!Details /\ items \in Seq(Turn!Items) /\ Distinct(items)
  BY <1>1, RunningIs
<1>3. new \in Turn!Items /\ new.id = id /\ new.done = FALSE
  <2>1. Append(Turn!ItemOf(items, id).text, delta) \in Seq(Deltas)
    BY <1>2 DEF Turn!Items
  <2> QED
    BY <1>2, <2>1 DEF Turn!Items, Turn!Extended
<1>4. event \in TurnEventType /\ event.type = "delta" /\ event.item.id = id /\ event.item.text # <<>>
  <2>2. event = [type |-> "delta", status |-> "none", item |-> [id |-> id, text |-> <<delta>>, done |-> FALSE]]
    BY DEF event, Turn!Event, Turn!Piece
  <2>3. <<delta>> \in Seq(Deltas) /\ <<delta>> # <<>>
    OBVIOUS
  <2> HIDE DEF event
  <2> QED
    BY <2>2, <2>3 DEF TurnEventType, Turn!Status
<1> HIDE DEF event
<1>5. Put(items, new) = Turn!Replace(items, new)
  BY <1>2, <1>3 DEF Put
<1> DEFINE server == [turnServer EXCEPT !.items = Put(items, new)]
<1>6. Turn!Emits(event, server)
  BY <1>1, <1>5
<1>7. server \in Turn!Details
  <2>1. Put(items, new) \in Seq(Turn!Items)
    BY <1>2, <1>3, PutIs
  <2> QED
    BY <1>2, <2>1 DEF Turn!Details
<1>8. ItemSettles(new)'
  <2> HIDE DEF server
  <2>1. ASSUME NEW e \in Places', turnEvents'[e].type = "item", turnEvents'[e].item.id = id
        PROVE  turnEvents'[e].item.text = <<>>
    <3>1. e # NextPlace
      BY <1>4, <1>6, <1>7, <2>1, EmitsIs
    <3>2. e \in Places /\ turnEvents'[e] = turnEvents[e]
      BY <1>4, <1>6, <1>7, <3>1, EmitsIs
    <3> QED
      BY <1>2, <2>1, <3>2 DEF ItemEvent
  <2> QED
    BY <1>3, <2>1 DEF ItemSettles, ItemEvent
<1> QED
  BY <1>2, <1>3, <1>4, <1>6, <1>8, ItemEventKeeps

\* An item completes, and the event may leave its text out.
LEMMA ItemCompletesKeeps ==
  ASSUME TurnInv, NEW id \in ItemTypes, NEW withText \in BOOLEAN, Turn!ItemCompletes(id, withText)
  PROVE  TurnInv'
<1> DEFINE items == turnServer.items
<1> SUFFICES ASSUME NEW new, new = [Turn!ItemOf(items, id) EXCEPT !.done = TRUE]
             PROVE  TurnInv'
  OBVIOUS
<1> DEFINE told == IF withText THEN new ELSE [new EXCEPT !.text = <<>>]
<1> DEFINE event == Turn!Event("item", "none", told)
<1>1. Turn!Running(id) /\ Turn!Emits(event, [turnServer EXCEPT !.items = Turn!Replace(items, new)])
  BY DEF Turn!ItemCompletes
<1>2. /\ turnServer.turn = "inProgress" /\ Turn!Has(items, id)
      /\ Turn!ItemOf(items, id) \in Turn!Items
      /\ Turn!ItemOf(items, id).id = id /\ Turn!ItemOf(items, id).done = FALSE
      /\ \A e \in Places : ItemEvent(e, id) => turnEvents[e].item.text = <<>>
      /\ turnServer \in Turn!Details /\ items \in Seq(Turn!Items) /\ Distinct(items)
  BY <1>1, RunningIs
<1>3. new \in Turn!Items /\ new.id = id /\ new.done = TRUE
  BY <1>2 DEF Turn!Items
<1>4. told \in Turn!Items /\ told.id = id /\ told.done = TRUE /\ told.text \in {new.text, <<>>}
  <2>1. /\ [new EXCEPT !.text = <<>>] \in Turn!Items /\ [new EXCEPT !.text = <<>>].id = id
        /\ [new EXCEPT !.text = <<>>].done = TRUE /\ [new EXCEPT !.text = <<>>].text = <<>>
    <3>1. <<>> \in Seq(Deltas)
      OBVIOUS
    <3> QED
      BY <1>3, <3>1 DEF Turn!Items
  <2> QED
    BY <1>3, <2>1
<1> HIDE DEF told
<1>5. /\ event \in TurnEventType /\ event.type = "item" /\ event.item = told
  BY <1>4 DEF Turn!Event, TurnEventType, Turn!Status, Turn!Items
<1> HIDE DEF event
<1>6. Put(items, new) = Turn!Replace(items, new)
  BY <1>2, <1>3 DEF Put
<1> DEFINE server == [turnServer EXCEPT !.items = Put(items, new)]
<1>7. Turn!Emits(event, server)
  BY <1>1, <1>6
<1>8. server \in Turn!Details
  <2>1. Put(items, new) \in Seq(Turn!Items)
    BY <1>2, <1>3, PutIs
  <2> QED
    BY <1>2, <2>1 DEF Turn!Details
<1>9. ItemSettles(new)'
  <2> HIDE DEF server
  <2>1. /\ NextPlace \in Places' /\ turnEvents'[NextPlace] = event
        /\ \A e : e = NextPlace /\ IsRead' => Comes(e)'
        /\ \A e \in Places' : e # NextPlace => e \in Places /\ e < NextPlace /\ turnEvents'[e] = turnEvents[e]
    BY <1>5, <1>7, <1>8, EmitsIs
  <2>2. ASSUME NEW e \in Places', turnEvents'[e].type \in {"item", "delta"}, turnEvents'[e].item.id = id, e # NextPlace
        PROVE  e < NextPlace /\ (turnEvents'[e].type = "item" => turnEvents'[e].item.text = <<>>)
    BY <1>2, <2>1, <2>2 DEF ItemEvent
  <2>3. \E d \in Places' :
          /\ turnEvents'[d].type = "item" /\ turnEvents'[d].item.id = new.id
          /\ turnEvents'[d].item.done = TRUE /\ turnEvents'[d].item.text \in {new.text, <<>>}
          /\ \A e \in Places' : turnEvents'[e].type \in {"item", "delta"} /\ turnEvents'[e].item.id = new.id /\ e # d =>
               e < d /\ (turnEvents'[e].type = "item" => turnEvents'[e].item.text = <<>>)
          /\ IsRead' => Comes(d)'
    BY <1>3, <1>4, <1>5, <2>1, <2>2
  <2> QED
    BY <1>3, <2>3 DEF ItemSettles, IsDoneAt, ItemEvent, AboutItem
<1>10. event.type = "item" /\ event.item.id = new.id
  BY <1>3, <1>4, <1>5
<1> QED
  BY <1>2, <1>3, <1>5, <1>7, <1>9, <1>10, ItemEventKeeps

\* An error is told of, whether or not it is retried.
LEMMA TurnErrsKeeps == TurnInv /\ Turn!TurnErrs => TurnInv'
<1> SUFFICES ASSUME TurnInv, Turn!TurnErrs PROVE TurnInv'
  OBVIOUS
<1>1. PICK status \in {"inProgress", "failed"} :
         /\ turnServer.turn = "inProgress"
         /\ Turn!Emits(Turn!Event("turnError", status, Turn!NoItem), turnServer)
  BY DEF Turn!TurnErrs
<1> DEFINE event == Turn!Event("turnError", status, Turn!NoItem)
<1>2. event \in TurnEventType /\ event.type = "turnError" /\ event.status = status
  BY DEF Turn!Event, Turn!NoItem, Turn!Begun, TurnEventType, Turn!Status
<1>3. turnServer \in Turn!Details
  BY DEF TurnInv, TurnTypes
<1> HIDE DEF event
<1>4. Turn!Emits(event, turnServer)
  BY <1>1 DEF event
<1>5. TurnTypes' /\ EventsAreOfTheTurn' /\ ShownIsOfTheTurn' /\ ItemsSettle'
  BY <1>1, <1>2, <1>3, <1>4, TurnEventKeeps
<1>6. StatusSettles'
  BY <1>1, <1>2, <1>3, <1>4, StatusStays
<1>7. turnServer' = turnServer
  BY <1>2, <1>3, <1>4, EmitsIs
<1>8. TurnSettles'
  BY <1>1, <1>7 DEF TurnSettles
<1> QED
  BY <1>5, <1>6, <1>8 DEF TurnInv

\* The turn ends once its items have completed.
LEMMA TurnCompletesKeeps ==
  ASSUME TurnInv, NEW status \in {"completed", "failed"}, Turn!TurnCompletes(status)
  PROVE  TurnInv'
<1> DEFINE event == Turn!Event("turnCompleted", status, Turn!NoItem)
<1> DEFINE server == [turnServer EXCEPT !.turn = status]
<1>1. /\ turnServer.turn = "inProgress" /\ Turn!Emits(event, server)
      /\ \A k \in DOMAIN turnServer.items : turnServer.items[k].done
  BY DEF Turn!TurnCompletes
<1>2. event \in TurnEventType /\ event.type = "turnCompleted" /\ event.status = status
  BY DEF Turn!Event, Turn!NoItem, Turn!Begun, TurnEventType, Turn!Status
<1>3. turnServer \in Turn!Details
  BY DEF TurnInv, TurnTypes
<1>4. /\ server \in Turn!Details /\ server.turn = status /\ server.items = turnServer.items
      /\ server.active = turnServer.active
  BY <1>3 DEF Turn!Details, Turn!Status
<1> HIDE DEF event, server
<1>5. TurnTypes' /\ EventsAreOfTheTurn' /\ ShownIsOfTheTurn' /\ ItemsSettle'
  BY <1>1, <1>2, <1>4, TurnEventKeeps
<1>6. StatusSettles'
  BY <1>1, <1>2, <1>4, StatusStays
<1>7. TurnSettles'
  <2>1. /\ turnServer' = server /\ NextPlace \in Places' /\ turnEvents'[NextPlace] = event
        /\ \A e : e = NextPlace /\ IsRead' => Comes(e)'
        /\ \A e \in Places' : ~(e > NextPlace)
    <3>1. /\ turnServer' = server /\ NextPlace \in Places' /\ turnEvents'[NextPlace] = event
          /\ NextPlace \in Nat /\ \A e : e = NextPlace /\ IsRead' => Comes(e)'
          /\ \A e \in Places' : e \in Places \/ e = NextPlace
          /\ \A e \in Places : e < NextPlace
      BY <1>1, <1>2, <1>4, EmitsIs
    <3>2. \A e \in Places : e \in Nat
      BY DEF Places
    <3> QED
      BY <3>1, <3>2
  <2>2. \A k \in DOMAIN turnServer.items : turnServer.items[k].done = TRUE
    <3>1. turnServer.items \in Seq(Turn!Items)
      BY <1>3 DEF Turn!Details
    <3> QED
      BY <1>1, <3>1 DEF Turn!Items
  <2>3. \E m \in Places' :
         /\ turnEvents'[m].type = "turnCompleted" /\ turnEvents'[m].status = turnServer'.turn
         /\ \A e \in Places' : e > m => turnEvents'[e].type = "statusChanged"
         /\ IsRead' => Comes(m)'
    BY <1>2, <1>4, <2>1
  <2> QED
    BY <1>4, <2>1, <2>2, <2>3 DEF TurnSettles
<1> QED
  BY <1>5, <1>6, <1>7 DEF TurnInv

\* The thread goes idle.
LEMMA GoesIdleKeeps == TurnInv /\ Turn!GoesIdle => TurnInv'
<1> SUFFICES ASSUME TurnInv, Turn!GoesIdle PROVE TurnInv'
  OBVIOUS
<1> DEFINE event == Turn!Event("statusChanged", "none", Turn!NoItem)
<1> DEFINE server == [turnServer EXCEPT !.active = FALSE]
<1>1. turnServer.turn # "none" /\ Turn!Emits(event, server)
  BY DEF Turn!GoesIdle
<1>2. event \in TurnEventType /\ event.type = "statusChanged"
  BY DEF Turn!Event, Turn!NoItem, Turn!Begun, TurnEventType, Turn!Status
<1>3. turnServer \in Turn!Details
  BY DEF TurnInv, TurnTypes
<1>4. /\ server \in Turn!Details /\ server.turn = turnServer.turn /\ server.items = turnServer.items
      /\ server.active = FALSE
  BY <1>3 DEF Turn!Details
<1> HIDE DEF event, server
<1>5. TurnTypes' /\ EventsAreOfTheTurn' /\ ShownIsOfTheTurn' /\ ItemsSettle'
  BY <1>1, <1>2, <1>4, TurnEventKeeps
<1>6. /\ turnServer' = server /\ NextPlace \in Places' /\ turnEvents'[NextPlace] = event
      /\ \A e : e = NextPlace /\ IsRead' => Comes(e)'
      /\ \A e \in Places : Comes(e) => Comes(e)'
      /\ IsRead' = IsRead /\ Shown' = Shown
      /\ \A e \in Places' : e \in Places \/ e = NextPlace
      /\ \A e \in Places : e \in Places' /\ turnEvents'[e] = turnEvents[e]
  BY <1>1, <1>2, <1>4, EmitsIs
<1>7. StatusSettles'
  <2>1. \E e \in Places' : turnEvents'[e].type = "statusChanged" /\ (IsRead' => Comes(e)')
    BY <1>2, <1>6
  <2> QED
    BY <1>1, <1>4, <1>6, <2>1 DEF StatusSettles
<1>8. TurnSettles'
  <2> SUFFICES ASSUME turnServer.turn \in {"completed", "failed"} PROVE TurnSettles'
    BY <1>4, <1>6 DEF TurnSettles
  <2>1. PICK m \in Places :
         /\ turnEvents[m].type = "turnCompleted" /\ turnEvents[m].status = turnServer.turn
         /\ \A e \in Places : e > m => turnEvents[e].type = "statusChanged"
         /\ IsRead => Comes(m) \/ Shown.turn = turnServer.turn
    BY DEF TurnInv, TurnSettles
  <2>2. \A k \in DOMAIN turnServer.items : turnServer.items[k].done = TRUE
    BY DEF TurnInv, TurnSettles
  <2>3. \A e \in Places' : e > m => turnEvents'[e].type = "statusChanged"
    BY <1>2, <1>6, <2>1
  <2>4. m \in Places' /\ turnEvents'[m] = turnEvents[m]
    BY <1>6
  <2>5. IsRead' => Comes(m)' \/ Shown'.turn = turnServer'.turn
    BY <1>4, <1>6, <2>1
  <2> QED
    BY <1>4, <1>6, <2>1, <2>2, <2>3, <2>4, <2>5 DEF TurnSettles
<1> QED
  BY <1>5, <1>7, <1>8 DEF TurnInv

\* No step breaks the invariant of the turn.
LEMMA TurnKeeps == TurnInv /\ [Turn!TurnNext]_turnVars => TurnInv'
<1> SUFFICES ASSUME TurnInv, [Turn!TurnNext]_turnVars PROVE TurnInv'
  OBVIOUS
<1>1. CASE Turn!TurnStarts
  BY <1>1, TurnStartedKeeps
<1>2. CASE Turn!TurnErrs
  BY <1>2, TurnErrsKeeps
<1>3. CASE Turn!GoesIdle
  BY <1>3, GoesIdleKeeps
<1>4. CASE \E status \in {"completed", "failed"} : Turn!TurnCompletes(status)
  BY <1>4, TurnCompletesKeeps
<1>5. CASE \E id \in ItemTypes : Turn!ItemStarts(id)
  BY <1>5, ItemStartsKeeps
<1>6. CASE \E id \in ItemTypes, delta \in Deltas : Turn!DeltaArrives(id, delta)
  BY <1>6, DeltaArrivesKeeps
<1>7. CASE \E id \in ItemTypes, withText \in BOOLEAN : Turn!ItemCompletes(id, withText)
  BY <1>7, ItemCompletesKeeps
<1>8. CASE Turn!OpenStream \/ Turn!LoadReturns
  BY <1>8, TurnLoadKeeps
<1>9. CASE Turn!ReadThread
  BY <1>9, TurnReadKeeps
<1>10. CASE Turn!ApplyEvent
  BY <1>10, ApplyKeeps
<1>11. CASE UNCHANGED turnVars
  <2>1. UNCHANGED <<turnServer, turnEvents, turnNext, turnMissed, turnRead, turnClient>>
    BY <1>11 DEF turnVars
  <2>2. IsRead' = IsRead /\ Shown' = Shown /\ Places' = Places /\ \A e : Comes(e)' <=> Comes(e)
    BY <2>1 DEF IsRead, Shown, Places, Comes
  <2>3. TurnTypes' /\ StatusSettles' /\ TurnSettles' /\ ShownIsOfTheTurn'
    BY <2>1, <2>2 DEF TurnInv, TurnTypes, StatusSettles, TurnSettles, ShownIsOfTheTurn
  <2>4. EventsAreOfTheTurn'
    BY <2>1, <2>2 DEF TurnInv, EventsAreOfTheTurn, EventIsOfTheTurn
  <2>5. ItemsSettle'
    BY <2>1, <2>2 DEF TurnInv, ItemsSettle, ItemSettles, IsDoneAt, ItemEvent, AboutItem, ShowsDone
  <2> QED
    BY <2>3, <2>4, <2>5 DEF TurnInv
<1> QED
  BY <1>1, <1>2, <1>3, <1>4, <1>5, <1>6, <1>7, <1>8, <1>9, <1>10, <1>11 DEF Turn!TurnNext

-----------------------------------------------------------------------------
(* Approvals (ApprovalRequests)                                            *)

\* What is pending, and what is shown, is the request as it was translated; the
\* method stays known while it is pending.
RequestFollows ==
  apprAsked # Appr!Nothing =>
    /\ apprAsked.request \in Appr!Asked
    /\ apprAsked = [kind |-> "asked", request |-> apprAsked.request]
    /\ apprAsked.request.method = "item/commandExecution/requestApproval" \/ ~apprAsked.request.offered
    /\ apprPending \in {Appr!Nothing, Appr!toPendingRequest(apprAsked.request)}
    /\ apprShown \in {Appr!Nothing, Appr!toPendingRequest(apprAsked.request)}
    /\ apprPending # Appr!Nothing => apprMethod = apprAsked.request.method

RepliesFollow ==
  apprAsked # Appr!Nothing => \A reply \in apprReplies :
    /\ reply.told = IF apprAsked.request.method \in Appr!Legacy THEN Appr!LegacyWord(reply.choice) ELSE reply.choice
    /\ apprAsked.request.offered /\ apprAsked.request.offers # {"odd"} => reply.choice \in apprAsked.request.offers
    /\ reply.answers = apprAsked.request.questions \ apprAsked.request.odd

ApprInv ==
  /\ apprMethod \in Appr!Methods \cup {"none"}
  /\ apprAsked = Appr!Nothing =>
       apprPending = Appr!Nothing /\ apprShown = Appr!Nothing /\ apprReplies = {}
  /\ RequestFollows
  /\ RepliesFollow

\* A translated request is a pending one.
LEMMA ApprKind ==
  ASSUME NEW r
  PROVE  /\ Appr!toPendingRequest(r).kind \in {"command", "fileChange", "permissions", "userInput"}
         /\ Appr!toPendingRequest(r) # Appr!Nothing
<1>1. Appr!toPendingRequest(r).kind \in {"command", "fileChange", "permissions", "userInput"}
  BY DEF Appr!toPendingRequest
<1>2. Appr!Nothing.kind = "none"
  BY DEF Appr!Nothing
<1> QED
  BY <1>1, <1>2

\* A request leaves no choice only if the app-server offered none.
LEMMA ApprChoices ==
  ASSUME NEW r \in Appr!Asked, r.method = "item/commandExecution/requestApproval" \/ ~r.offered
  PROVE  /\ Appr!Choices(Appr!toPendingRequest(r)) = {} <=> r.offered /\ r.offers = {}
         /\ r.offered /\ r.offers # {"odd"} => Appr!Choices(Appr!toPendingRequest(r)) \subseteq r.offers
<1> DEFINE s == Appr!toPendingRequest(r)
<1>1. /\ s.kind = CASE r.method \in Appr!CommandMethods -> "command"
              [] r.method \in Appr!FileMethods -> "fileChange"
              [] r.method = "item/permissions/requestApproval" -> "permissions"
              [] OTHER -> "userInput"
      /\ s.offered = (r.offered /\ r.method \notin Appr!Legacy
               /\ (r.offers = {} \/ r.offers \ {"odd"} # {}))
      /\ s.offers = r.offers \ {"odd"}
      /\ s.network = (r.network /\ r.method \notin Appr!Legacy)
  BY DEF Appr!toPendingRequest, Appr!toCommandApprovalDecisions
<1>2. r.offers \in Appr!Offers /\ r.offered \in BOOLEAN /\ r.network \in BOOLEAN
  BY DEF Appr!Asked
<1>3. Appr!deriveFallbackCommandDecisions(s) # {}
  <2>1. "cancel" \in Appr!deriveFallbackCommandDecisions(s)
    BY <1>1, <1>2 DEF Appr!deriveFallbackCommandDecisions
  <2> QED
    BY <2>1
<1> HIDE DEF s
<1>4. CASE r.offered
  <2>1. s.kind = "command"
    <3>1. r.method = "item/commandExecution/requestApproval"
      BY <1>4
    <3>2. r.method \in Appr!CommandMethods /\ r.method \notin Appr!FileMethods
      BY <3>1 DEF Appr!CommandMethods, Appr!FileMethods
    <3> QED
      BY <1>1, <3>1, <3>2
  <2>2. s.offered <=> r.offers # {"odd"}
    BY <1>1, <1>2, <1>4 DEF Appr!Offers, Appr!Decisions, Appr!Plain, Appr!Legacy
  <2>3. Appr!Choices(s) = IF s.offered THEN s.offers ELSE Appr!deriveFallbackCommandDecisions(s)
    BY <2>1 DEF Appr!Choices, Appr!buildCommandDecisionOptions
  <2>4. s.offered => s.offers \subseteq r.offers /\ (s.offers = {} <=> r.offers = {})
    BY <1>1, <1>4
  <2> QED
    BY <1>3, <1>4, <2>2, <2>3, <2>4 DEF s
<1>5. CASE ~r.offered
  <2>1. ~s.offered
    BY <1>1, <1>5
  <2>2. s.kind \in {"command", "fileChange", "permissions", "userInput"}
    BY <1>1
  <2>3. Appr!Choices(s) # {}
    BY <1>3, <2>1, <2>2 DEF Appr!Choices, Appr!buildCommandDecisionOptions, Appr!Plain
  <2> QED
    BY <1>5, <2>3 DEF s
<1> QED
  BY <1>2, <1>4, <1>5

\* What the invariant of the approvals is for.
LEMMA ApprImplies == ApprInv => Appr!ApprTypeOK /\ Appr!AnswersAreUnderstood
<1> SUFFICES ASSUME ApprInv PROVE Appr!ApprTypeOK /\ Appr!AnswersAreUnderstood
  OBVIOUS
<1>1. Appr!ApprTypeOK
  BY ApprKind DEF ApprInv, RequestFollows, Appr!ApprTypeOK
<1>2. Appr!AnswersAreUnderstood
  BY ApprChoices DEF ApprInv, RequestFollows, RepliesFollow, Appr!AnswersAreUnderstood
<1> QED
  BY <1>1, <1>2

\* The invariant of the approvals holds at first.
LEMMA ApprBegins == Appr!ApprInit => ApprInv
  BY DEF Appr!ApprInit, ApprInv, RequestFollows, RepliesFollow

\* A reply is in the words of the method the request came by.
LEMMA ApprReplies ==
  ASSUME NEW r \in Appr!Asked, r.method = "item/commandExecution/requestApproval" \/ ~r.offered,
         apprMethod = r.method, NEW choice \in Appr!Choices(Appr!toPendingRequest(r))
  PROVE  LET reply == Appr!Reply(Appr!toPendingRequest(r), choice)
         IN  /\ reply.told = IF r.method \in Appr!Legacy THEN Appr!LegacyWord(choice) ELSE choice
             /\ reply.choice = choice
             /\ r.offered /\ r.offers # {"odd"} => choice \in r.offers
             /\ reply.answers = r.questions \ r.odd
<1> DEFINE s == Appr!toPendingRequest(r)
<1>1. /\ s.kind = CASE r.method \in Appr!CommandMethods -> "command"
              [] r.method \in Appr!FileMethods -> "fileChange"
              [] r.method = "item/permissions/requestApproval" -> "permissions"
              [] OTHER -> "userInput"
      /\ s.questions = r.questions \ r.odd
  BY DEF Appr!toPendingRequest
<1>2. r.method \in Appr!Methods
  BY DEF Appr!Asked
<1> HIDE DEF s
<1> DEFINE reply == Appr!Reply(s, choice)
<1>3. /\ reply.told = CASE s.kind = "command" -> Appr!toAppServerCommandDecision(choice)
              [] s.kind = "fileChange" -> Appr!toAppServerFileChangeDecision(choice)
              [] OTHER -> choice
      /\ reply.choice = choice /\ reply.answers = s.questions
  BY DEF Appr!Reply
<1> HIDE DEF reply
<1>4. reply.told = IF r.method \in Appr!Legacy THEN Appr!LegacyWord(choice) ELSE choice
  BY <1>1, <1>2, <1>3 DEF Appr!Methods, Appr!CommandMethods, Appr!FileMethods, Appr!Legacy,
     Appr!toAppServerCommandDecision, Appr!toAppServerFileChangeDecision
<1>5. r.offered /\ r.offers # {"odd"} => choice \in r.offers
  BY ApprChoices
<1> QED
  BY <1>1, <1>3, <1>4, <1>5 DEF s, reply

\* No step breaks the invariant of the approvals.
LEMMA ApprKeeps == ApprInv /\ [Appr!ApprNext]_apprVars => ApprInv'
<1> SUFFICES ASSUME ApprInv, [Appr!ApprNext]_apprVars PROVE ApprInv'
  OBVIOUS
<1> USE DEF ApprInv, RequestFollows, RepliesFollow
<1>1. ASSUME apprAsked = Appr!Nothing, NEW r \in Appr!Asked, Appr!Asks(r) PROVE ApprInv'
  <2>1. /\ apprAsked' = [kind |-> "asked", request |-> r] /\ apprAsked'.request = r
        /\ apprAsked'.kind = "asked" /\ r.method \in Appr!Methods
    BY <1>1 DEF Appr!Asks, Appr!Asked
  <2>2. apprAsked' # Appr!Nothing
    BY <2>1 DEF Appr!Nothing
  <2>3. r.method = "item/commandExecution/requestApproval" \/ ~r.offered
    BY <1>1 DEF Appr!Asks
  <2>4. /\ apprPending' = IF r.complete THEN Appr!toPendingRequest(r) ELSE Appr!Nothing
        /\ apprMethod' = IF r.complete THEN r.method ELSE apprMethod
        /\ apprShown' = Appr!Nothing /\ apprReplies' = {}
    BY <1>1 DEF Appr!Asks
  <2> QED
    BY <2>1, <2>2, <2>3, <2>4
<1>2. CASE Appr!Shows
  BY <1>2 DEF Appr!Shows
<1>3. CASE Appr!RequestResolved
  BY <1>3 DEF Appr!RequestResolved
<1>4. CASE Appr!ThreadClosed
  BY <1>4 DEF Appr!ThreadClosed
<1>5. ASSUME NEW choice, Appr!RespondToRequest(choice) PROVE ApprInv'
  <2>1. /\ apprAsked # Appr!Nothing /\ apprShown # Appr!Nothing /\ apprPending # Appr!Nothing
        /\ apprReplies' = apprReplies \cup {Appr!Reply(apprShown, choice)}
        /\ UNCHANGED <<apprAsked, apprPending, apprMethod, apprShown>>
        /\ choice \in Appr!Choices(apprShown)
    BY <1>5 DEF Appr!RespondToRequest
  <2> DEFINE r == apprAsked.request
  <2>2. /\ apprShown = Appr!toPendingRequest(r) /\ apprMethod = r.method /\ r \in Appr!Asked
        /\ r.method = "item/commandExecution/requestApproval" \/ ~r.offered
    BY <2>1
  <2> HIDE DEF r
  <2> DEFINE reply == Appr!Reply(apprShown, choice)
  <2>3. /\ reply.told = IF r.method \in Appr!Legacy THEN Appr!LegacyWord(choice) ELSE choice
        /\ reply.choice = choice
        /\ r.offered /\ r.offers # {"odd"} => choice \in r.offers
        /\ reply.answers = r.questions \ r.odd
    BY <2>1, <2>2, ApprReplies
  <2> HIDE DEF reply
  <2>4. RepliesFollow'
    BY <2>1, <2>3 DEF r, reply
  <2> QED
    BY <2>1, <2>4
<1>6. CASE UNCHANGED apprVars
  BY <1>6 DEF apprVars
<1> QED
  BY <1>1, <1>2, <1>3, <1>4, <1>5, <1>6 DEF Appr!ApprNext

-----------------------------------------------------------------------------
(* The scan of a rollout file (RolloutScan)                                *)

\* A set of numbers has a least member,
LEMMA Least ==
  ASSUME NEW T \in SUBSET Nat, T # {}
  PROVE  \E n \in T : \A m \in T : n <= m
<1> DEFINE R == OpToRel(<, Nat)
<1>1. IsWellFoundedOn(R, Nat)
  BY NatLessThanWellFounded
<1>2. \A m, n \in Nat : m < n => <<m, n>> \in R
  BY DEF OpToRel
<1> HIDE DEF R
<1>3. PICK n \in T : \A m \in T : ~ (<<m, n>> \in R)
  BY <1>1, WFMin
<1>4. ASSUME NEW m \in T PROVE n <= m
  <2>1. m \in Nat /\ n \in Nat /\ ~(m < n)
    BY <1>2, <1>3
  <2> QED
    BY <2>1
<1> QED
  BY <1>4

\* and a greatest one, when it is bounded.
LEMMA Greatest ==
  ASSUME NEW T \in SUBSET Nat, T # {}, NEW b \in Nat, \A m \in T : m <= b
  PROVE  \E n \in T : \A m \in T : m <= n
<1> DEFINE U == {b - m : m \in T}
<1>1. U \in SUBSET Nat /\ U # {}
  <2>1. \A m \in T : m \in Nat /\ b - m \in Nat
    OBVIOUS
  <2> QED
    BY <2>1
<1>2. PICK u \in U : \A v \in U : u <= v
  BY <1>1, Least
<1>3. PICK n \in T : u = b - n
  BY <1>2
<1>4. \A m \in T : b - n <= b - m
  BY <1>2, <1>3
<1>5. \A m \in T : m <= n
  BY <1>4
<1> QED
  BY <1>5

\* Every line is laid out from its first cell on, after a newline; its last cell
\* is followed by one, and the lines are in their order.
LaidOut ==
  /\ scanLines \in Seq(Scan!Kinds) /\ Len(scanLines) <= MaxLines
  /\ scanFile \in Seq(Scan!Cells)
  /\ \A p \in 1 .. Len(scanFile) :
       scanFile[p] = Scan!Newline \/ \E l \in 1 .. Len(scanLines), k \in 1 .. LineCells : scanFile[p] = <<l, k>>
  /\ \A p \in 1 .. Len(scanFile), l \in Nat, k \in 1 .. LineCells :
       scanFile[p] = <<l, k>> =>
         /\ k <= p
         /\ \A j \in 1 .. k : scanFile[p - k + j] = <<l, j>>
         /\ p # k => scanFile[p - k] = Scan!Newline
         /\ k = LineCells /\ p < Len(scanFile) => scanFile[p + 1] = Scan!Newline
  /\ \A p, q \in 1 .. Len(scanFile), l, m \in Nat, k, j \in 1 .. LineCells :
       p < q /\ scanFile[p] = <<l, k>> /\ scanFile[q] = <<m, j>> => l <= m /\ (l = m => k < j)

\* The last cell of a line of interest was there when the scan began.
LastCell(q, l) ==
  /\ q \in 1 .. scanReader.size /\ l \in 1 .. Len(scanLines)
  /\ scanFile[q] = <<l, LineCells>> /\ scanLines[l] # "other"

\* What trails is the beginning of a line, which the chunks still to read end
\* in, and no line of interest is behind it.
Unread == scanReader.position + Len(scanReader.trailing)

ScanReads ==
  scanReader.at = "reads" =>
    /\ scanReader.size <= Len(scanFile) /\ Unread <= scanReader.size
    /\ \A i \in 1 .. Len(scanReader.trailing) :
         /\ scanReader.trailing[i] = scanFile[scanReader.position + i]
         /\ scanReader.trailing[i] # Scan!Newline
    /\ \A q, l \in Nat : LastCell(q, l) => q <= Unread

ScanEnds ==
  scanReader.at = "ended" =>
    /\ scanReader.size <= Len(scanFile)
    /\ scanReader.found = 0 => \A q, l \in Nat : ~LastCell(q, l)
    /\ scanReader.found # 0 => /\ \E q \in Nat : LastCell(q, scanReader.found)
                               /\ \A q, l \in Nat : LastCell(q, l) => l <= scanReader.found

ScanInv ==
  /\ LaidOut
  /\ scanPlace \in {"sessions", "archived_sessions"}
  /\ scanReader \in [at : {"idle", "sessions", "archived_sessions", "reads", "ended", "missed"},
                     size : Nat, position : Nat, trailing : Seq(Scan!Cells), found : 0 .. MaxLines]
  /\ ScanReads /\ ScanEnds

\* The invariant of the scan holds at first.
LEMMA ScanBegins == Scan!ScanInit => ScanInv
<1> SUFFICES ASSUME Scan!ScanInit PROVE ScanInv
  OBVIOUS
<1>1. scanLines = <<>> /\ scanFile = <<>> /\ scanPlace = "sessions" /\ scanReader = Scan!Nowhere
  BY DEF Scan!ScanInit
<1>2. LaidOut
  BY <1>1, PartsAssumption DEF LaidOut
<1> QED
  BY <1>1, <1>2, PartsAssumption DEF ScanInv, ScanReads, ScanEnds, Scan!Nowhere

\* What the invariant of the scan is for.
LEMMA ScanImplies == ScanInv => Scan!ScanFindsLast /\ Scan!ScanTypeOK
<1> SUFFICES ASSUME ScanInv PROVE Scan!ScanFindsLast /\ Scan!ScanTypeOK
  OBVIOUS
<1>1. Scan!ScanTypeOK
  BY DEF ScanInv, LaidOut, Scan!ScanTypeOK
<1>2. ASSUME scanReader.at = "ended"
      PROVE  LET there == {l \in 1 .. Len(scanLines) :
                             /\ scanLines[l] # "other"
                             /\ \E k \in 1 .. scanReader.size : scanFile[k] = <<l, LineCells>>}
             IN  scanReader.found = IF there = {} THEN 0 ELSE CHOOSE l \in there : \A m \in there : m <= l
  <2> DEFINE there == {l \in 1 .. Len(scanLines) :
                             /\ scanLines[l] # "other"
                             /\ \E k \in 1 .. scanReader.size : scanFile[k] = <<l, LineCells>>}
  <2>0. scanReader.found \in Nat /\ scanReader.size \in Nat /\ Len(scanLines) \in Nat
    BY DEF ScanInv, LaidOut
  <2>1. \A l : l \in there <=> \E q \in Nat : LastCell(q, l)
    BY <2>0 DEF LastCell
  <2>2. CASE scanReader.found = 0
    <3>1. \A q, l \in Nat : ~LastCell(q, l)
      BY <1>2, <2>2 DEF ScanInv, ScanEnds
    <3>2. there \in SUBSET Nat
      BY <2>0
    <3> QED
      BY <2>1, <2>2, <3>1, <3>2
  <2>3. CASE scanReader.found # 0
    <3>1. scanReader.found \in there
      BY <1>2, <2>1, <2>3 DEF ScanInv, ScanEnds
    <3>2. ASSUME NEW l \in there PROVE l \in Nat /\ l <= scanReader.found
      <4>1. l \in Nat
        BY <2>0
      <4> HIDE DEF there
      <4>2. \E q \in Nat : LastCell(q, l)
        BY <2>1
      <4> QED
        BY <1>2, <2>3, <4>1, <4>2 DEF ScanInv, ScanEnds
    <3> HIDE DEF there
    <3>3. (CHOOSE l \in there : \A m \in there : m <= l) = scanReader.found
      <4> DEFINE c == CHOOSE l \in there : \A m \in there : m <= l
      <4>1. c \in there /\ \A m \in there : m <= c
        BY <3>1, <3>2
      <4> HIDE DEF c
      <4>2. c = scanReader.found
        BY <2>0, <3>1, <3>2, <4>1
      <4> QED
        BY <4>2 DEF c
    <3>4. scanReader.found = IF there = {} THEN 0 ELSE CHOOSE l \in there : \A m \in there : m <= l
      BY <3>1, <3>3
    <3> QED
      BY <3>4 DEF there
  <2> QED
    BY <2>2, <2>3
<1> QED
  BY <1>1, <1>2 DEF Scan!ScanFindsLast

\* The cells of a whole line of interest, and no others, are parsed.
LEMMA ScanParses ==
  ASSUME ScanInv, NEW cells
  PROVE  LET l == Scan!Parse(cells)
         IN  /\ l \in 0 .. Len(scanLines)
             /\ l # 0 => cells = Scan!Whole(l) /\ scanLines[l] # "other"
             /\ \A m \in 1 .. Len(scanLines) : cells = Scan!Whole(m) /\ scanLines[m] # "other" => l = m
<1> DEFINE lines == {l \in 1 .. Len(scanLines) : cells = Scan!Whole(l) /\ scanLines[l] # "other"}
<1>1. Scan!Parse(cells) = IF lines = {} THEN 0 ELSE CHOOSE l \in lines : TRUE
  BY DEF Scan!Parse
<1>2. \A l, m \in lines : l = m
  <2>1. ASSUME NEW l, NEW m, Scan!Whole(l) = Scan!Whole(m) PROVE l = m
    <3>1. 1 \in 1 .. LineCells
      BY PartsAssumption
    <3>2. Scan!Whole(l)[1] = <<l, 1>> /\ Scan!Whole(m)[1] = <<m, 1>>
      BY <3>1 DEF Scan!Whole
    <3> QED
      BY <2>1, <3>2
  <2> QED
    BY <2>1
<1>3. Len(scanLines) \in Nat
  BY DEF ScanInv, LaidOut
<1>4. lines # {} => Scan!Parse(cells) \in lines
  BY <1>1
<1>5. lines = {} => Scan!Parse(cells) = 0
  BY <1>1
<1> QED
  BY <1>2, <1>3, <1>4, <1>5

\* Appending to the file leaves what was there.
LEMMA FileGrows ==
  ASSUME ScanInv, NEW cell, scanFile' = Append(scanFile, cell),
         scanLines' = scanLines \/ \E kind \in Scan!Kinds : scanLines' = Append(scanLines, kind),
         scanReader' = scanReader, LaidOut'
  PROVE  ScanReads' /\ ScanEnds'
<1>1. /\ scanFile \in Seq(Scan!Cells) /\ Len(scanFile') = Len(scanFile) + 1 /\ Len(scanFile) \in Nat
      /\ \A p \in 1 .. Len(scanFile) : scanFile'[p] = scanFile[p]
  BY DEF ScanInv, LaidOut
<1>2. /\ Len(scanLines) \in Nat /\ Len(scanLines') \in Nat /\ Len(scanLines) <= Len(scanLines')
      /\ \A l \in 1 .. Len(scanLines) : scanLines'[l] = scanLines[l]
  <2>1. scanLines \in Seq(Scan!Kinds)
    BY DEF ScanInv, LaidOut
  <2>2. CASE scanLines' = scanLines
    BY <2>1, <2>2
  <2>3. ASSUME NEW kind \in Scan!Kinds, scanLines' = Append(scanLines, kind)
        PROVE  /\ Len(scanLines) \in Nat /\ Len(scanLines') \in Nat /\ Len(scanLines) <= Len(scanLines')
               /\ \A l \in 1 .. Len(scanLines) : scanLines'[l] = scanLines[l]
    BY <2>1, <2>3
  <2> QED
    BY <2>2, <2>3
<1>3. ASSUME scanReader.size <= Len(scanFile), NEW q \in Nat, NEW l \in Nat, LastCell(q, l)'
      PROVE  LastCell(q, l)
  <2>1. q \in 1 .. scanReader.size /\ scanReader.size \in Nat /\ q \in 1 .. Len(scanFile)
    BY <1>1, <1>3 DEF LastCell, ScanInv
  <2>2. scanFile[q] = <<l, LineCells>> /\ l \in 1 .. Len(scanLines') /\ scanLines'[l] # "other"
    BY <1>1, <1>3, <2>1 DEF LastCell
  <2>3. l \in 1 .. Len(scanLines)
    <3>1. scanFile[q] # Scan!Newline
      BY <2>2, <1>2 DEF Scan!Newline
    <3>2. PICK m \in 1 .. Len(scanLines), k \in 1 .. LineCells : scanFile[q] = <<m, k>>
      BY <2>1, <3>1 DEF ScanInv, LaidOut
    <3> QED
      BY <2>2, <3>2
  <2> QED
    BY <1>2, <2>1, <2>2, <2>3 DEF LastCell
<1>4. ASSUME scanReader.size <= Len(scanFile), NEW q \in Nat, NEW l \in Nat, LastCell(q, l)
      PROVE  LastCell(q, l)'
  BY <1>1, <1>2, <1>4 DEF LastCell, ScanInv
<1>5. ScanReads'
  <2> SUFFICES ASSUME scanReader.at = "reads" PROVE ScanReads'
    BY DEF ScanReads
  <2>1. /\ scanReader.size \in Nat /\ scanReader.position \in Nat /\ Len(scanReader.trailing) \in Nat
    BY DEF ScanInv
  <2>2. scanReader.size <= Len(scanFile) /\ Unread <= scanReader.size
    BY DEF ScanInv, ScanReads
  <2>3. \A i \in 1 .. Len(scanReader.trailing) : scanReader.position + i \in 1 .. Len(scanFile)
    BY <1>1, <2>1, <2>2 DEF Unread
  <2>4. Unread' = Unread
    BY DEF Unread
  <2> QED
    BY <1>1, <1>3, <2>1, <2>2, <2>3, <2>4 DEF ScanInv, ScanReads
<1>6. ScanEnds'
  <2> SUFFICES ASSUME scanReader.at = "ended" PROVE ScanEnds'
    BY DEF ScanEnds
  <2>1. scanReader.found \in Nat /\ scanReader.size \in Nat /\ scanReader.size <= Len(scanFile)
    BY DEF ScanInv, ScanEnds
  <2> QED
    BY <1>1, <1>3, <1>4, <2>1 DEF ScanInv, ScanEnds
<1> QED
  BY <1>5, <1>6

\* What the app-server writes behind the last cell: the next of the line, its
\* newline, or the first of a new line.
CellIsNext(cell) ==
         \/ /\ scanLines' = scanLines /\ scanFile # <<>>
            /\ \E l \in 1 .. Len(scanLines), k \in 1 .. LineCells :
                 /\ scanFile[Len(scanFile)] = <<l, k>>
                 /\ cell = IF k = LineCells THEN Scan!Newline ELSE <<l, k + 1>>
         \/ /\ \E kind \in Scan!Kinds : scanLines' = Append(scanLines, kind)
            /\ Len(scanLines) < MaxLines
            /\ scanFile = <<>> \/ scanFile[Len(scanFile)] = Scan!Newline
            /\ cell = <<Len(scanLines) + 1, 1>>

\* A cell is written behind the last.
LEMMA CellIsLaid ==
  ASSUME LaidOut, NEW cell, scanFile' = Append(scanFile, cell), CellIsNext(cell)
  PROVE  LaidOut'
<1> DEFINE n == Len(scanFile)
<1>0. LineCells \in Nat \ {0} /\ MaxLines \in Nat /\ Len(scanLines) \in Nat /\ Len(scanLines) <= MaxLines
  BY PartsAssumption DEF LaidOut
<1>1. /\ scanLines' \in Seq(Scan!Kinds) /\ Len(scanLines') <= MaxLines
      /\ Len(scanLines') \in Nat /\ Len(scanLines) <= Len(scanLines')
  <2>1. scanLines \in Seq(Scan!Kinds)
    BY DEF LaidOut
  <2>2. ASSUME NEW kind \in Scan!Kinds, scanLines' = Append(scanLines, kind), Len(scanLines) < MaxLines
        PROVE  /\ scanLines' \in Seq(Scan!Kinds) /\ Len(scanLines') = Len(scanLines) + 1
    BY <2>1, <2>2
  <2> QED
    BY <1>0, <2>1, <2>2 DEF CellIsNext
<1>2. /\ n \in Nat /\ Len(scanFile') = n + 1 /\ scanFile'[n + 1] = cell
      /\ \A p \in 1 .. n : scanFile'[p] = scanFile[p]
      /\ scanFile \in Seq(Scan!Cells)
  BY DEF LaidOut
<1>3. \/ cell = Scan!Newline
      \/ \E l \in 1 .. Len(scanLines'), k \in 1 .. LineCells : cell = <<l, k>>
  <2>1. ASSUME scanLines' = scanLines, NEW l \in 1 .. Len(scanLines), NEW k \in 1 .. LineCells,
               cell = IF k = LineCells THEN Scan!Newline ELSE <<l, k + 1>>
        PROVE  cell = Scan!Newline \/ (cell = <<l, k + 1>> /\ l \in 1 .. Len(scanLines') /\ k + 1 \in 1 .. LineCells)
    BY <1>0, <2>1
  <2>2. ASSUME NEW kind \in Scan!Kinds, scanLines' = Append(scanLines, kind), cell = <<Len(scanLines) + 1, 1>>
        PROVE  cell = <<Len(scanLines'), 1>> /\ Len(scanLines') \in 1 .. Len(scanLines') /\ 1 \in 1 .. LineCells
    <3>1. Len(scanLines') = Len(scanLines) + 1
      BY <2>2 DEF LaidOut
    <3> QED
      BY <1>0, <2>2, <3>1
  <2> QED
    BY <1>0, <2>1, <2>2 DEF CellIsNext
<1>4. scanFile' \in Seq(Scan!Cells)
  <2>1. cell \in Scan!Cells
    BY <1>0, <1>1, <1>3 DEF Scan!Cells
  <2> QED
    BY <1>2, <2>1
<1>5. \A p \in 1 .. Len(scanFile') :
        scanFile'[p] = Scan!Newline \/ \E l \in 1 .. Len(scanLines'), k \in 1 .. LineCells : scanFile'[p] = <<l, k>>
  <2>1. ASSUME NEW p \in 1 .. n
        PROVE  scanFile'[p] = Scan!Newline \/ \E l \in 1 .. Len(scanLines'), k \in 1 .. LineCells : scanFile'[p] = <<l, k>>
    <3>1. scanFile[p] = Scan!Newline \/ \E l \in 1 .. Len(scanLines), k \in 1 .. LineCells : scanFile[p] = <<l, k>>
      BY DEF LaidOut
    <3>2. \A l \in 1 .. Len(scanLines) : l \in 1 .. Len(scanLines')
      BY <1>0, <1>1
    <3> QED
      BY <1>2, <3>1, <3>2
  <2> QED
    BY <1>2, <1>3, <2>1
<1>n. \A l \in Nat, k \in 1 .. LineCells : <<l, k>> # Scan!Newline
  BY <1>0 DEF Scan!Newline
\* how the cell follows the last
<1>6. ASSUME NEW l \in Nat, NEW k \in 1 .. LineCells, cell = <<l, k>>
      PROVE  /\ k = 1 => n = 0 \/ scanFile[n] = Scan!Newline
             /\ k > 1 => n > 0 /\ scanFile[n] = <<l, k - 1>>
             /\ k = 1 => l = Len(scanLines) + 1
  <2>1. ASSUME NEW m \in 1 .. Len(scanLines), NEW j \in 1 .. LineCells,
               scanFile # <<>>, scanFile[n] = <<m, j>>,
               cell = IF j = LineCells THEN Scan!Newline ELSE <<m, j + 1>>
        PROVE  k > 1 /\ n > 0 /\ scanFile[n] = <<l, k - 1>>
    <3>1. cell = <<m, j + 1>>
      BY <1>6, <1>n, <2>1
    <3>2. m = l /\ j + 1 = k
      BY <1>6, <3>1
    <3> QED
      BY <1>0, <1>2, <2>1, <3>2
  <2>2. ASSUME scanFile = <<>> \/ scanFile[n] = Scan!Newline, cell = <<Len(scanLines) + 1, 1>>
        PROVE  k = 1 /\ l = Len(scanLines) + 1 /\ (n = 0 \/ scanFile[n] = Scan!Newline)
    BY <1>6, <2>2
  <2> QED
    BY <2>1, <2>2 DEF CellIsNext
<1>7. ASSUME NEW l \in Nat, NEW k \in 1 .. LineCells, n > 0, scanFile[n] = <<l, k>>, k = LineCells
      PROVE  cell = Scan!Newline
  <2>1. ASSUME NEW m \in 1 .. Len(scanLines), NEW j \in 1 .. LineCells,
               scanFile[n] = <<m, j>>, cell = IF j = LineCells THEN Scan!Newline ELSE <<m, j + 1>>
        PROVE  cell = Scan!Newline
    BY <1>7, <2>1
  <2>2. scanFile # <<>> /\ scanFile[n] # Scan!Newline
    BY <1>7, <1>n
  <2> QED
    BY <2>1, <2>2 DEF CellIsNext
<1> DEFINE Layout(p, l, k) == /\ k <= p
                              /\ \A j \in 1 .. k : scanFile[p - k + j] = <<l, j>>
                              /\ p # k => scanFile[p - k] = Scan!Newline
                              /\ k = LineCells /\ p < n => scanFile[p + 1] = Scan!Newline
<1>8. \A p \in 1 .. n, l \in Nat, k \in 1 .. LineCells : scanFile[p] = <<l, k>> => Layout(p, l, k)
  BY DEF LaidOut
<1> DEFINE Order(p, q, l, m, k, j) == p < q /\ scanFile[p] = <<l, k>> /\ scanFile[q] = <<m, j>> => l <= m /\ (l = m => k < j)
<1>9. \A p, q \in 1 .. n, l, m \in Nat, k, j \in 1 .. LineCells : Order(p, q, l, m, k, j)
  BY DEF LaidOut
<1>h. n = Len(scanFile)
  OBVIOUS
<1> DEFINE Laid(p, l, k) == /\ k <= p
                            /\ \A j \in 1 .. k : scanFile'[p - k + j] = <<l, j>>
                            /\ p # k => scanFile'[p - k] = Scan!Newline
                            /\ k = LineCells /\ p < Len(scanFile') => scanFile'[p + 1] = Scan!Newline
<1> DEFINE Precedes(p, q, l, m, k, j) ==
             p < q /\ scanFile'[p] = <<l, k>> /\ scanFile'[q] = <<m, j>> => l <= m /\ (l = m => k < j)
<1> HIDE DEF n, Order, Laid, Precedes
<1>10. ASSUME NEW p \in 1 .. Len(scanFile'), NEW l \in Nat, NEW k \in 1 .. LineCells, scanFile'[p] = <<l, k>>
       PROVE  Laid(p, l, k)
  <2>0. k \in Nat /\ k >= 1 /\ p \in Nat
    BY <1>0, <1>2
  <2>1. CASE p \in 1 .. n
    <3>1. Layout(p, l, k)
      BY <1>2, <1>8, <1>10, <2>1
    <3>2. \A j \in 1 .. k : p - k + j \in 1 .. n /\ scanFile'[p - k + j] = scanFile[p - k + j]
      BY <1>2, <2>0, <2>1, <3>1
    <3>3. p # k => p - k \in 1 .. n /\ scanFile'[p - k] = scanFile[p - k]
      BY <1>2, <2>0, <2>1, <3>1
    <3>4. k = LineCells => scanFile'[p + 1] = Scan!Newline
      <4>1. CASE p < n
        BY <1>2, <2>1, <3>1, <4>1
      <4>2. CASE p = n
        BY <1>2, <1>7, <1>10, <2>1, <4>2
      <4> QED
        BY <1>2, <2>1, <4>1, <4>2
    <3> QED
      BY <3>1, <3>2, <3>3, <3>4 DEF Laid
  <2>2. CASE p = n + 1
    <3>1. cell = <<l, k>>
      BY <1>2, <1>10, <2>2
    <3>2. CASE k = 1
      <4>1. n = 0 \/ scanFile[n] = Scan!Newline
        BY <1>6, <3>1, <3>2
      <4>2. \A j \in 1 .. k : j = 1 /\ p - k + j = n + 1
        BY <1>2, <2>2, <3>2
      <4>3. p # k => p - k \in 1 .. n /\ p - k = n
        BY <1>2, <2>2, <3>2
      <4>4. ~(p < Len(scanFile'))
        BY <1>2, <2>2
      <4> QED
        BY <1>2, <1>10, <2>0, <2>2, <3>1, <3>2, <4>1, <4>2, <4>3, <4>4 DEF Laid
    <3>3. CASE k > 1
      <4>1. n > 0 /\ scanFile[n] = <<l, k - 1>>
        BY <1>6, <3>1, <3>3
      <4>2. k - 1 \in 1 .. LineCells /\ n \in 1 .. n
        BY <1>0, <1>2, <2>0, <3>3, <4>1
      <4>3. Layout(n, l, k - 1)
        BY <1>8, <4>1, <4>2
      <4>4. \A j \in 1 .. k - 1 : n - (k - 1) + j = p - k + j /\ p - k + j \in 1 .. n
        BY <1>2, <2>0, <2>2, <4>3
      <4>5. \A j \in 1 .. k - 1 : scanFile'[p - k + j] = <<l, j>>
        BY <1>2, <4>3, <4>4
      <4>6. \A j \in 1 .. k : j \in 1 .. k - 1 \/ (j = k /\ p - k + j = n + 1)
        BY <1>2, <2>0, <2>2
      <4>7. p - k = n - (k - 1) /\ (p # k => n # k - 1 /\ p - k \in 1 .. n)
        BY <1>2, <2>0, <2>2, <4>3
      <4>8. ~(p < Len(scanFile')) /\ k <= p
        BY <1>2, <2>0, <2>2, <4>3
      <4> QED
        BY <1>2, <3>1, <4>3, <4>5, <4>6, <4>7, <4>8 DEF Laid
    <3> QED
      BY <2>0, <3>2, <3>3
  <2> QED
    BY <1>2, <2>1, <2>2
<1>11. ASSUME NEW p \in 1 .. Len(scanFile'), NEW q \in 1 .. Len(scanFile'), NEW l \in Nat, NEW m \in Nat,
              NEW k \in 1 .. LineCells, NEW j \in 1 .. LineCells
       PROVE  Precedes(p, q, l, m, k, j)
  <2> SUFFICES ASSUME p < q, scanFile'[p] = <<l, k>>, scanFile'[q] = <<m, j>> PROVE l <= m /\ (l = m => k < j)
    BY DEF Precedes
  <2>0. p \in 1 .. n /\ scanFile[p] = <<l, k>>
    BY <1>2
  <2>1. CASE q \in 1 .. n
    <3>1. scanFile[q] = <<m, j>>
      BY <1>2, <2>1
    <3>2. Order(p, q, l, m, k, j)
      BY <1>9, <2>0, <2>1
    <3> QED
      BY <2>0, <3>1, <3>2 DEF Order
  <2>2. CASE q = n + 1
    <3>1. cell = <<m, j>>
      BY <1>2, <2>2
    <3>2. CASE j = 1
      <4>1. m = Len(scanLines) + 1
        BY <1>6, <3>1, <3>2
      <4>2. scanFile[p] # Scan!Newline
        BY <1>n, <2>0
      <4>3. PICK a \in 1 .. Len(scanLines), b \in 1 .. LineCells : scanFile[p] = <<a, b>>
        BY <1>h, <2>0, <4>2 DEF LaidOut
      <4>4. l = a
        BY <2>0, <4>3
      <4> QED
        BY <1>0, <4>1, <4>4
    <3>3. CASE j > 1
      <4>1. n > 0 /\ scanFile[n] = <<m, j - 1>>
        BY <1>6, <3>1, <3>3
      <4>2. j - 1 \in 1 .. LineCells /\ n \in 1 .. n
        BY <1>0, <1>2, <3>3, <4>1
      <4>3. CASE p = n
        <5>1. l = m /\ k = j - 1
          BY <2>0, <4>1, <4>3
        <5> QED
          BY <1>0, <5>1
      <4>4. CASE p < n
        <5>1. Order(p, n, l, m, k, j - 1)
          BY <1>9, <2>0, <4>2
        <5>2. l <= m /\ (l = m => k < j - 1)
          BY <2>0, <4>1, <4>4, <5>1 DEF Order
        <5> QED
          BY <1>0, <5>2
      <4> QED
        BY <1>2, <2>0, <4>3, <4>4
    <3> QED
      BY <1>0, <3>2, <3>3
  <2> QED
    BY <1>2, <2>1, <2>2
<1>12. \A p \in 1 .. Len(scanFile'), l \in Nat, k \in 1 .. LineCells : scanFile'[p] = <<l, k>> => Laid(p, l, k)
  BY <1>10
<1>13. \A p, q \in 1 .. Len(scanFile'), l, m \in Nat, k, j \in 1 .. LineCells : Precedes(p, q, l, m, k, j)
  BY <1>11
<1> QED
  BY <1>1, <1>4, <1>5, <1>12, <1>13 DEF LaidOut, Laid, Precedes

\* A line of some cells ends where the next newline or the last cell is.
LEMMA LineFromEnds ==
  ASSUME NEW c \in Seq(Scan!Cells), NEW k \in 1 .. Len(c)
  PROVE  \E end \in k + 1 .. Len(c) + 1 :
           /\ Scan!LineFrom(c, k) = SubSeq(c, k + 1, end - 1)
           /\ end <= Len(c) => c[end] = Scan!Newline
           /\ \A j \in k + 1 .. end - 1 : c[j] # Scan!Newline
<1> DEFINE later == {j \in Scan!Newlines(c) : j > k}
<1> DEFINE end == IF later = {} THEN Len(c) + 1 ELSE CHOOSE j \in later : \A i \in later : j <= i
<1>0. Len(c) \in Nat /\ DOMAIN c = 1 .. Len(c)
  OBVIOUS
<1>1. Scan!LineFrom(c, k) = SubSeq(c, k + 1, end - 1)
  BY DEF Scan!LineFrom
<1>2. \A j : j \in later <=> j \in k + 1 .. Len(c) /\ c[j] = Scan!Newline
  BY <1>0 DEF Scan!Newlines
<1> HIDE DEF later
<1>3. CASE later = {}
  <2>1. end = Len(c) + 1
    BY <1>3
  <2>2. \A j \in k + 1 .. end - 1 : c[j] # Scan!Newline
    BY <1>0, <1>2, <1>3, <2>1
  <2> HIDE DEF end
  <2> QED
    BY <1>0, <1>1, <2>1, <2>2
<1>4. CASE later # {}
  <2>1. later \in SUBSET Nat
    BY <1>0, <1>2
  <2>2. end \in later /\ \A i \in later : end <= i
    <3>1. \E j \in later : \A i \in later : j <= i
      BY <1>4, <2>1, Least
    <3> QED
      BY <1>4, <3>1
  <2> HIDE DEF end
  <2>3. end \in k + 1 .. Len(c) /\ c[end] = Scan!Newline /\ end \in Nat
    BY <1>0, <1>2, <2>2
  <2>4. ASSUME NEW j \in k + 1 .. end - 1 PROVE c[j] # Scan!Newline
    <3>1. j \in k + 1 .. Len(c) /\ ~(end <= j)
      BY <1>0, <2>3
    <3> QED
      BY <1>2, <2>2, <3>1
  <2> QED
    BY <1>0, <1>1, <2>3, <2>4
<1> QED
  BY <1>3, <1>4

\* Cells that were read: those of the file from a place on.
ReadAt(c, base) ==
  /\ c \in Seq(Scan!Cells) /\ base \in Nat
  /\ base + Len(c) <= scanReader.size /\ scanReader.size <= Len(scanFile)
  /\ \A i \in 1 .. Len(c) : c[i] = scanFile[base + i]

\* What is parsed of them ends in the last cell of a line of interest,
LEMMA ParsedIsThere ==
  ASSUME ScanInv, NEW c, NEW base, ReadAt(c, base), NEW k \in Scan!Newlines(c),
         NEW l, l = Scan!Parse(Scan!LineFrom(c, k)), l # 0
  PROVE  k + LineCells <= Len(c) /\ LastCell(base + k + LineCells, l)
<1>0. /\ LineCells \in Nat \ {0} /\ c \in Seq(Scan!Cells) /\ base \in Nat /\ Len(c) \in Nat
      /\ scanReader.size \in Nat /\ Len(scanLines) \in Nat
  BY PartsAssumption DEF ReadAt, ScanInv, LaidOut
<1>1. k \in 1 .. Len(c)
  BY <1>0 DEF Scan!Newlines
<1>2. PICK end \in k + 1 .. Len(c) + 1 : Scan!LineFrom(c, k) = SubSeq(c, k + 1, end - 1)
  BY <1>0, <1>1, LineFromEnds
<1>3. l \in 1 .. Len(scanLines) /\ Scan!LineFrom(c, k) = Scan!Whole(l) /\ scanLines[l] # "other"
  <2>1. l \in 0 .. Len(scanLines) /\ Scan!LineFrom(c, k) = Scan!Whole(l) /\ scanLines[l] # "other"
    BY ScanParses
  <2> QED
    BY <1>0, <2>1
<1>4. SubSeq(c, k + 1, end - 1) = [i \in 1 .. LineCells |-> <<l, i>>]
  BY <1>2, <1>3 DEF Scan!Whole
<1>5. DOMAIN SubSeq(c, k + 1, end - 1) = 1 .. end - 1 - k
  BY <1>0, <1>1
<1>6. end - 1 - k = LineCells
  <2>1. 1 .. end - 1 - k = 1 .. LineCells
    BY <1>4, <1>5
  <2> QED
    BY <1>0, <1>1, <2>1
<1>7. SubSeq(c, k + 1, end - 1)[LineCells] = c[k + LineCells]
  BY <1>0, <1>1, <1>6
<1>8. c[k + LineCells] = <<l, LineCells>>
  <2>1. LineCells \in 1 .. LineCells
    BY <1>0
  <2>2. [i \in 1 .. LineCells |-> <<l, i>>][LineCells] = <<l, LineCells>>
    BY <2>1
  <2> QED
    BY <1>4, <1>7, <2>2
<1>9. k + LineCells \in 1 .. Len(c)
  BY <1>0, <1>1, <1>6
<1>10. scanFile[base + k + LineCells] = <<l, LineCells>>
  <2>1. c[k + LineCells] = scanFile[base + (k + LineCells)] /\ base + (k + LineCells) = base + k + LineCells
    BY <1>0, <1>1, <1>9 DEF ReadAt
  <2> QED
    BY <1>8, <2>1
<1>11. base + k + LineCells \in 1 .. scanReader.size
  BY <1>0, <1>1, <1>9 DEF ReadAt
<1>12. LastCell(base + k + LineCells, l)
  BY <1>3, <1>10, <1>11 DEF LastCell
<1>13. k + LineCells <= Len(c)
  BY <1>0, <1>1, <1>9
<1> QED
  BY <1>12, <1>13

\* and every line of interest that begins behind a newline of them is parsed.
LEMMA ThereIsParsed ==
  ASSUME ScanInv, NEW c, NEW base, ReadAt(c, base), NEW q \in Nat, NEW l \in Nat, LastCell(q, l),
         q <= base + Len(c), base < q - LineCells
  PROVE  LET k == q - LineCells - base
         IN  k \in Scan!Newlines(c) /\ Scan!Parse(Scan!LineFrom(c, k)) = l
<1> DEFINE k == q - LineCells - base
<1>0. /\ LineCells \in Nat \ {0} /\ c \in Seq(Scan!Cells) /\ base \in Nat /\ Len(c) \in Nat
      /\ scanReader.size \in Nat /\ Len(scanLines) \in Nat /\ scanFile \in Seq(Scan!Cells) /\ Len(scanFile) \in Nat
      /\ scanReader.size <= Len(scanFile) /\ base + Len(c) <= scanReader.size
  BY PartsAssumption DEF ReadAt, ScanInv, LaidOut
<1>k. k = q - LineCells - base
  OBVIOUS
<1> HIDE DEF k
<1>1. /\ q \in 1 .. Len(scanFile) /\ l \in 1 .. Len(scanLines)
      /\ scanFile[q] = <<l, LineCells>> /\ scanLines[l] # "other"
  BY <1>0 DEF LastCell
<1>2. k \in 1 .. Len(c) /\ k + LineCells <= Len(c) /\ q = base + (k + LineCells)
  BY <1>0, <1>k, <1>1
<1>3. /\ \A j \in 1 .. LineCells : scanFile[q - LineCells + j] = <<l, j>>
      /\ scanFile[q - LineCells] = Scan!Newline
      /\ q < Len(scanFile) => scanFile[q + 1] = Scan!Newline
  <2>1. LineCells \in 1 .. LineCells /\ q # LineCells
    BY <1>0, <1>1
  <2>2. \A p \in 1 .. Len(scanFile), m \in Nat, j \in 1 .. LineCells :
          scanFile[p] = <<m, j>> =>
            /\ j <= p
            /\ \A i \in 1 .. j : scanFile[p - j + i] = <<m, i>>
            /\ p # j => scanFile[p - j] = Scan!Newline
            /\ j = LineCells /\ p < Len(scanFile) => scanFile[p + 1] = Scan!Newline
    <3>1. LaidOut
      BY DEF ScanInv
    <3> QED
      BY <3>1 DEF LaidOut
  <2> QED
    BY <1>1, <2>1, <2>2
<1>4. /\ \A j \in 1 .. LineCells : c[k + j] = <<l, j>>
      /\ c[k] = Scan!Newline
      /\ k + LineCells < Len(c) => c[k + LineCells + 1] = Scan!Newline
  <2>1. \A j \in 1 .. LineCells : k + j \in 1 .. Len(c) /\ base + (k + j) = q - LineCells + j
    BY <1>0, <1>2
  <2>2. base + k = q - LineCells
    BY <1>0, <1>2
  <2>3. k + LineCells < Len(c) =>
          k + LineCells + 1 \in 1 .. Len(c) /\ base + (k + LineCells + 1) = q + 1 /\ q < Len(scanFile)
    BY <1>0, <1>2
  <2>4. \A i \in 1 .. Len(c) : c[i] = scanFile[base + i]
    BY DEF ReadAt
  <2> QED
    BY <1>2, <1>3, <2>1, <2>2, <2>3, <2>4
<1>5. k \in Scan!Newlines(c)
  BY <1>0, <1>2, <1>4 DEF Scan!Newlines
<1>6. PICK end \in k + 1 .. Len(c) + 1 :
        /\ Scan!LineFrom(c, k) = SubSeq(c, k + 1, end - 1)
        /\ end <= Len(c) => c[end] = Scan!Newline
        /\ \A j \in k + 1 .. end - 1 : c[j] # Scan!Newline
  BY <1>0, <1>2, LineFromEnds
<1>7. end = k + LineCells + 1
  <2>1. end \in Nat
    BY <1>0, <1>2
  <2>2. ~(end < k + LineCells + 1)
    <3> SUFFICES ASSUME end < k + LineCells + 1 PROVE FALSE
      OBVIOUS
    <3> DEFINE j == end - k
    <3>1. j \in 1 .. LineCells /\ k + j = end /\ end <= Len(c)
      BY <1>0, <1>2, <2>1
    <3>2. c[end] = <<l, j>>
      BY <1>4, <3>1
    <3>3. <<l, j>> # Scan!Newline
      BY <1>0, <1>1 DEF Scan!Newline
    <3> QED
      BY <1>6, <3>1, <3>2, <3>3
  <2>3. ~(end > k + LineCells + 1)
    <3> SUFFICES ASSUME end > k + LineCells + 1 PROVE FALSE
      OBVIOUS
    <3>1. k + LineCells < Len(c) /\ k + LineCells + 1 \in k + 1 .. end - 1
      BY <1>0, <1>2, <2>1
    <3> QED
      BY <1>4, <1>6, <3>1
  <2> QED
    BY <1>0, <1>2, <2>1, <2>2, <2>3
<1>8. Scan!LineFrom(c, k) = SubSeq(c, k + 1, k + LineCells)
  <2>1. end - 1 = k + LineCells
    BY <1>0, <1>2, <1>7
  <2> QED
    BY <1>6, <2>1
<1>9. SubSeq(c, k + 1, k + LineCells) = [i \in 1 .. LineCells |-> <<l, i>>]
  <2>1. SubSeq(c, k + 1, k + LineCells) = [i \in 1 .. LineCells |-> c[k + i]]
    <3>1. k + 1 \in Nat /\ k + LineCells \in Nat
      BY <1>0, <1>2
    <3>2. SubSeq(c, k + 1, k + LineCells) = [i \in 1 .. (1 + (k + LineCells) - (k + 1)) |-> c[i + (k + 1) - 1]]
      BY <1>0, <1>2, <3>1
    <3>3. 1 + (k + LineCells) - (k + 1) = LineCells /\ \A i \in 1 .. LineCells : i + (k + 1) - 1 = k + i
      BY <1>0, <1>2
    <3> QED
      BY <3>2, <3>3
  <2> QED
    BY <1>4, <2>1
<1>10. Scan!LineFrom(c, k) = Scan!Whole(l)
  BY <1>8, <1>9 DEF Scan!Whole
<1>11. Scan!Parse(Scan!LineFrom(c, k)) = l
  BY <1>1, <1>10, ScanParses
<1> QED
  BY <1>5, <1>11 DEF k

\* The chunk with what trails is the file from the place on where the chunk begins.
LEMMA CombinedIsRead ==
  ASSUME ScanInv, scanReader.at = "reads"
  PROVE  LET base == IF scanReader.position > ChunkSize THEN scanReader.position - ChunkSize ELSE 0
         IN  /\ ReadAt(Scan!Combined(scanReader), base)
             /\ base + Len(Scan!Combined(scanReader)) = Unread
<1> DEFINE base == IF scanReader.position > ChunkSize THEN scanReader.position - ChunkSize ELSE 0
<1> DEFINE p == scanReader.position
<1> DEFINE t == scanReader.trailing
<1> DEFINE chunk == Scan!Chunk(scanReader)
<1>0. /\ ChunkSize \in Nat /\ p \in Nat /\ t \in Seq(Scan!Cells) /\ Len(t) \in Nat /\ scanReader.size \in Nat
      /\ scanFile \in Seq(Scan!Cells) /\ Len(scanFile) \in Nat
      /\ scanReader.size <= Len(scanFile) /\ p + Len(t) <= scanReader.size
      /\ \A i \in 1 .. Len(t) : t[i] = scanFile[p + i]
  BY PartsAssumption DEF ScanInv, LaidOut, ScanReads, Unread
<1>1. base \in Nat /\ base <= p
  BY <1>0
<1>2. chunk = SubSeq(scanFile, 1 + base, p)
  BY DEF Scan!Chunk
<1>u. Unread = p + Len(t)
  BY DEF Unread
<1>c. Scan!Combined(scanReader) = chunk \o t
  BY DEF Scan!Combined
<1> HIDE DEF base, p, t, chunk
<1>3. /\ chunk \in Seq(Scan!Cells) /\ Len(chunk) = p - base
      /\ \A i \in 1 .. p - base : chunk[i] = scanFile[base + i]
  <2>1. \A i \in 1 + base .. p : i \in 1 .. Len(scanFile)
    BY <1>0, <1>1
  <2>2. \A i \in 1 .. p - base : i + (1 + base) - 1 = base + i
    BY <1>0, <1>1
  <2>3. /\ SubSeq(scanFile, 1 + base, p) \in Seq(Scan!Cells)
        /\ Len(SubSeq(scanFile, 1 + base, p)) = p - base
        /\ \A i \in 1 .. p - base : SubSeq(scanFile, 1 + base, p)[i] = scanFile[i + (1 + base) - 1]
    BY <1>0, <1>1, <2>1
  <2> QED
    BY <1>2, <2>2, <2>3
<1> DEFINE c == chunk \o t
<1>4. /\ c \in Seq(Scan!Cells) /\ Len(c) = p - base + Len(t)
      /\ \A i \in 1 .. p - base : c[i] = chunk[i]
      /\ \A i \in p - base + 1 .. p - base + Len(t) : c[i] = t[i - (p - base)]
  <2>1. c \in Seq(Scan!Cells)
    BY <1>0, <1>3
  <2>s. chunk \in Seq(Scan!Cells) /\ t \in Seq(Scan!Cells)
    BY <1>0, <1>3
  <2>2. Len(c) = Len(chunk) + Len(t)
    BY <2>s
  <2>3. \A i \in 1 .. Len(chunk) + Len(t) : c[i] = IF i <= Len(chunk) THEN chunk[i] ELSE t[i - Len(chunk)]
    BY <2>s
  <2> HIDE DEF c
  <2>4. Len(chunk) = p - base /\ p - base \in Nat
    BY <1>0, <1>1, <1>3
  <2>5. Len(c) = p - base + Len(t)
    BY <2>2, <2>4
  <2>6. ASSUME NEW i \in 1 .. p - base PROVE c[i] = chunk[i]
    <3>1. i \in 1 .. Len(chunk) + Len(t) /\ i <= Len(chunk)
      BY <1>0, <2>4
    <3> QED
      BY <2>3, <3>1
  <2>7. \A i \in p - base + 1 .. p - base + Len(t) : c[i] = t[i - (p - base)]
    BY <1>0, <2>3, <2>4
  <2> QED
    BY <2>1, <2>5, <2>6, <2>7
<1> HIDE DEF c
<1>5. ASSUME NEW i \in 1 .. Len(c) PROVE c[i] = scanFile[base + i]
  <2>1. CASE i <= p - base
    BY <1>0, <1>1, <1>3, <1>4, <2>1
  <2>2. CASE i > p - base
    <3>1. i \in p - base + 1 .. p - base + Len(t) /\ i - (p - base) \in 1 .. Len(t)
      BY <1>0, <1>1, <1>4, <2>2
    <3>2. p + (i - (p - base)) = base + i
      BY <1>0, <1>1, <3>1
    <3> QED
      BY <1>0, <1>4, <3>1, <3>2
  <2> QED
    BY <1>0, <1>1, <1>4, <2>1, <2>2
<1>6. base + Len(c) = Unread
  BY <1>0, <1>1, <1>4, <1>u
<1>7. ReadAt(c, base)
  BY <1>0, <1>1, <1>4, <1>5, <1>6, <1>u DEF ReadAt
<1> QED
  BY <1>6, <1>7, <1>c DEF base, c, p

\* A line of interest that lies behind the last newline of the cells, or before,
LEMMA HitIsLast ==
  ASSUME ScanInv, NEW c, NEW base, ReadAt(c, base), \A q, l \in Nat : LastCell(q, l) => q <= base + Len(c),
         NEW last \in Scan!Newlines(c), Scan!Parse(Scan!LineFrom(c, last)) # 0,
         \A k \in Scan!Newlines(c) : Scan!Parse(Scan!LineFrom(c, k)) # 0 => k <= last
  PROVE  LET found == Scan!Parse(Scan!LineFrom(c, last))
         IN  /\ found \in 1 .. Len(scanLines)
             /\ \E q \in Nat : LastCell(q, found)
             /\ \A q, l \in Nat : LastCell(q, l) => l <= found
<1> DEFINE found == Scan!Parse(Scan!LineFrom(c, last))
<1>f. found = Scan!Parse(Scan!LineFrom(c, last)) /\ found # 0
  OBVIOUS
<1> HIDE DEF found
<1>0. /\ LineCells \in Nat \ {0} /\ base \in Nat /\ Len(c) \in Nat /\ DOMAIN c = 1 .. Len(c)
      /\ scanReader.size \in Nat /\ Len(scanLines) \in Nat /\ Len(scanFile) \in Nat
      /\ scanReader.size <= Len(scanFile) /\ base + Len(c) <= scanReader.size
  BY PartsAssumption DEF ReadAt, ScanInv, LaidOut
<1>1. last \in 1 .. Len(c)
  BY <1>0 DEF Scan!Newlines
<1> DEFINE p == base + last + LineCells
<1>2. last + LineCells <= Len(c) /\ LastCell(p, found)
  BY <1>f, ParsedIsThere
<1>3. p \in Nat
  BY <1>0, <1>1
<1>p. p = base + last + LineCells
  OBVIOUS
<1> HIDE DEF p
<1>4. /\ found \in 1 .. Len(scanLines) /\ p \in 1 .. scanReader.size
      /\ scanFile[p] = <<found, LineCells>>
  BY <1>2 DEF LastCell
<1>5. ASSUME NEW q \in Nat, NEW l \in Nat, LastCell(q, l) PROVE l <= found
  <2>1. q <= base + Len(c)
    BY <1>5
  <2>2. /\ l \in 1 .. Len(scanLines) /\ q \in 1 .. scanReader.size
        /\ scanFile[q] = <<l, LineCells>>
    BY <1>5 DEF LastCell
  <2>3. CASE q > p
    <3>1. base < q - LineCells
      BY <1>0, <1>1, <1>p, <2>3
    <3> DEFINE k == q - LineCells - base
    <3>2. k \in Scan!Newlines(c) /\ Scan!Parse(Scan!LineFrom(c, k)) = l
      BY <1>5, <2>1, <3>1, ThereIsParsed
    <3>3. l # 0
      BY <1>0, <2>2
    <3>4. k <= last
      BY <3>2, <3>3
    <3> QED
      BY <1>0, <1>1, <1>p, <2>3, <3>4
  <2>4. CASE q = p
    BY <1>4, <2>2, <2>4, <1>0
  <2>5. CASE q < p
    <3>1. p \in 1 .. Len(scanFile) /\ q \in 1 .. Len(scanFile) /\ LineCells \in 1 .. LineCells
      BY <1>0, <1>4, <2>2
    <3>l. LaidOut
      BY DEF ScanInv
    <3>2. \A i, j \in 1 .. Len(scanFile), a, b \in Nat, u, v \in 1 .. LineCells :
            i < j /\ scanFile[i] = <<a, u>> /\ scanFile[j] = <<b, v>> => a <= b /\ (a = b => u < v)
      BY <3>l DEF LaidOut
    <3>3. found \in Nat
      BY <1>0, <1>4
    <3> QED
      BY <1>4, <2>2, <2>5, <3>1, <3>2, <3>3
  <2> QED
    BY <1>3, <2>3, <2>4, <2>5
<1> QED
  BY <1>2, <1>3, <1>4, <1>5 DEF found

\* and without one, every line of interest ends before the first newline.
LEMMA NoneIsBehind ==
  ASSUME ScanInv, NEW c, NEW base, ReadAt(c, base), \A q, l \in Nat : LastCell(q, l) => q <= base + Len(c),
         \A k \in Scan!Newlines(c) : Scan!Parse(Scan!LineFrom(c, k)) = 0,
         NEW first \in Scan!Newlines(c)
  PROVE  \A q, l \in Nat : LastCell(q, l) => q < base + first
<1>0. /\ LineCells \in Nat \ {0} /\ base \in Nat /\ Len(c) \in Nat /\ DOMAIN c = 1 .. Len(c)
      /\ scanReader.size \in Nat /\ Len(scanLines) \in Nat /\ Len(scanFile) \in Nat
      /\ scanReader.size <= Len(scanFile) /\ base + Len(c) <= scanReader.size
      /\ \A i \in 1 .. Len(c) : c[i] = scanFile[base + i]
  BY PartsAssumption DEF ReadAt, ScanInv, LaidOut
<1>1. first \in 1 .. Len(c) /\ c[first] = Scan!Newline
  BY <1>0 DEF Scan!Newlines
<1>2. scanFile[base + first] = Scan!Newline
  BY <1>0, <1>1
<1>3. ASSUME NEW q \in Nat, NEW l \in Nat, LastCell(q, l) PROVE q < base + first
  <2> SUFFICES ASSUME q >= base + first PROVE FALSE
    BY <1>0, <1>1
  <2>1. q <= base + Len(c)
    BY <1>3
  <2>2. /\ l \in 1 .. Len(scanLines) /\ q \in 1 .. Len(scanFile)
        /\ scanFile[q] = <<l, LineCells>>
    BY <1>0, <1>3 DEF LastCell
  <2>3. LineCells <= q /\ \A i \in 1 .. LineCells : scanFile[q - LineCells + i] = <<l, i>>
    <3>l. LaidOut
      BY DEF ScanInv
    <3>1. \A p \in 1 .. Len(scanFile), m \in Nat, j \in 1 .. LineCells :
            scanFile[p] = <<m, j>> => j <= p /\ \A i \in 1 .. j : scanFile[p - j + i] = <<m, i>>
      BY <3>l DEF LaidOut
    <3>2. LineCells \in 1 .. LineCells
      BY <1>0
    <3> QED
      BY <2>2, <3>1, <3>2
  <2>4. CASE base < q - LineCells
    <3>1. q - LineCells - base \in Scan!Newlines(c) /\ Scan!Parse(Scan!LineFrom(c, q - LineCells - base)) = l
      BY <1>3, <2>1, <2>4, ThereIsParsed
    <3>2. l # 0
      BY <1>0, <2>2
    <3> QED
      BY <3>1, <3>2
  <2>5. CASE ~(base < q - LineCells)
    <3> DEFINE i == base + first - (q - LineCells)
    <3>1. i \in 1 .. LineCells /\ q - LineCells + i = base + first
      BY <1>0, <1>1, <2>2, <2>5
    <3> HIDE DEF i
    <3>2. scanFile[base + first] = <<l, i>>
      BY <2>3, <3>1
    <3>3. <<l, i>> # Scan!Newline
      BY <1>0, <3>1 DEF Scan!Newline
    <3> QED
      BY <1>2, <3>2, <3>3
  <2> QED
    BY <2>4, <2>5
<1> QED
  BY <1>3

\* The states of the reader.
Readers == [at : {"idle", "sessions", "archived_sessions", "reads", "ended", "missed"},
            size : Nat, position : Nat, trailing : Seq(Scan!Cells), found : 0 .. MaxLines]

\* A file that nothing is written to stays laid out.
LEMMA FileStays ==
  ASSUME LaidOut, UNCHANGED <<scanLines, scanFile>>
  PROVE  LaidOut'
<1>1. /\ scanLines' \in Seq(Scan!Kinds) /\ Len(scanLines') <= MaxLines
      /\ scanFile' \in Seq(Scan!Cells)
  BY DEF LaidOut
<1>2. \A p \in 1 .. Len(scanFile') :
        scanFile'[p] = Scan!Newline \/ \E l \in 1 .. Len(scanLines'), k \in 1 .. LineCells : scanFile'[p] = <<l, k>>
  BY DEF LaidOut
<1> DEFINE Placed(file) ==
             \A p \in 1 .. Len(file), l \in Nat, k \in 1 .. LineCells :
               file[p] = <<l, k>> =>
                 /\ k <= p
                 /\ \A j \in 1 .. k : file[p - k + j] = <<l, j>>
                 /\ p # k => file[p - k] = Scan!Newline
                 /\ k = LineCells /\ p < Len(file) => file[p + 1] = Scan!Newline
<1> DEFINE Ordered(file) ==
             \A p, q \in 1 .. Len(file), l, m \in Nat, k, j \in 1 .. LineCells :
               p < q /\ file[p] = <<l, k>> /\ file[q] = <<m, j>> => l <= m /\ (l = m => k < j)
<1>3. Placed(scanFile) /\ Ordered(scanFile)
  BY DEF LaidOut
<1>4. Placed(scanFile') /\ Ordered(scanFile')
  <2> HIDE DEF Placed, Ordered
  <2> QED
    BY <1>3
<1> QED
  BY <1>1, <1>2, <1>3, <1>4 DEF LaidOut

\* The scan's own steps leave the file.
LEMMA ReaderMoves ==
  ASSUME ScanInv, UNCHANGED <<scanLines, scanFile, scanPlace>>, scanReader' \in Readers,
         ScanReads', ScanEnds'
  PROVE  ScanInv'
<1>1. LaidOut'
  BY FileStays DEF ScanInv
<1> QED
  BY <1>1 DEF ScanInv, Readers

\* Where the file is does not matter to a scan that has opened it.
LEMMA ReaderStays ==
  ASSUME ScanInv, scanPlace' \in {"sessions", "archived_sessions"},
         UNCHANGED <<scanLines, scanFile, scanReader>>
  PROVE  ScanInv'
<1>1. LaidOut'
  BY FileStays DEF ScanInv
<1>2. \A q, l \in Nat : LastCell(q, l)' <=> LastCell(q, l)
  BY DEF LastCell
<1>3. ScanReads'
  BY <1>2 DEF ScanInv, ScanReads, Unread
<1>4. ScanEnds'
  <2>1. ScanEnds
    BY DEF ScanInv
  <2>2. scanReader.found # 0 /\ scanReader.at = "ended" => \E q \in Nat : LastCell(q, scanReader.found)'
    BY <2>1 DEF ScanEnds, LastCell
  <2> QED
    BY <1>2, <2>1, <2>2 DEF ScanEnds
<1> QED
  BY <1>1, <1>3, <1>4 DEF ScanInv

\* A scan that opens the file has it all to read.
LEMMA OpenReads ==
  ASSUME ScanInv, Scan!Open, UNCHANGED <<scanLines, scanFile, scanPlace>>
  PROVE  ScanInv'
<1> DEFINE n == Len(scanFile)
<1>0. n \in Nat
  BY DEF ScanInv, LaidOut
<1>1. scanReader' = [at |-> "reads", size |-> n, position |-> n, trailing |-> <<>>, found |-> 0]
  BY DEF Scan!Open, Scan!Nowhere
<1>2. scanReader' \in Readers
  BY <1>0, <1>1, PartsAssumption DEF Readers
<1>3. ScanReads'
  <2>1. Unread' = n
    BY <1>0, <1>1 DEF Unread
  <2>2. \A q, l \in Nat : LastCell(q, l)' => q <= n
    BY <1>0, <1>1 DEF LastCell
  <2> QED
    BY <1>0, <1>1, <2>1, <2>2 DEF ScanReads
<1>4. ScanEnds'
  BY <1>1 DEF ScanEnds
<1> QED
  BY <1>2, <1>3, <1>4, ReaderMoves

\* A scan that looks for the file, or fails, has neither read nor ended.
LEMMA ElsewhereIsFine ==
  ASSUME ScanInv, UNCHANGED <<scanLines, scanFile, scanPlace>>,
         NEW at \in {"sessions", "archived_sessions", "missed"}, scanReader' = [scanReader EXCEPT !.at = at]
  PROVE  ScanInv'
<1>1. scanReader \in Readers
  BY DEF ScanInv, Readers
<1>2. scanReader' \in Readers /\ scanReader'.at = at
  BY <1>1 DEF Readers
<1> QED
  BY <1>2, ReaderMoves DEF ScanReads, ScanEnds

\* A chunk that holds a line of interest ends the scan; one that does not leaves
\* the beginning of its first line to the next.
LEMMA ReadChunkKeeps == ScanInv /\ Scan!ReadChunk => ScanInv'
<1> SUFFICES ASSUME ScanInv, Scan!ReadChunk PROVE ScanInv'
  OBVIOUS
<1> DEFINE base == IF scanReader.position > ChunkSize THEN scanReader.position - ChunkSize ELSE 0
<1> DEFINE c == Scan!Combined(scanReader)
<1> DEFINE starts == Scan!Newlines(c)
<1> DEFINE hits == {k \in starts : Scan!Parse(Scan!LineFrom(c, k)) # 0}
<1> DEFINE first == CHOOSE k \in starts : \A i \in starts : k <= i
<1> DEFINE last == CHOOSE k \in hits : \A i \in hits : i <= k
<1> DEFINE found == Scan!Parse(Scan!LineFrom(c, last))
<1> DEFINE trailing == IF starts = {} THEN c ELSE SubSeq(c, 1, first - 1)
<1>1. scanReader.at = "reads" /\ UNCHANGED <<scanLines, scanFile, scanPlace>>
  BY DEF Scan!ReadChunk
<1>2. scanReader' = IF hits # {} THEN [scanReader EXCEPT !.at = "ended", !.found = found]
                    ELSE [scanReader EXCEPT !.position = base, !.trailing = trailing]
  BY DEF Scan!ReadChunk
<1>3. ReadAt(c, base) /\ base + Len(c) = Unread
  BY <1>1, CombinedIsRead
<1>t. trailing = IF starts = {} THEN c ELSE SubSeq(c, 1, first - 1)
  OBVIOUS
<1> HIDE DEF base, c, found, trailing
<1>4. scanReader \in Readers /\ scanReader.size \in Nat
  BY DEF ScanInv, Readers
<1>5. /\ base \in Nat /\ c \in Seq(Scan!Cells) /\ Len(c) \in Nat /\ DOMAIN c = 1 .. Len(c)
      /\ base + Len(c) <= scanReader.size /\ scanReader.size <= Len(scanFile)
      /\ \A i \in 1 .. Len(c) : c[i] = scanFile[base + i]
  BY <1>3 DEF ReadAt
<1>6. \A q, l \in Nat : LastCell(q, l) => q <= base + Len(c)
  BY <1>1, <1>3 DEF ScanInv, ScanReads
<1>7. \A k \in starts : k \in 1 .. Len(c) /\ k \in Nat /\ k <= Len(c) /\ c[k] = Scan!Newline
  BY <1>5 DEF Scan!Newlines
<1>8. CASE hits # {}
  <2>1. last \in hits /\ \A i \in hits : i <= last
    <3>1. \E k \in hits : \A i \in hits : i <= k
      BY <1>5, <1>7, <1>8, Greatest
    <3> QED
      BY <3>1
  <2>2. last \in starts /\ Scan!Parse(Scan!LineFrom(c, last)) # 0
    BY <2>1
  <2>3. \A k \in starts : Scan!Parse(Scan!LineFrom(c, k)) # 0 => k <= last
    BY <2>1
  <2>f. found = Scan!Parse(Scan!LineFrom(c, last))
    BY DEF found
  <2> HIDE DEF last, hits
  <2>4. /\ found \in 1 .. Len(scanLines) /\ \E q \in Nat : LastCell(q, found)
        /\ \A q, l \in Nat : LastCell(q, l) => l <= found
    BY <1>3, <1>6, <2>2, <2>3, <2>f, HitIsLast
  <2>5. scanReader' = [scanReader EXCEPT !.at = "ended", !.found = found]
    BY <1>2, <1>8
  <2>6. found \in 0 .. MaxLines /\ found # 0
    BY <2>4, PartsAssumption DEF ScanInv, LaidOut
  <2>7. /\ scanReader' \in Readers /\ scanReader'.at = "ended" /\ scanReader'.found = found
        /\ scanReader'.size = scanReader.size
    BY <1>4, <2>5, <2>6 DEF Readers
  <2>8. \A q, l \in Nat : LastCell(q, l)' <=> LastCell(q, l)
    BY <1>1, <2>7 DEF LastCell
  <2>9. ScanReads'
    BY <2>7 DEF ScanReads
  <2>10. ScanEnds'
    <3>1. \A q, l \in Nat : LastCell(q, l)' => l <= found
      BY <2>4, <2>8
    <3>2. \E q \in Nat : LastCell(q, scanReader.found)'
      <4>1. PICK q \in Nat : LastCell(q, found)
        BY <2>4
      <4>2. LastCell(q, scanReader.found)'
        BY <1>1, <2>7, <4>1 DEF LastCell
      <4> QED
        BY <4>2
    <3>3. scanReader'.size <= Len(scanFile')
      BY <1>1, <1>5, <2>7
    <3> QED
      BY <2>6, <2>7, <3>1, <3>2, <3>3 DEF ScanEnds
  <2> QED
    BY <1>1, <2>7, <2>9, <2>10, ReaderMoves
<1>9. CASE hits = {}
  <2>1. \A k \in starts : Scan!Parse(Scan!LineFrom(c, k)) = 0
    BY <1>9
  <2>2. /\ trailing \in Seq(Scan!Cells) /\ Len(trailing) <= Len(c) /\ Len(trailing) \in Nat
        /\ \A i \in 1 .. Len(trailing) : trailing[i] = c[i] /\ c[i] # Scan!Newline
        /\ \A q, l \in Nat : LastCell(q, l) => q <= base + Len(trailing)
    <3>1. CASE starts = {}
      <4>1. trailing = c
        BY <1>t, <3>1
      <4>2. \A i \in 1 .. Len(c) : c[i] # Scan!Newline
        BY <1>5, <3>1 DEF Scan!Newlines
      <4> QED
        BY <1>5, <1>6, <4>1, <4>2
    <3>2. CASE starts # {}
      <4>1. first \in starts /\ \A i \in starts : first <= i
        <5>1. starts \in SUBSET Nat
          BY <1>7
        <5>2. \E k \in starts : \A i \in starts : k <= i
          BY <3>2, <5>1, Least
        <5> QED
          BY <5>2
      <4>2. trailing = SubSeq(c, 1, first - 1)
        BY <1>t, <3>2
      <4> HIDE DEF first
      <4>3. first \in 1 .. Len(c)
        BY <1>7, <4>1
      <4>4. trailing \in Seq(Scan!Cells) /\ Len(trailing) = first - 1 /\ \A i \in 1 .. first - 1 : trailing[i] = c[i]
        <5>1. \A i \in 1 .. first - 1 : i \in 1 .. Len(c) /\ i + 1 - 1 = i
          BY <1>5, <4>3
        <5>2. /\ SubSeq(c, 1, first - 1) \in Seq(Scan!Cells) /\ Len(SubSeq(c, 1, first - 1)) = first - 1
              /\ \A i \in 1 .. first - 1 : SubSeq(c, 1, first - 1)[i] = c[i + 1 - 1]
          BY <1>5, <4>3, <5>1
        <5> QED
          BY <4>2, <5>1, <5>2
      <4>5. ASSUME NEW i \in 1 .. first - 1 PROVE c[i] # Scan!Newline
        <5>1. i \in 1 .. Len(c) /\ ~(first <= i)
          BY <1>5, <4>3
        <5>2. i \notin starts
          BY <4>1, <5>1
        <5> QED
          BY <1>5, <5>1, <5>2 DEF Scan!Newlines
      <4>6. \A q, l \in Nat : LastCell(q, l) => q < base + first
        BY <1>3, <1>6, <2>1, <4>1, NoneIsBehind
      <4>7. ASSUME NEW q \in Nat, NEW l \in Nat, LastCell(q, l) PROVE q <= base + Len(trailing)
        <5>1. q < base + first
          BY <4>6, <4>7
        <5> QED
          BY <1>5, <4>3, <4>4, <5>1
      <4> QED
        BY <1>5, <4>3, <4>4, <4>5, <4>7
    <3> QED
      BY <3>1, <3>2
  <2>3. scanReader' = [scanReader EXCEPT !.position = base, !.trailing = trailing]
    BY <1>2, <1>9
  <2>4. /\ scanReader' \in Readers /\ scanReader'.at = "reads" /\ scanReader'.size = scanReader.size
        /\ scanReader'.position = base /\ scanReader'.trailing = trailing
    BY <1>1, <1>4, <1>5, <2>2, <2>3 DEF Readers
  <2>5. \A q, l \in Nat : LastCell(q, l)' <=> LastCell(q, l)
    BY <1>1, <2>4 DEF LastCell
  <2>6. Unread' = base + Len(trailing)
    BY <2>4 DEF Unread
  <2>7. ScanReads'
    <3>1. scanReader'.size <= Len(scanFile') /\ Unread' <= scanReader'.size
      <4>1. base + Len(trailing) <= scanReader.size
        BY <1>4, <1>5, <2>2
      <4> QED
        BY <1>1, <1>5, <2>4, <2>6, <4>1
    <3>2. \A i \in 1 .. Len(trailing) : trailing[i] = scanFile[base + i] /\ trailing[i] # Scan!Newline
      BY <1>5, <2>2
    <3>3. \A q, l \in Nat : LastCell(q, l)' => q <= Unread'
      BY <2>2, <2>5, <2>6
    <3> QED
      BY <1>1, <2>4, <3>1, <3>2, <3>3 DEF ScanReads
  <2>8. ScanEnds'
    BY <2>4 DEF ScanEnds
  <2> QED
    BY <1>1, <2>4, <2>7, <2>8, ReaderMoves
<1> QED
  BY <1>8, <1>9

\* At the beginning of the file what trails is its first line, or a part of it.
LEMMA ReadEndsKeeps == ScanInv /\ Scan!ReadEnds => ScanInv'
<1> SUFFICES ASSUME ScanInv, Scan!ReadEnds PROVE ScanInv'
  OBVIOUS
<1> DEFINE t == scanReader.trailing
<1> DEFINE found == Scan!Parse(t)
<1>1. /\ scanReader.at = "reads" /\ scanReader.position = 0 /\ UNCHANGED <<scanLines, scanFile, scanPlace>>
      /\ scanReader' = [scanReader EXCEPT !.at = "ended", !.found = found]
  BY DEF Scan!ReadEnds
<1>2. found \in 0 .. Len(scanLines) /\ (found # 0 => t = Scan!Whole(found) /\ scanLines[found] # "other")
      /\ \A m \in 1 .. Len(scanLines) : t = Scan!Whole(m) /\ scanLines[m] # "other" => found = m
  BY ScanParses
<1>3. scanReader \in Readers /\ scanReader.size \in Nat /\ t \in Seq(Scan!Cells) /\ Len(t) \in Nat /\ DOMAIN t = 1 .. Len(t)
  BY DEF ScanInv, Readers
<1>4. Unread = Len(t)
  BY <1>1, <1>3 DEF Unread
<1> HIDE DEF found
<1>l. LaidOut
  BY DEF ScanInv
<1>5. /\ LineCells \in Nat \ {0} /\ Len(scanFile) \in Nat /\ Len(scanLines) \in Nat /\ Len(scanLines) <= MaxLines
      /\ MaxLines \in Nat
  BY <1>l, PartsAssumption DEF LaidOut
<1>6. /\ scanReader.size <= Len(scanFile) /\ Len(t) <= scanReader.size
      /\ \A i \in 1 .. Len(t) : t[i] = scanFile[i] /\ t[i] # Scan!Newline
      /\ \A q, l \in Nat : LastCell(q, l) => q <= Len(t)
  <2>1. ScanReads
    BY DEF ScanInv
  <2>2. \A i \in 1 .. Len(t) : t[i] = scanFile[0 + i] /\ t[i] # Scan!Newline
    BY <1>1, <2>1 DEF ScanReads
  <2> QED
    BY <1>1, <1>3, <1>4, <2>1, <2>2 DEF ScanReads
<1>7. ASSUME NEW q \in Nat, NEW l \in Nat, LastCell(q, l) PROVE l = found
  <2>1. /\ l \in 1 .. Len(scanLines) /\ q \in 1 .. Len(scanFile) /\ q <= Len(t)
        /\ scanFile[q] = <<l, LineCells>> /\ scanLines[l] # "other"
    BY <1>3, <1>5, <1>6, <1>7 DEF LastCell
  <2>2. /\ LineCells <= q /\ \A i \in 1 .. LineCells : scanFile[q - LineCells + i] = <<l, i>>
        /\ q # LineCells => scanFile[q - LineCells] = Scan!Newline
        /\ q < Len(scanFile) => scanFile[q + 1] = Scan!Newline
    <3>1. \A p \in 1 .. Len(scanFile), m \in Nat, j \in 1 .. LineCells :
            scanFile[p] = <<m, j>> =>
            /\ j <= p
            /\ \A i \in 1 .. j : scanFile[p - j + i] = <<m, i>>
            /\ p # j => scanFile[p - j] = Scan!Newline
            /\ j = LineCells /\ p < Len(scanFile) => scanFile[p + 1] = Scan!Newline
      BY <1>l DEF LaidOut
    <3>2. LineCells \in 1 .. LineCells
      BY <1>5
    <3> QED
      BY <2>1, <3>1, <3>2
  <2>3. q = LineCells
    <3> SUFFICES ASSUME q # LineCells PROVE FALSE
      OBVIOUS
    <3>1. q - LineCells \in 1 .. Len(t)
      BY <1>3, <1>5, <2>1, <2>2
    <3> QED
      BY <1>6, <2>2, <3>1
  <2>4. q = Len(t)
    <3> SUFFICES ASSUME q < Len(t) PROVE FALSE
      BY <1>3, <2>1
    <3>1. q + 1 \in 1 .. Len(t) /\ q < Len(scanFile)
      BY <1>3, <1>5, <1>6, <2>1
    <3> QED
      BY <1>6, <2>2, <3>1
  <2>5. t = [i \in 1 .. LineCells |-> <<l, i>>]
    <3>0. t = [i \in 1 .. Len(t) |-> t[i]]
      BY <1>3
    <3>1. Len(t) = LineCells
      BY <2>3, <2>4
    <3>2. \A i \in 1 .. LineCells : t[i] = <<l, i>>
      <4>1. \A i \in 1 .. LineCells : q - LineCells + i = i /\ i \in 1 .. Len(t)
        BY <1>5, <2>3, <2>4
      <4> QED
        BY <1>6, <2>2, <4>1
    <3> HIDE DEF t
    <3>3. t = [i \in 1 .. LineCells |-> t[i]]
      BY <3>0, <3>1
    <3> QED
      BY <3>2, <3>3
  <2>6. t = Scan!Whole(l)
    BY <2>5 DEF Scan!Whole
  <2> QED
    BY <1>2, <2>1, <2>6
<1>8. ASSUME found # 0 PROVE LastCell(LineCells, found)
  <2>1. t = [i \in 1 .. LineCells |-> <<found, i>>] /\ scanLines[found] # "other"
    BY <1>2, <1>8 DEF Scan!Whole
  <2>2. Len(t) = LineCells
    <3>1. 1 .. Len(t) = 1 .. LineCells
      BY <1>3, <2>1
    <3> QED
      BY <1>3, <1>5, <3>1
  <2>3. t[LineCells] = <<found, LineCells>> /\ LineCells \in 1 .. Len(t)
    <3>1. LineCells \in 1 .. LineCells
      BY <1>5
    <3> QED
      BY <2>1, <2>2, <3>1
  <2>4. scanFile[LineCells] = <<found, LineCells>>
    BY <1>6, <2>3
  <2>5. LineCells \in 1 .. scanReader.size /\ found \in 1 .. Len(scanLines)
    BY <1>2, <1>3, <1>5, <1>6, <1>8, <2>2
  <2> QED
    BY <2>1, <2>4, <2>5 DEF LastCell
<1>9. found \in 0 .. MaxLines /\ found \in Nat
  BY <1>2, <1>5
<1>10. /\ scanReader' \in Readers /\ scanReader'.at = "ended" /\ scanReader'.found = found
       /\ scanReader'.size = scanReader.size
  BY <1>1, <1>3, <1>9 DEF Readers
<1>11. \A q, l \in Nat : LastCell(q, l)' => LastCell(q, l)
  BY <1>1, <1>10 DEF LastCell
<1>12. ScanReads'
  BY <1>10 DEF ScanReads
<1>13. ScanEnds'
  <2>1. scanReader'.size <= Len(scanFile')
    BY <1>1, <1>6, <1>10, <1>3, <1>5
  <2>2. found = 0 => \A q, l \in Nat : ~LastCell(q, l)'
    <3>1. ASSUME found = 0, NEW q \in Nat, NEW l \in Nat, LastCell(q, l) PROVE FALSE
      <4>1. l = 0
        BY <1>7, <3>1
      <4> QED
        BY <1>5, <3>1, <4>1 DEF LastCell
    <3> QED
      BY <1>11, <3>1
  <2>3. found # 0 => \E q \in Nat : LastCell(q, scanReader.found)'
    <3> SUFFICES ASSUME found # 0 PROVE LastCell(LineCells, scanReader.found)'
      BY <1>5
    <3>1. LastCell(LineCells, found)
      BY <1>8
    <3> QED
      BY <1>1, <1>10, <3>1 DEF LastCell
  <2>4. \A q, l \in Nat : LastCell(q, l)' => l <= found
    BY <1>7, <1>9, <1>11
  <2> QED
    BY <1>10, <2>1, <2>2, <2>3, <2>4 DEF ScanEnds
<1> QED
  BY <1>1, <1>10, <1>12, <1>13, ReaderMoves

\* A cell that is written is the next of the file.
LEMMA AppendKeeps ==
  ASSUME ScanInv, NEW cell, CellIsNext(cell), scanFile' = Append(scanFile, cell),
         UNCHANGED <<scanPlace, scanReader>>
  PROVE  ScanInv'
<1>1. LaidOut
  BY DEF ScanInv
<1>2. LaidOut'
  BY <1>1, CellIsLaid
<1>3. ScanReads' /\ ScanEnds'
  <2>1. scanLines' = scanLines \/ \E kind \in Scan!Kinds : scanLines' = Append(scanLines, kind)
    BY DEF CellIsNext
  <2> QED
    BY <1>2, <2>1, FileGrows
<1> QED
  BY <1>2, <1>3 DEF ScanInv

\* No step of the scan, or of the app-server that writes, breaks the invariant.
LEMMA ScanKeeps == ScanInv /\ [Scan!ScanNext]_scanVars => ScanInv'
<1> SUFFICES ASSUME ScanInv, [Scan!ScanNext]_scanVars PROVE ScanInv'
  OBVIOUS
<1>1. CASE Scan!WriteCell
  <2> DEFINE last == scanFile[Len(scanFile)]
  <2> DEFINE cell == IF last[2] = LineCells THEN Scan!Newline ELSE <<last[1], last[2] + 1>>
  <2>1. /\ scanFile # <<>> /\ last # Scan!Newline /\ scanFile' = Append(scanFile, cell)
        /\ UNCHANGED <<scanLines, scanPlace, scanReader>>
    BY <1>1 DEF Scan!WriteCell, Scan!AtLineStart
  <2>l. LaidOut
    BY DEF ScanInv
  <2>2. scanFile \in Seq(Scan!Cells) /\ Len(scanFile) \in Nat
    BY <2>l DEF LaidOut
  <2>3. Len(scanFile) \in 1 .. Len(scanFile)
    BY <2>1, <2>2
  <2>4. PICK l \in 1 .. Len(scanLines), k \in 1 .. LineCells : last = <<l, k>>
    BY <2>1, <2>l, <2>3 DEF LaidOut
  <2>5. last[1] = l /\ last[2] = k
    BY <2>4
  <2>6. cell = IF k = LineCells THEN Scan!Newline ELSE <<l, k + 1>>
    BY <2>5
  <2> HIDE DEF cell
  <2>7. CellIsNext(cell)
    BY <2>1, <2>4, <2>6 DEF CellIsNext
  <2> QED
    BY <2>1, <2>7, AppendKeeps
<1>2. ASSUME NEW kind \in Scan!Kinds, Scan!BeginLine(kind) PROVE ScanInv'
  <2> DEFINE cell == <<Len(scanLines) + 1, 1>>
  <2>1. /\ Len(scanLines) < MaxLines /\ scanLines' = Append(scanLines, kind)
        /\ scanFile' = Append(scanFile, cell) /\ UNCHANGED <<scanPlace, scanReader>>
    BY <1>2 DEF Scan!BeginLine
  <2>2. scanFile = <<>> \/ scanFile[Len(scanFile)] = Scan!Newline
    BY <1>2 DEF Scan!BeginLine, Scan!AtLineStart
  <2>3. CellIsNext(cell)
    BY <2>1, <2>2 DEF CellIsNext
  <2> QED
    BY <2>1, <2>3, AppendKeeps
<1>3. CASE Scan!Archive
  <2>1. /\ scanPlace' \in {"sessions", "archived_sessions"} /\ UNCHANGED <<scanLines, scanFile, scanReader>>
    BY <1>3 DEF Scan!Archive
  <2> QED
    BY <2>1, ReaderStays
<1>4. CASE Scan!FindRolloutPath
  <2>1. UNCHANGED <<scanLines, scanFile, scanPlace>>
    BY <1>4 DEF Scan!FindRolloutPath
  <2>2. \/ Scan!Open
        \/ \E at \in {"sessions", "archived_sessions", "missed"} : scanReader' = [scanReader EXCEPT !.at = at]
    BY <1>4 DEF Scan!FindRolloutPath
  <2> QED
    BY <2>1, <2>2, OpenReads, ElsewhereIsFine
<1>5. CASE Scan!RolloutPathKnown
  BY <1>5, OpenReads DEF Scan!RolloutPathKnown
<1>6. CASE Scan!ReadChunk
  BY <1>6, ReadChunkKeeps
<1>7. CASE Scan!ReadEnds
  BY <1>7, ReadEndsKeeps
<1>8. CASE Scan!ReadFails
  BY <1>8, ElsewhereIsFine DEF Scan!ReadFails
<1>9. CASE UNCHANGED scanVars
  <2>1. scanPlace' = scanPlace /\ UNCHANGED <<scanLines, scanFile, scanReader>>
    BY <1>9 DEF scanVars
  <2> QED
    BY <2>1, ReaderStays DEF ScanInv
<1> QED
  BY <1>1, <1>2, <1>3, <1>4, <1>5, <1>6, <1>7, <1>8, <1>9 DEF Scan!ScanNext

-----------------------------------------------------------------------------
(* Projects                                                                *)

\* A part's own copy of Cardinality counts like the library's.
LEMMA ProjCardinality == \A S : Proj!Cardinality(S) = Cardinality(S)
  BY DEF Proj!Cardinality, Cardinality

\* The daemon's calls that no other process has overtaken know what the file
\* holds; what the client is told of, and what it is about to show, is of what
\* was imported.
StoreFollows ==
  /\ projFile \subseteq Proj!Dirs /\ projState \subseteq Proj!Dirs /\ projDirs \subseteq Proj!Dirs
  /\ projCalls \in [Proj!Callers -> [at : {"idle", "resolves", "summarises"}, name : Proj!Names,
                                     loaded : {{}}, overtaken : BOOLEAN]]
  /\ projCli \in [at : {"idle", "import", "remove"}, name : Proj!Names, loaded : SUBSET Proj!Dirs,
                  overtaken : {FALSE}]
  /\ projAdded \subseteq Proj!Dirs /\ projCommands \in 0 .. MaxCommands /\ projOverlaps \in BOOLEAN
  /\ \A c \in Proj!Callers :
       projCalls[c].at = "resolves" /\ ~projCalls[c].overtaken => projState = projFile
  /\ Proj!ImportsAreKept

ViewFollows ==
  /\ projView \in [kind : {"idle", "loading", "ready", "error"}, shown : SUBSET Proj!Dirs,
                   imported : SUBSET Proj!Dirs, listing : {"none", "sent", "read"}, lists : SUBSET Proj!Dirs,
                   stale : SUBSET (SUBSET Proj!Dirs)]
  /\ IsFiniteSet(projView.stale) /\ Cardinality(projView.stale) <= MaxCancelled
  /\ ~projOverlaps => /\ projView.imported \subseteq projAdded
                      /\ projView.listing = "read" => projView.imported \subseteq projView.lists
  /\ Proj!ImportsAreShown

ProjInv == StoreFollows /\ ViewFollows

\* What the invariant of the projects is for.
LEMMA ProjImplies == ProjInv => Proj!ProjTypeOK /\ Proj!ImportsAreKept /\ Proj!ImportsAreShown
  BY ProjCardinality DEF ProjInv, StoreFollows, ViewFollows, Proj!ProjTypeOK

\* A caller without a call is idle.
LEMMA NoCallIsIdle ==
  Proj!NoCall \in [at : {"idle"}, name : Proj!Names, loaded : {{}}, overtaken : {FALSE}]
  BY DEF Proj!NoCall, Proj!Names

\* The invariant of the projects holds at first.
LEMMA ProjBegins == Proj!ProjInit => ProjInv
<1> SUFFICES ASSUME Proj!ProjInit PROVE ProjInv
  OBVIOUS
<1>1. StoreFollows
  <2>1. /\ projCalls \in [Proj!Callers -> [at : {"idle", "resolves", "summarises"}, name : Proj!Names,
                                         loaded : {{}}, overtaken : BOOLEAN]]
        /\ \A c \in Proj!Callers : projCalls[c].at = "idle"
    BY NoCallIsIdle DEF Proj!ProjInit
  <2>2. projCli \in [at : {"idle", "import", "remove"}, name : Proj!Names, loaded : SUBSET Proj!Dirs,
                     overtaken : {FALSE}]
    BY NoCallIsIdle DEF Proj!ProjInit
  <2>3. /\ projFile = {} /\ projState = {} /\ projDirs = Proj!Dirs /\ projAdded = {}
        /\ projCommands = 0 /\ projOverlaps = FALSE
    BY DEF Proj!ProjInit
  <2>4. projCommands \in 0 .. MaxCommands
    BY <2>3, PartsAssumption
  <2>5. Proj!ImportsAreKept
    BY <2>3 DEF Proj!ImportsAreKept
  <2>6. \A c \in Proj!Callers :
       projCalls[c].at = "resolves" /\ ~projCalls[c].overtaken => projState = projFile
    BY <2>3
  <2>7. projFile \subseteq Proj!Dirs /\ projState \subseteq Proj!Dirs /\ projDirs \subseteq Proj!Dirs /\ projAdded \subseteq Proj!Dirs
        /\ projOverlaps \in BOOLEAN
    BY <2>3
  <2> QED
    BY <2>1, <2>2, <2>4, <2>5, <2>6, <2>7 DEF StoreFollows
<1>2. ViewFollows
  BY PartsAssumption, FS_EmptySet DEF Proj!ProjInit, ViewFollows, Proj!ImportsAreShown
<1> QED
  BY <1>1, <1>2 DEF ProjInv

\* A name is of a directory.
LEMMA ProjNames == \A name \in Proj!Names : Proj!Real(name) \in Proj!Dirs
  BY DEF Proj!Names, Proj!Dirs, Proj!Real

\* What the client shows rests while the daemon and the CLI only add.
LEMMA ViewRests ==
  ASSUME ViewFollows, UNCHANGED projView, projAdded \subseteq projAdded',
         projOverlaps => projOverlaps', projOverlaps' \in BOOLEAN
  PROVE  ViewFollows'
  BY DEF ViewFollows, Proj!ImportsAreShown

\* The store follows while the state is read anew from the file.
LEMMA StoreRests ==
  ASSUME StoreFollows, UNCHANGED <<projFile, projCalls, projCli, projAdded, projCommands, projOverlaps>>,
         projState' \in {projState, projFile}, projDirs' \subseteq projDirs
  PROVE  StoreFollows'
  BY DEF StoreFollows, Proj!ImportsAreKept

\* The daemon's calls.
LEMMA ImportKeeps ==
  ASSUME ProjInv, NEW c \in Proj!Callers, NEW name \in Proj!Names, Proj!ImportProject(c, name)
  PROVE  ProjInv'
<1>1. /\ projCalls' = [projCalls EXCEPT ![c] = [Proj!NoCall EXCEPT !.at = "resolves", !.name = name]]
      /\ projState' = projFile /\ projCommands' \in 0 .. MaxCommands
      /\ UNCHANGED <<projFile, projDirs, projCli, projView, projAdded, projOverlaps>>
  BY PartsAssumption DEF Proj!ImportProject, Proj!Imports, Proj!Reload, Proj!Commands, ProjInv, StoreFollows
<1>2. [Proj!NoCall EXCEPT !.at = "resolves", !.name = name]
        \in [at : {"idle", "resolves", "summarises"}, name : Proj!Names, loaded : {{}}, overtaken : BOOLEAN]
  BY DEF Proj!NoCall
<1>3. StoreFollows'
  BY <1>1, <1>2 DEF ProjInv, StoreFollows, Proj!ImportsAreKept
<1> QED
  BY <1>1, <1>3, ViewRests DEF ProjInv, StoreFollows

\* A call that ends leaves the store as it is.
LEMMA CallEndsKeeps ==
  ASSUME StoreFollows, NEW c \in Proj!Callers, projCalls' = [projCalls EXCEPT ![c] = Proj!NoCall],
         UNCHANGED <<projFile, projState, projDirs, projCli, projAdded, projCommands, projOverlaps>>
  PROVE  StoreFollows'
  BY NoCallIsIdle DEF StoreFollows, Proj!ImportsAreKept

\* An import is saved, with what the daemon knew.
LEMMA UpsertKeeps ==
  ASSUME ProjInv, NEW c \in Proj!Callers, Proj!UpsertProject(c)
  PROVE  ProjInv'
<1> DEFINE path == Proj!Real(projCalls[c].name)
<1>1. /\ projCalls[c].at = "resolves"
      /\ projState' = projState \cup {path} /\ projFile' = projState'
      /\ projOverlaps' = (projOverlaps \/ projCalls[c].overtaken)
      /\ projAdded' = projAdded \cup {path}
      /\ projCalls' = [projCalls EXCEPT ![c] = [projCalls[c] EXCEPT !.at = "summarises", !.overtaken = FALSE]]
      /\ UNCHANGED <<projDirs, projCli, projView, projCommands>>
  BY DEF Proj!UpsertProject
<1>2. /\ projCalls[c] \in [at : {"idle", "resolves", "summarises"}, name : Proj!Names, loaded : {{}},
                           overtaken : BOOLEAN]
      /\ path \in Proj!Dirs
  BY ProjNames DEF ProjInv, StoreFollows
<1>3. projCalls' \in [Proj!Callers -> [at : {"idle", "resolves", "summarises"}, name : Proj!Names,
                                       loaded : {{}}, overtaken : BOOLEAN]]
  BY <1>1, <1>2 DEF ProjInv, StoreFollows
<1>4. projOverlaps' \in BOOLEAN
  BY <1>1, <1>2 DEF ProjInv, StoreFollows
<1> HIDE DEF path
<1>5. StoreFollows'
  BY <1>1, <1>2, <1>3, <1>4 DEF ProjInv, StoreFollows, Proj!ImportsAreKept
<1> QED
  BY <1>1, <1>4, <1>5, ViewRests DEF ProjInv

\* The CLI's calls.
LEMMA CliWritesKeeps ==
  ASSUME StoreFollows, NEW projects \in SUBSET Proj!Dirs, NEW added \in SUBSET Proj!Dirs,
         projAdded' = added, projCli.loaded = projAdded => projects = added,
         Proj!CliWrites(projects)
  PROVE  StoreFollows' /\ (projOverlaps => projOverlaps') /\ projOverlaps' \in BOOLEAN
<1>1. /\ projFile' = projects
      /\ projOverlaps' = (projOverlaps \/ projCli.loaded # projFile)
      /\ projCalls' = [c \in Proj!Callers |-> [projCalls[c] EXCEPT !.overtaken = (projCalls[c].at = "resolves")]]
      /\ projCli' = Proj!NoCall
      /\ UNCHANGED <<projState, projDirs, projCommands>>
  BY DEF Proj!CliWrites
<1>2. /\ projCalls' \in [Proj!Callers -> [at : {"idle", "resolves", "summarises"}, name : Proj!Names,
                                          loaded : {{}}, overtaken : BOOLEAN]]
      /\ \A c \in Proj!Callers : projCalls'[c].at = "resolves" => projCalls'[c].overtaken
  BY <1>1 DEF StoreFollows
<1>3. projOverlaps' \in BOOLEAN /\ (projOverlaps => projOverlaps')
  BY <1>1 DEF StoreFollows
<1>4. Proj!ImportsAreKept'
  BY <1>1, <1>3 DEF StoreFollows, Proj!ImportsAreKept
<1> QED
  BY <1>1, <1>2, <1>3, <1>4, NoCallIsIdle DEF StoreFollows

\* The CLI imports a project.
LEMMA CliImportsKeeps ==
  ASSUME ProjInv, Proj!CliImports
  PROVE  ProjInv'
<1> DEFINE path == Proj!Real(projCli.name)
<1>1. /\ path \in Proj!Dirs /\ projCli.loaded \in SUBSET Proj!Dirs /\ projAdded \in SUBSET Proj!Dirs
      /\ Proj!CliWrites(projCli.loaded \cup {path})
      /\ projAdded' = projAdded \cup {path} /\ UNCHANGED projView
  BY ProjNames DEF ProjInv, StoreFollows, Proj!CliImports
<1> HIDE DEF path
<1>2. StoreFollows' /\ (projOverlaps => projOverlaps') /\ projOverlaps' \in BOOLEAN
  BY <1>1, CliWritesKeeps DEF ProjInv
<1> QED
  BY <1>1, <1>2, ViewRests DEF ProjInv

\* The CLI removes a project.
LEMMA RemoveKeeps ==
  ASSUME ProjInv, Proj!RemoveProject
  PROVE  ProjInv'
<1> DEFINE path == Proj!Real(projCli.name)
<1>1. /\ projCli.loaded \in SUBSET Proj!Dirs /\ projAdded \in SUBSET Proj!Dirs
      /\ Proj!CliWrites(projCli.loaded \ {path})
      /\ projAdded' = projAdded \ {path}
      /\ projView' = [projView EXCEPT !.imported = projView.imported \ {path}]
  BY DEF ProjInv, StoreFollows, Proj!RemoveProject
<1> HIDE DEF path
<1>2. StoreFollows' /\ (projOverlaps => projOverlaps') /\ projOverlaps' \in BOOLEAN
  BY <1>1, CliWritesKeeps DEF ProjInv
<1>3. ViewFollows'
  BY <1>1, <1>2 DEF ProjInv, ViewFollows, Proj!ImportsAreShown
<1> QED
  BY <1>2, <1>3 DEF ProjInv

\* Listings that are cancelled stay few.
LEMMA CancelledIsFew ==
  ASSUME ViewFollows
  PROVE  /\ Proj!Cancelled \in SUBSET (SUBSET Proj!Dirs)
         /\ IsFiniteSet(Proj!Cancelled) /\ Cardinality(Proj!Cancelled) <= MaxCancelled
<1>1. projView.stale \in SUBSET (SUBSET Proj!Dirs) /\ projView.lists \in SUBSET Proj!Dirs
      /\ IsFiniteSet(projView.stale) /\ Cardinality(projView.stale) <= MaxCancelled
  BY DEF ViewFollows
<1>2. /\ IsFiniteSet(projView.stale \cup {projView.lists})
      /\ Cardinality(projView.stale \cup {projView.lists})
           = IF projView.lists \in projView.stale THEN Cardinality(projView.stale)
             ELSE Cardinality(projView.stale) + 1
  BY <1>1, FS_AddElement
<1>3. Cardinality(projView.stale) \in Nat
  BY <1>1, FS_CardinalityType
<1> QED
  BY <1>1, <1>2, <1>3, PartsAssumption, ProjCardinality DEF Proj!Cancelled

\* The client hears of an import of its own, whatever it shows meanwhile.
LEMMA ImportReturnsKeeps ==
  ASSUME ProjInv, Proj!ImportReturns
  PROVE  ProjInv'
<1> DEFINE path == Proj!Real(projCalls["import"].name)
           cancelled == Proj!Cancelled
           kind == CASE projView.kind = "idle" -> "idle" [] projView.kind = "ready" -> "ready" [] OTHER -> "loading"
           shown == IF projView.kind = "ready" THEN projView.shown \cup {path} ELSE projView.shown
           listing == IF projView.kind = "idle" THEN "none" ELSE "sent"
<1>1. /\ projView' = [projView EXCEPT
              !.shown = shown, !.imported = projView.imported \cup ({path} \cap projAdded),
              !.kind = kind, !.listing = listing, !.stale = cancelled, !.lists = {}]
      /\ projCalls' = [projCalls EXCEPT !["import"] = Proj!NoCall]
      /\ UNCHANGED <<projFile, projState, projDirs, projCli, projAdded, projCommands, projOverlaps>>
  BY DEF Proj!ImportReturns
<1>2. "import" \in Proj!Callers
  BY DEF Proj!Callers
<1>3. StoreFollows'
  BY <1>1, <1>2, CallEndsKeeps DEF ProjInv
<1>4. /\ path \in Proj!Dirs
      /\ shown \in SUBSET Proj!Dirs
      /\ kind \in {"idle", "loading", "ready"} /\ (kind = "ready" <=> projView.kind = "ready")
      /\ listing \in {"none", "sent"}
  BY <1>2, ProjNames DEF ProjInv, StoreFollows, ViewFollows
<1>5. projView.kind = "ready" => projView.shown \cup {path} \subseteq shown
  OBVIOUS
<1>6. /\ cancelled \in SUBSET (SUBSET Proj!Dirs)
      /\ IsFiniteSet(cancelled) /\ Cardinality(cancelled) <= MaxCancelled
  BY CancelledIsFew DEF ProjInv
<1>7. projAdded \subseteq Proj!Dirs
  BY DEF ProjInv, StoreFollows
<1> HIDE DEF path, cancelled, kind, shown, listing
<1>8. ViewFollows'
  <2>1. projView' \in [kind : {"idle", "loading", "ready", "error"}, shown : SUBSET Proj!Dirs,
                   imported : SUBSET Proj!Dirs, listing : {"none", "sent", "read"}, lists : SUBSET Proj!Dirs,
                   stale : SUBSET (SUBSET Proj!Dirs)]
    BY <1>1, <1>4, <1>6, <1>7 DEF ProjInv, ViewFollows
  <2>2. /\ projView'.stale = cancelled /\ projView'.listing = listing /\ projView'.kind = kind
        /\ projView'.imported = projView.imported \cup ({path} \cap projAdded)
        /\ projView'.shown = shown
    BY <1>1 DEF ProjInv, ViewFollows
  <2> QED
    BY <1>1, <1>4, <1>5, <1>6, <2>1, <2>2 DEF ProjInv, ViewFollows, Proj!ImportsAreShown
<1> QED
  BY <1>3, <1>8 DEF ProjInv

\* A listing ends, or one that was cancelled is answered.
LEMMA ListKeeps ==
  ASSUME ProjInv,
         \/ Proj!QueryBridge \/ Proj!ListReturns \/ Proj!ListFails
         \/ \E lists \in SUBSET Proj!Dirs : Proj!CancelledReturns(lists)
  PROVE  ProjInv'
<1>1. UNCHANGED Proj!service
  BY DEF Proj!QueryBridge, Proj!ListReturns, Proj!ListFails, Proj!CancelledReturns
<1>2. StoreFollows'
  BY <1>1, StoreRests DEF ProjInv, Proj!service
<1>3. UNCHANGED <<projAdded, projOverlaps>>
  BY <1>1 DEF Proj!service
<1>4. ASSUME NEW lists \in SUBSET Proj!Dirs, Proj!CancelledReturns(lists)
      PROVE  ViewFollows'
  <2>1. /\ IsFiniteSet(projView.stale \ {lists}) /\ Cardinality(projView.stale \ {lists}) <= MaxCancelled
    <3>1. IsFiniteSet(projView.stale) /\ Cardinality(projView.stale) <= MaxCancelled
      BY DEF ProjInv, ViewFollows
    <3>2. /\ IsFiniteSet(projView.stale \ {lists})
          /\ Cardinality(projView.stale \ {lists})
               = IF lists \in projView.stale THEN Cardinality(projView.stale) - 1
                 ELSE Cardinality(projView.stale)
      BY <3>1, FS_RemoveElement
    <3>3. Cardinality(projView.stale) \in Nat
      BY <3>1, FS_CardinalityType
    <3> QED
      BY <3>1, <3>2, <3>3, PartsAssumption
  <2>2. projView' = [projView EXCEPT !.stale = projView.stale \ {lists}]
    BY <1>4 DEF Proj!CancelledReturns
  <2> QED
    BY <1>3, <2>1, <2>2 DEF ProjInv, ViewFollows, Proj!ImportsAreShown
<1>5. CASE Proj!QueryBridge
  BY <1>2, <1>3, <1>5 DEF Proj!QueryBridge, ProjInv, ViewFollows, Proj!ImportsAreShown
<1>6. CASE Proj!ListReturns
  BY <1>2, <1>3, <1>6 DEF Proj!ListReturns, ProjInv, ViewFollows, Proj!ImportsAreShown
<1>7. CASE Proj!ListFails
  BY <1>2, <1>3, <1>7 DEF Proj!ListFails, ProjInv, ViewFollows, Proj!ImportsAreShown
<1> QED
  BY <1>2, <1>4, <1>5, <1>6, <1>7 DEF ProjInv

\* The client forgets the bridge.
LEMMA LeaveKeeps ==
  ASSUME ProjInv, Proj!LeaveBridge
  PROVE  ProjInv'
<1> DEFINE cancelled == Proj!Cancelled
<1>1. /\ projView' = [projView EXCEPT !.kind = "idle", !.shown = {}, !.listing = "none",
                                      !.stale = cancelled, !.lists = {}]
      /\ UNCHANGED Proj!service
  BY DEF Proj!LeaveBridge
<1>2. /\ cancelled \in SUBSET (SUBSET Proj!Dirs)
      /\ IsFiniteSet(cancelled) /\ Cardinality(cancelled) <= MaxCancelled
  BY CancelledIsFew DEF ProjInv
<1> HIDE DEF cancelled
<1>3. StoreFollows'
  BY <1>1, StoreRests DEF ProjInv, Proj!service
<1>4. ViewFollows'
  BY <1>1, <1>2 DEF ProjInv, ViewFollows, Proj!ImportsAreShown, Proj!service
<1> QED
  BY <1>3, <1>4 DEF ProjInv

\* A listing reads the file, which holds what was imported.
LEMMA ListProjectsKeeps ==
  ASSUME ProjInv, Proj!ListProjects
  PROVE  ProjInv'
<1>1. /\ projState' = projFile
      /\ projView' = [projView EXCEPT !.listing = "read", !.lists = projFile]
      /\ UNCHANGED <<projFile, projDirs, projCalls, projCli, projAdded, projCommands, projOverlaps>>
  BY DEF Proj!ListProjects, Proj!Reload
<1>2. StoreFollows'
  BY <1>1, StoreRests DEF ProjInv
<1>3. ViewFollows'
  BY <1>1 DEF ProjInv, StoreFollows, ViewFollows, Proj!ImportsAreShown, Proj!ImportsAreKept
<1> QED
  BY <1>2, <1>3 DEF ProjInv

\* No step breaks the invariant of the projects.
LEMMA ProjKeeps == ProjInv /\ [Proj!ProjNext]_projVars => ProjInv'
<1> SUFFICES ASSUME ProjInv, [Proj!ProjNext]_projVars PROVE ProjInv'
  OBVIOUS
<1>1. CASE Proj!DirectoryVanishes \/ Proj!SearchProjects \/ UNCHANGED projVars
  <2>1. /\ UNCHANGED <<projFile, projCalls, projCli, projView, projAdded, projCommands, projOverlaps>>
        /\ projState' \in {projState, projFile} /\ projDirs' \subseteq projDirs
    BY <1>1 DEF Proj!DirectoryVanishes, Proj!SearchProjects, Proj!Reload, projVars
  <2>2. projOverlaps' \in BOOLEAN
    BY <2>1 DEF ProjInv, StoreFollows
  <2> QED
    BY <2>1, <2>2, StoreRests, ViewRests DEF ProjInv
<1>2. ASSUME NEW op \in {"import", "remove"}, NEW name \in Proj!Names, Proj!HandleProjects(op, name) PROVE ProjInv'
  <2>1. /\ projCli' = [Proj!NoCall EXCEPT !.at = op, !.name = name, !.loaded = projFile]
        /\ projCommands' \in 0 .. MaxCommands
        /\ UNCHANGED <<projFile, projState, projDirs, projCalls, projView, projAdded, projOverlaps>>
    BY <1>2, PartsAssumption DEF Proj!HandleProjects, Proj!Commands, ProjInv, StoreFollows
  <2>2. projCli' \in [at : {"idle", "import", "remove"}, name : Proj!Names, loaded : SUBSET Proj!Dirs,
                      overtaken : {FALSE}]
    BY <2>1, NoCallIsIdle DEF ProjInv, StoreFollows
  <2>3. StoreFollows'
    BY <2>1, <2>2 DEF ProjInv, StoreFollows, Proj!ImportsAreKept
  <2> QED
    BY <2>1, <2>3, ViewRests DEF ProjInv, StoreFollows
<1>3. ASSUME NEW c \in Proj!Callers, Proj!ImportRefused(c) \/ Proj!ImportFails(c) PROVE ProjInv'
  <2>1. /\ projCalls' = [projCalls EXCEPT ![c] = Proj!NoCall]
        /\ UNCHANGED <<projFile, projState, projDirs, projCli, projView, projAdded, projCommands, projOverlaps>>
    BY <1>3 DEF Proj!ImportRefused, Proj!ImportFails
  <2> QED
    BY <2>1, CallEndsKeeps, ViewRests DEF ProjInv, StoreFollows
<1>4. CASE Proj!CliRefused
  <2>1. /\ projCli' = Proj!NoCall
        /\ UNCHANGED <<projFile, projState, projDirs, projCalls, projView, projAdded, projCommands, projOverlaps>>
    BY <1>4 DEF Proj!CliRefused
  <2>2. StoreFollows'
    BY <2>1, NoCallIsIdle DEF ProjInv, StoreFollows, Proj!ImportsAreKept
  <2> QED
    BY <2>1, <2>2, ViewRests DEF ProjInv, StoreFollows
<1> QED
  BY <1>1, <1>2, <1>3, <1>4, ImportKeeps, UpsertKeeps, CliImportsKeeps, RemoveKeeps, ImportReturnsKeeps,
     ListKeeps, LeaveKeeps, ListProjectsKeeps DEF Proj!ProjNext

-----------------------------------------------------------------------------
(* The workspace browser (WorkspaceBrowser)                                *)

\* No listing is under way that was not asked for, and a folder that loads is
\* being listed.
Listing ==
  /\ workFolders \in [status : [Work!Folders -> {"none", "loading", "ready", "error"}],
                      entry : Work!Kinds \cup {"unlisted"}]
  /\ workLists \in [flying : [Work!Folders -> Nat], held : [Work!Folders -> BOOLEAN]]
  /\ workAsked \in 0 .. MaxLists
  /\ workLists.flying["root"] + workLists.flying["t"] <= workAsked
  /\ Work!LoadingIsUnderWay

\* A request beyond MaxFiles came from an opener that is done, and a read of
\* the last request is of the path previewed.
Opened == {o \in Openers : workOpeners[o].at = "done"}

FilesSought ==
  \A o \in Openers : workOpeners[o].at \in {"root", "parent", "probe"} => workOpeners[o].target \in Work!Files

Previewing ==
  /\ workOpeners \in [Openers -> [at : Work!Waiting \cup {"new", "done"}, target : Work!Files \cup {"root"},
                                  kind : {"auto", "file"}]]
  /\ workPreview \in [id : Nat, selected : Work!Files \cup {"none"},
                      status : {"idle", "loading", "ready", "error"}, path : Work!Files \cup {"none"}]
  /\ workReads \subseteq [id : Nat \ {0}, path : Work!Files]
  /\ FilesSought
  /\ workPreview.id <= MaxFiles + Cardinality(Opened)
  /\ \A read \in workReads :
       /\ read.id <= workPreview.id
       /\ read.id = workPreview.id => read.path = workPreview.path
  /\ Work!PreviewIsOfSelection

WorkInv == workDisk \in Work!Kinds /\ Listing /\ Previewing

\* The module's Cardinality is that of FiniteSets.
LEMMA WorkCardinality == \A S : Work!Cardinality(S) = Cardinality(S)
  BY DEF Work!Cardinality, Cardinality

\* The openers, and those that are done, are finite in number.
LEMMA OpenedIsFinite ==
  /\ IsFiniteSet(Opened)
  /\ Cardinality(Opened) \in Nat /\ Cardinality(Openers) \in Nat
  /\ Cardinality(Opened) <= Cardinality(Openers)
<1>1. IsFiniteSet(Opened) /\ Cardinality(Opened) <= Cardinality(Openers)
  BY PartsAssumption, FS_Subset DEF Opened
<1> QED
  BY <1>1, PartsAssumption, FS_CardinalityType

\* The invariant implies the type invariant.
LEMMA WorkTypes == WorkInv => Work!WorkTypeOK
<1> SUFFICES ASSUME WorkInv PROVE Work!WorkTypeOK
  OBVIOUS
<1>1. workLists \in [flying : [Work!Folders -> 0 .. MaxLists], held : [Work!Folders -> BOOLEAN]]
  <2>1. \A f \in Work!Folders : workLists.flying[f] \in 0 .. MaxLists
    BY PartsAssumption DEF WorkInv, Listing, Work!Folders
  <2> QED
    BY <2>1 DEF WorkInv, Listing
<1>2. workPreview.id \in 0 .. MaxFiles + Cardinality(Openers)
  BY OpenedIsFinite, PartsAssumption DEF WorkInv, Previewing
<1>3. workReads \subseteq [id : 1 .. MaxFiles + Cardinality(Openers), path : Work!Files]
  <2>1. \A read \in workReads : read.id \in 1 .. MaxFiles + Cardinality(Openers)
    BY <1>2, OpenedIsFinite, PartsAssumption DEF WorkInv, Previewing
  <2> QED
    BY <2>1 DEF WorkInv, Previewing
<1>4. workPreview \in [id : 0 .. MaxFiles + Cardinality(Openers), selected : Work!Files \cup {"none"},
                       status : {"idle", "loading", "ready", "error"}, path : Work!Files \cup {"none"}]
  BY <1>2 DEF WorkInv, Previewing
<1> QED
  BY <1>1, <1>3, <1>4, WorkCardinality DEF WorkInv, Listing, Previewing, Work!WorkTypeOK

\* Nothing is loading in the beginning.
LEMMA WorkBegins == Work!WorkInit => WorkInv
<1> SUFFICES ASSUME Work!WorkInit PROVE WorkInv
  OBVIOUS
<1>1. Listing
  BY PartsAssumption DEF Listing, Work!WorkInit, Work!Folders, Work!LoadingIsUnderWay
<1>2. Previewing
  BY OpenedIsFinite, PartsAssumption DEF Previewing, FilesSought, Work!WorkInit, Work!PreviewIsOfSelection
<1> QED
  BY <1>1, <1>2 DEF WorkInv, Work!WorkInit, Work!Kinds

\* The two halves of the invariant rest with the variables they speak of.
LEMMA RestsListing == ASSUME Listing, UNCHANGED <<workFolders, workLists, workAsked>> PROVE Listing'
  BY DEF Listing, Work!LoadingIsUnderWay

\* Nothing is previewed by a step that leaves openers, preview and reads alone.
LEMMA RestsPreviewing ==
  ASSUME Previewing, UNCHANGED <<workOpeners, workPreview, workReads>>
  PROVE  Previewing'
<1>1. Opened' = Opened
  BY DEF Opened
<1> QED
  BY <1>1 DEF Previewing, FilesSought, Work!PreviewIsOfSelection

\* A listing asked for is under way, and its folder loads.
LEMMA AsksKeeps ==
  ASSUME Listing, NEW f \in Work!Folders, Work!Asks(f)
  PROVE  Listing'
<1>1. workFolders' \in [status : [Work!Folders -> {"none", "loading", "ready", "error"}],
                       entry : Work!Kinds \cup {"unlisted"}]
  BY DEF Listing, Work!Asks
<1>2. workLists' \in [flying : [Work!Folders -> Nat], held : [Work!Folders -> BOOLEAN]]
  <2>1. /\ workLists.flying \in [Work!Folders -> Nat] /\ workLists.held \in [Work!Folders -> BOOLEAN]
        /\ workLists = [flying |-> workLists.flying, held |-> workLists.held]
    BY DEF Listing
  <2>2. workLists' = [flying |-> [workLists.flying EXCEPT ![f] = workLists.flying[f] + 1],
                      held |-> [workLists.held EXCEPT ![f] = TRUE]]
    BY <2>1 DEF Work!Asks
  <2> QED
    BY <2>1, <2>2
<1> QED
  BY <1>1, <1>2, PartsAssumption DEF Listing, Work!Asks, Work!Folders, Work!LoadingIsUnderWay

\* A folder that is looked for is asked for at most.
LEMMA EnsureKeeps ==
  ASSUME Listing, NEW f \in Work!Folders, Work!ensureDirectory(f)
  PROVE  Listing'
  BY AsksKeeps DEF Work!ensureDirectory, Listing, Work!LoadingIsUnderWay

\* A listing that ends says what its folder is, and loads it no longer.
LEMMA ListEndsKeeps ==
  ASSUME Listing, NEW f \in Work!Folders, NEW status \in {"ready", "error"},
         NEW entry \in Work!Kinds \cup {"unlisted"}, Work!ListEnds(f, status, entry)
  PROVE  Listing'
<1>1. workFolders' \in [status : [Work!Folders -> {"none", "loading", "ready", "error"}],
                       entry : Work!Kinds \cup {"unlisted"}]
  BY DEF Listing, Work!ListEnds
<1>2. workLists' \in [flying : [Work!Folders -> Nat], held : [Work!Folders -> BOOLEAN]]
  <2>1. /\ workLists.flying \in [Work!Folders -> Nat] /\ workLists.held \in [Work!Folders -> BOOLEAN]
        /\ workLists = [flying |-> workLists.flying, held |-> workLists.held]
    BY DEF Listing
  <2>2. workLists' = [flying |-> [workLists.flying EXCEPT ![f] = workLists.flying[f] - 1],
                      held |-> [workLists.held EXCEPT ![f] = FALSE]]
    BY <2>1 DEF Work!ListEnds
  <2>3. workLists.flying[f] - 1 \in Nat
    BY <2>1 DEF Work!ListEnds
  <2> QED
    BY <2>1, <2>2, <2>3
<1> QED
  BY <1>1, <1>2, PartsAssumption DEF Listing, Work!ListEnds, Work!Folders, Work!LoadingIsUnderWay


\* A file is loaded: the read is the last one asked for.
LEMMA LoadKeeps ==
  ASSUME Previewing, NEW path \in Work!Files, Work!loadFile(path),
         workOpeners' \in [Openers -> [at : Work!Waiting \cup {"new", "done"},
                                       target : Work!Files \cup {"root"}, kind : {"auto", "file"}]],
         FilesSought',
         workPreview.id + 1 <= MaxFiles + Cardinality(Opened')
  PROVE  Previewing'
<1>1. workPreview' = [id |-> workPreview.id + 1, selected |-> path, status |-> "loading", path |-> path]
  BY DEF Work!loadFile
<1>2. workReads' = workReads \cup {[id |-> workPreview.id + 1, path |-> path]}
  BY DEF Work!loadFile
<1> DEFINE new == [id |-> workPreview.id + 1, path |-> path]
<1>3. workPreview.id + 1 \in Nat \ {0}
  BY DEF Previewing
<1>4. workPreview' \in [id : Nat, selected : Work!Files \cup {"none"},
                       status : {"idle", "loading", "ready", "error"}, path : Work!Files \cup {"none"}]
  BY <1>1, <1>3
<1>5. workReads' \subseteq [id : Nat \ {0}, path : Work!Files]
  BY <1>2, <1>3 DEF Previewing
<1>6. ASSUME NEW read \in workReads'
      PROVE  /\ read.id <= workPreview'.id
             /\ read.id = workPreview'.id => read.path = workPreview'.path
  <2>1. CASE read \in workReads
    BY <1>1, <1>3, <2>1 DEF Previewing
  <2>2. CASE read = new
    BY <1>1, <1>3, <2>2
  <2> QED
    BY <1>2, <2>1, <2>2
<1>7. new \in workReads' /\ new.id = workPreview'.id
  BY <1>1, <1>2
<1>8. Work!PreviewIsOfSelection'
  BY <1>1, <1>7 DEF Work!PreviewIsOfSelection
<1> QED
  BY <1>1, <1>4, <1>5, <1>6, <1>8 DEF Previewing

\* One more opener is done.
LEMMA DoneOpens ==
  ASSUME Previewing, NEW o \in Openers, workOpeners[o].at # "done", Work!Steps(o, "done")
  PROVE  /\ workOpeners' \in [Openers -> [at : Work!Waiting \cup {"new", "done"},
                                          target : Work!Files \cup {"root"}, kind : {"auto", "file"}]]
         /\ FilesSought'
         /\ workPreview.id + 1 <= MaxFiles + Cardinality(Opened')
         /\ Cardinality(Opened') \in Nat
<1>1. workOpeners' = [workOpeners EXCEPT ![o] = [workOpeners[o] EXCEPT !.at = "done"]]
  BY DEF Work!Steps
<1>2. Opened' = Opened \cup {o}
  BY <1>1 DEF Opened, Previewing
<1>3. Cardinality(Opened') = Cardinality(Opened) + 1
  BY <1>2, OpenedIsFinite, FS_AddElement DEF Opened
<1> QED
  BY <1>1, <1>3, OpenedIsFinite, PartsAssumption DEF Previewing, FilesSought

\* An opener that goes on, with nothing loaded.
LEMMA OpenerMoves ==
  ASSUME Previewing, NEW o \in Openers, workOpeners[o].at # "done",
         NEW at \in Work!Waiting, NEW target \in Work!Files \cup {"root"}, NEW kind \in {"auto", "file"},
         at \in {"root", "parent", "probe"} => target \in Work!Files,
         workOpeners' = [workOpeners EXCEPT ![o] = [at |-> at, target |-> target, kind |-> kind]],
         UNCHANGED <<workPreview, workReads>>
  PROVE  Previewing'
<1>1. Opened' = Opened
  BY DEF Opened, Previewing, Work!Waiting
<1> QED
  BY <1>1 DEF Previewing, FilesSought, Work!PreviewIsOfSelection

\* An answer that comes for the last read is of the path previewed, and one
\* that was overtaken is not shown.
LEMMA ReadKeeps ==
  ASSUME Previewing, Work!ReadReturns
  PROVE  Previewing'
<1>1. PICK read \in workReads :
        /\ workReads' = workReads \ {read}
        /\ workPreview' =
             IF read.id = workPreview.id
             THEN [workPreview EXCEPT !.path = read.path,
                                      !.status = IF Work!resolveTarget(read.path, "file") THEN "ready" ELSE "error"]
             ELSE workPreview
  BY DEF Work!ReadReturns, Work!IsLatest
<1>2. UNCHANGED workOpeners /\ Opened' = Opened
  BY DEF Work!ReadReturns, Opened
<1>3. CASE read.id = workPreview.id
  BY <1>1, <1>2, <1>3 DEF Previewing, FilesSought, Work!PreviewIsOfSelection
<1>4. CASE read.id # workPreview.id
  BY <1>1, <1>2, <1>4 DEF Previewing, FilesSought, Work!PreviewIsOfSelection
<1> QED
  BY <1>3, <1>4

\* The steps of an opener that asks for a folder, and the one that loads a
\* file, are moves of it.
LEMMA StepMoves ==
  ASSUME Previewing, NEW o \in Openers, workOpeners[o].at # "done", NEW at \in Work!Waiting,
         at \in {"root", "parent", "probe"} => workOpeners[o].target \in Work!Files,
         Work!Steps(o, at), UNCHANGED <<workPreview, workReads>>
  PROVE  Previewing'
<1>1. workOpeners' = [workOpeners EXCEPT ![o] = [workOpeners[o] EXCEPT !.at = at]]
  BY DEF Work!Steps
<1>2. workOpeners[o] \in [at : Work!Waiting \cup {"new", "done"}, target : Work!Files \cup {"root"},
                          kind : {"auto", "file"}]
  BY DEF Previewing
<1>3. [workOpeners[o] EXCEPT !.at = at]
        = [at |-> at, target |-> workOpeners[o].target, kind |-> workOpeners[o].kind]
  BY <1>2
<1> QED
  BY <1>1, <1>2, <1>3, OpenerMoves

\* An opener that found a file is done, and the file is read.
LEMMA FileOpens ==
  ASSUME Previewing, NEW o \in Openers, workOpeners[o].at # "done", Work!Steps(o, "done"),
         workOpeners[o].target \in Work!Files, Work!loadFile(workOpeners[o].target)
  PROVE  Previewing'
  BY DoneOpens, LoadKeeps

\* An opener whose target is the root opens no file.
LEMMA DirectoryOpens ==
  ASSUME Previewing, NEW o \in Openers, Work!openDirectory(o)
  PROVE  Previewing'
<1>1. workOpeners[o].at # "done" /\ Work!Steps(o, "done")
  BY DEF Work!openDirectory
<1>2. /\ workPreview' = [id |-> workPreview.id + 1, selected |-> "none", status |-> "idle", path |-> "none"]
      /\ workReads' = workReads
  BY DEF Work!openDirectory
<1>3. workPreview.id + 1 \in Nat
  BY DEF Previewing
<1> QED
  BY <1>1, <1>2, <1>3, DoneOpens DEF Previewing, Work!PreviewIsOfSelection

\* What the steps of openRequestedPath keep.
LEMMA OpenersKeep ==
  ASSUME WorkInv, NEW o \in Openers,
         \/ \E target \in Work!Files \cup {"root"}, kind \in {"auto", "file"} :
              Work!openRequestedPath(o, target, kind)
         \/ Work!RootListed(o) \/ Work!resolveRequestedTargetKind(o) \/ Work!probeDirectory(o)
         \/ Work!expandDirectoryChain(o) \/ Work!openDirectory(o)
  PROVE  WorkInv'
<1> USE DEF WorkInv
<1>0. "root" \in Work!Folders /\ "t" \in Work!Folders /\ Work!Waiting = {"root", "parent", "probe", "chainRoot", "chain"}
  BY DEF Work!Folders, Work!Waiting
<1>1. ASSUME NEW target \in Work!Files \cup {"root"}, NEW kind \in {"auto", "file"},
             Work!openRequestedPath(o, target, kind)
      PROVE  WorkInv'
  <2>1. Listing' /\ workDisk' = workDisk
    BY <1>0, <1>1, EnsureKeeps DEF Work!openRequestedPath
  <2>2. Previewing'
    BY <1>0, <1>1, OpenerMoves DEF Work!openRequestedPath
  <2> QED
    BY <2>1, <2>2
<1>2. CASE Work!RootListed(o)
  <2>1. workOpeners[o].at = "root" /\ workOpeners[o].target \in Work!Files /\ workDisk' = workDisk
    BY <1>2 DEF Work!RootListed, Previewing, FilesSought
  <2>2. CASE workOpeners[o].kind = "file"
    <3>1. Work!Steps(o, "done") /\ Work!loadFile(workOpeners[o].target)
          /\ UNCHANGED <<workFolders, workLists, workAsked>>
      BY <1>2, <2>2 DEF Work!RootListed
    <3>2. Previewing'
      BY <2>1, <3>1, FileOpens
    <3> QED
      BY <2>1, <3>1, <3>2, RestsListing
  <2>3. CASE workOpeners[o].kind # "file"
    <3>1. Work!Steps(o, "parent") /\ Work!ensureDirectory("root") /\ UNCHANGED <<workPreview, workReads>>
      BY <1>2, <2>3 DEF Work!RootListed
    <3> QED
      BY <1>0, <2>1, <3>1, EnsureKeeps, StepMoves
  <2> QED
    BY <2>2, <2>3
<1>3. CASE Work!resolveRequestedTargetKind(o)
  <2>1. workOpeners[o].at = "parent" /\ workOpeners[o].target \in Work!Files /\ workDisk' = workDisk
    BY <1>3 DEF Work!resolveRequestedTargetKind, Previewing, FilesSought
  <2>2. \/ /\ Work!Steps(o, "probe")
           /\ UNCHANGED <<workFolders, workLists, workAsked, workPreview, workReads>>
        \/ /\ Work!Steps(o, "chainRoot") /\ Work!ensureDirectory("root")
           /\ UNCHANGED <<workPreview, workReads>>
        \/ /\ Work!Steps(o, "done") /\ Work!loadFile(workOpeners[o].target)
           /\ UNCHANGED <<workFolders, workLists, workAsked>>
    BY <1>3 DEF Work!resolveRequestedTargetKind
  <2> QED
    BY <1>0, <2>1, <2>2, StepMoves, EnsureKeeps, FileOpens, RestsListing
<1>4. CASE Work!probeDirectory(o)
  <2>1. workOpeners[o].at = "probe" /\ workOpeners[o].target \in Work!Files /\ workDisk' = workDisk
    BY <1>4 DEF Work!probeDirectory, Previewing, FilesSought
  <2>2. \/ /\ Work!Steps(o, "chainRoot") /\ Work!ensureDirectory("root")
           /\ UNCHANGED <<workPreview, workReads>>
        \/ /\ Work!Steps(o, "done") /\ Work!loadFile(workOpeners[o].target)
           /\ UNCHANGED <<workFolders, workLists, workAsked>>
    BY <1>4 DEF Work!probeDirectory
  <2> QED
    BY <1>0, <2>1, <2>2, StepMoves, EnsureKeeps, FileOpens, RestsListing
<1>5. CASE Work!expandDirectoryChain(o)
  BY <1>0, <1>5, StepMoves, EnsureKeeps DEF Work!expandDirectoryChain
<1>6. CASE Work!openDirectory(o)
  BY <1>6, DirectoryOpens, RestsListing DEF Work!openDirectory
<1> QED
  BY <1>1, <1>2, <1>3, <1>4, <1>5, <1>6

\* No step of the browser leaves a folder loading for good, or shows what was
\* not selected.
LEMMA WorkKeeps == WorkInv /\ [Work!WorkNext]_workVars => WorkInv'
<1> SUFFICES ASSUME WorkInv, [Work!WorkNext]_workVars PROVE WorkInv'
  OBVIOUS
<1> USE DEF WorkInv
<1>1. CASE Work!DiskChanges
  BY <1>1, RestsListing, RestsPreviewing DEF Work!DiskChanges
<1>2. CASE Work!ReadReturns
  BY <1>2, ReadKeeps, RestsListing DEF Work!ReadReturns
<1>3. ASSUME NEW f \in Work!Folders, Work!handleRetryDirectory(f) PROVE WorkInv'
  BY <1>3, AsksKeeps, RestsPreviewing DEF Work!handleRetryDirectory
<1>4. ASSUME NEW f \in Work!Folders, Work!handleToggleDirectory(f) PROVE WorkInv'
  <2>1. Previewing'
    <3>1. workPreview' = [workPreview EXCEPT !.selected = "none"] /\ UNCHANGED <<workOpeners, workReads>>
      BY <1>4 DEF Work!handleToggleDirectory
    <3>2. Opened' = Opened
      BY <3>1 DEF Opened
    <3> QED
      BY <3>1, <3>2 DEF Previewing, FilesSought, Work!PreviewIsOfSelection
  <2> QED
    BY <1>4, <2>1, EnsureKeeps DEF Work!handleToggleDirectory
<1>5. ASSUME NEW f \in Work!Folders, Work!ListReturns(f) \/ Work!ListFails(f) PROVE WorkInv'
  <2>1. PICK status \in {"ready", "error"}, entry \in Work!Kinds \cup {"unlisted"} :
          Work!ListEnds(f, status, entry)
    BY <1>5 DEF Work!ListReturns, Work!ListFails, Listing
  <2>2. UNCHANGED <<workDisk, workOpeners, workPreview, workReads>>
    BY <2>1 DEF Work!ListEnds
  <2> QED
    BY <2>1, <2>2, ListEndsKeeps, RestsPreviewing
<1>6. ASSUME NEW path \in Work!Files, Work!SelectFile(path) PROVE WorkInv'
  <2>1. Opened' = Opened /\ UNCHANGED <<workDisk, workFolders, workLists, workOpeners, workAsked>>
    BY <1>6 DEF Work!SelectFile, Opened
  <2>2. workPreview.id + 1 <= MaxFiles + Cardinality(Opened')
    BY <1>6, <2>1, OpenedIsFinite, PartsAssumption DEF Work!SelectFile, Previewing
  <2>3. Previewing'
    BY <1>6, <2>1, <2>2, LoadKeeps DEF Work!SelectFile, Previewing, FilesSought
  <2> QED
    BY <2>1, <2>3, RestsListing
<1>7. CASE UNCHANGED workVars
  BY <1>7, RestsListing, RestsPreviewing DEF workVars
<1> QED
  BY <1>1, <1>2, <1>3, <1>4, <1>5, <1>6, <1>7, OpenersKeep DEF Work!WorkNext

-----------------------------------------------------------------------------
(* The composer's text (ComposerInput)                                     *)

Texts == Box!Typed \cup {[t EXCEPT !.open = FALSE] : t \in Box!Typed}

\* A search state whose matches, if it has any, were found for its query.
SearchStates ==
  {search \in [status : {"idle", "loading", "ready", "error"}, query : Box!Queries,
               matches : Box!Queries \cup {Box!NoMatches}] :
     search.matches \in {Box!Normalised(search.query), Box!NoMatches}}

\* There is a query to search for.
Wanted(enabled, text) == Box!Looking(text) /\ text.arg # "" /\ enabled

\* While the timer runs no search in flight is the last; after it has fired, the
\* last one is of the text in the box.
SearchFollows ==
  /\ boxTimer => Wanted(boxEnabled, boxText) /\ boxId >= 1
  /\ \A asked \in boxAsked : asked.id <= boxId /\ (boxTimer => asked.id # boxId)
  /\ Wanted(boxEnabled, boxText) /\ ~boxTimer =>
       /\ \A asked \in boxAsked : asked.id = boxId => asked.query = boxText.arg
       /\ boxSearch.query \in {boxText.arg, Box!Normalised(boxText.arg)}
       /\ boxSearch.status \in {"loading", "ready", "error"}
       /\ boxSearch.status = "ready" => boxSearch.matches # Box!NoMatches

\* The type of what the searches do not touch, and of the rest.
Rest == boxCalls \subseteq {"send", "command", "reviewSheet", "renameSheet"}
        /\ boxSheet \in {"none", "review", "rename", "settings"}

BoxTypes ==
  /\ boxEnabled \in BOOLEAN
  /\ boxText \in Texts /\ boxSearch \in SearchStates
  /\ boxTimer \in BOOLEAN /\ boxId \in 0 .. MaxSearches
  /\ boxAsked \subseteq [id : 1 .. MaxSearches, query : Box!Queries]
  /\ Rest

BoxInv == BoxTypes /\ SearchFollows

\* A query made of a query is one, and is made of itself.
LEMMA NormalisedIs ==
  /\ \A q : Box!Normalised(Box!Normalised(q)) = Box!Normalised(q)
  /\ \A q \in Box!Queries : Box!Normalised(q) \in Box!Queries
  BY DEF Box!Normalised, Box!Queries

\* What the invariant of the composer's text is for.
LEMMA BoxImplies == BoxInv => Box!BoxTypeOK /\ Box!MatchesAnswerQuery
<1> SUFFICES ASSUME BoxInv PROVE Box!BoxTypeOK /\ Box!MatchesAnswerQuery
  OBVIOUS
<1>1. Box!BoxTypeOK
  BY DEF BoxInv, BoxTypes, Rest, Texts, SearchStates, Box!BoxTypeOK
<1>2. ASSUME Wanted(boxEnabled, boxText), ~boxTimer
      PROVE  /\ boxSearch.query \in {boxText.arg, Box!Normalised(boxText.arg)}
             /\ boxSearch.status \in {"loading", "ready", "error"}
             /\ boxSearch.matches \in {Box!Normalised(boxText.arg), Box!NoMatches}
             /\ boxSearch.status = "ready" => boxSearch.matches # Box!NoMatches
  BY <1>2, NormalisedIs DEF BoxInv, BoxTypes, SearchFollows, SearchStates
<1> QED
  BY <1>1, <1>2 DEF Box!MatchesAnswerQuery, Wanted

Shapes == [kind : {"empty", "words", "mention", "command", "instructed"},
           arg : Box!Queries \cup Box!Commands \cup {"any"}, open : BOOLEAN]

\* A text whose popup is closed differs in nothing else.
LEMMA ClosedText ==
  ASSUME NEW t \in Shapes
  PROVE  /\ [t EXCEPT !.open = FALSE] = [kind |-> t.kind, arg |-> t.arg, open |-> FALSE]
         /\ t = [kind |-> t.kind, arg |-> t.arg, open |-> t.open]
<1>1. /\ [t EXCEPT !.open = FALSE] \in [kind : {t.kind}, arg : {t.arg}, open : {FALSE}]
      /\ t \in [kind : {t.kind}, arg : {t.arg}, open : {t.open}]
  BY DEF Shapes
<1>2. ASSUME NEW b, NEW u \in [kind : {t.kind}, arg : {t.arg}, open : {b}]
      PROVE  u = [kind |-> t.kind, arg |-> t.arg, open |-> b]
  OBVIOUS
<1> QED
  BY <1>1, <1>2

\* What is typed has the shape of a text, and what is looked for is a query.
LEMMA TypedAre ==
  \A t \in Box!Typed :
    /\ t \in Shapes
    /\ t.kind = "mention" => t.arg \in Box!Queries
    /\ t.kind \in {"command", "instructed"} => t.arg \in Box!Commands \cup {"any"}
<1>1. /\ Box!Empty \in Shapes /\ Box!Empty.kind = "empty"
      /\ Box!Words \in Shapes /\ Box!Words.kind = "words"
  BY DEF Box!Empty, Box!Words, Shapes, Box!Queries
<1>2. ASSUME NEW q \in Box!Queries PROVE Box!Mention(q) \in Shapes /\ Box!Mention(q).kind = "mention" /\ Box!Mention(q).arg = q
  BY DEF Box!Mention, Shapes
<1>3. ASSUME NEW id \in Box!Commands \cup {"any"}
      PROVE  Box!Command(id, TRUE) \in Shapes /\ Box!Command(id, TRUE).kind = "command" /\ Box!Command(id, TRUE).arg = id
  BY DEF Box!Command, Shapes
<1>4. ASSUME NEW id \in Box!SupportsInlineArgs
      PROVE  /\ Box!Instructed(id) \in Shapes /\ Box!Instructed(id).kind = "instructed"
             /\ Box!Instructed(id).arg \in Box!Commands
  BY DEF Box!Instructed, Shapes, Box!SupportsInlineArgs, Box!Commands
<1>5. ASSUME NEW t \in Box!Typed
      PROVE  \/ t \in {Box!Empty, Box!Words}
             \/ \E q \in Box!Queries : t = Box!Mention(q)
             \/ \E id \in Box!Commands \cup {"any"} : t = Box!Command(id, TRUE)
             \/ \E id \in Box!SupportsInlineArgs : t = Box!Instructed(id)
  BY DEF Box!Typed
<1>6. ASSUME NEW t \in Box!Typed
      PROVE  /\ t \in Shapes
             /\ t.kind = "mention" => t.arg \in Box!Queries
             /\ t.kind \in {"command", "instructed"} => t.arg \in Box!Commands \cup {"any"}
  <2>1. CASE t \in {Box!Empty, Box!Words}
    BY <1>1, <2>1
  <2>2. CASE \E q \in Box!Queries : t = Box!Mention(q)
    BY <1>2, <2>2
  <2>3. CASE \E id \in Box!Commands \cup {"any"} : t = Box!Command(id, TRUE)
    BY <1>3, <2>3
  <2>4. CASE \E id \in Box!SupportsInlineArgs : t = Box!Instructed(id)
    BY <1>4, <2>4
  <2> QED
    BY <1>5, <2>1, <2>2, <2>3, <2>4
<1> QED
  BY <1>6

\* What the texts are made of.
LEMMA TextsAre ==
  /\ Box!Empty \in Texts /\ Box!Words \in Texts
  /\ \A q \in Box!Queries : Box!Mention(q) \in Texts
  /\ \A id \in Box!Commands : Box!Command(id, FALSE) \in Texts
  /\ Box!Typed \subseteq Texts
  /\ \A t \in Texts : [t EXCEPT !.open = FALSE] \in Texts
  /\ \A t \in Texts : Box!Looking(t) => t.arg \in Box!Queries
  /\ \A t \in Texts : t.kind \in {"command", "instructed"} => t.arg \in Box!Commands \cup {"any"}
  /\ ~Box!Looking(Box!Empty) /\ ~Box!Looking(Box!Words)
<1>1. /\ Box!Empty \in Texts /\ Box!Words \in Texts
      /\ \A q \in Box!Queries : Box!Mention(q) \in Texts
  BY DEF Texts, Box!Typed
<1>2. ASSUME NEW id \in Box!Commands PROVE Box!Command(id, FALSE) \in Texts
  <2>1. Box!Command(id, TRUE) \in Box!Typed
    BY DEF Box!Typed
  <2>2. Box!Command(id, FALSE) = [Box!Command(id, TRUE) EXCEPT !.open = FALSE]
    <3> DEFINE t == Box!Command(id, TRUE)
    <3>1. t.kind = "command" /\ t.arg = id
      BY DEF Box!Command
    <3>2. t \in Shapes
      BY <2>1, TypedAre
    <3> HIDE DEF t
    <3>3. [t EXCEPT !.open = FALSE] = [kind |-> "command", arg |-> id, open |-> FALSE]
      BY <3>1, <3>2, ClosedText
    <3> QED
      BY <3>3 DEF t, Box!Command
  <2> QED
    BY <2>1, <2>2 DEF Texts
<1>3. ASSUME NEW t \in Texts
      PROVE  /\ [t EXCEPT !.open = FALSE] \in Texts
             /\ Box!Looking(t) => t.arg \in Box!Queries
             /\ t.kind \in {"command", "instructed"} => t.arg \in Box!Commands \cup {"any"}
  <2>1. CASE t \in Box!Typed
    BY <2>1, TypedAre DEF Texts, Box!Looking
  <2>2. ASSUME NEW u \in Box!Typed, t = [u EXCEPT !.open = FALSE]
        PROVE  /\ [t EXCEPT !.open = FALSE] = t
               /\ Box!Looking(t) => t.arg \in Box!Queries
               /\ t.kind \in {"command", "instructed"} => t.arg \in Box!Commands \cup {"any"}
    <3>1. /\ u \in Shapes
          /\ u.kind = "mention" => u.arg \in Box!Queries
          /\ u.kind \in {"command", "instructed"} => u.arg \in Box!Commands \cup {"any"}
      BY TypedAre
    <3>2. t = [kind |-> u.kind, arg |-> u.arg, open |-> FALSE]
      BY <2>2, <3>1, ClosedText
    <3>3. t.kind = u.kind /\ t.arg = u.arg /\ t.open = FALSE /\ t \in Shapes
      BY <3>1, <3>2 DEF Shapes
    <3>4. [t EXCEPT !.open = FALSE] = t
      BY <3>2, <3>3, ClosedText
    <3> QED
      BY <3>1, <3>3, <3>4 DEF Box!Looking
  <2> QED
    BY <2>1, <2>2 DEF Texts
<1>5. ~Box!Looking(Box!Empty) /\ ~Box!Looking(Box!Words)
  BY DEF Box!Looking, Box!Empty, Box!Words
<1>6. Box!Typed \subseteq Texts
  BY DEF Texts
<1> QED
  BY <1>1, <1>2, <1>3, <1>5, <1>6

\* A search that is not under way, or was ended, is a search.
LEMMA NoSearchIsOne ==
  /\ Box!NoSearch \in SearchStates
  /\ \A q \in Box!Queries : [Box!NoSearch EXCEPT !.status = "error", !.query = q] \in SearchStates
  /\ [Box!NoSearch EXCEPT !.status = "ready"] \in SearchStates
  BY DEF Box!NoSearch, SearchStates, Box!Queries

\* The effect leaves the search as it is, or ends it, or starts its timer.
LEMMA EffectKeeps ==
  ASSUME BoxInv, boxEnabled' \in BOOLEAN, boxText' \in Texts,
         NEW search \in SearchStates, search = boxSearch \/ ~Box!Looking(boxText'),
         Box!SearchEffect(boxEnabled', boxText', search), boxAsked' = boxAsked, Rest'
  PROVE  BoxInv'
<1> USE PartsAssumption DEF BoxInv, BoxTypes
<1>1. CASE /\ Box!Looking(boxText') = Box!Looking(boxText)
           /\ Box!Looking(boxText') => boxText'.arg = boxText.arg
           /\ boxEnabled' = boxEnabled
  <2>1. boxSearch' = search /\ UNCHANGED <<boxTimer, boxId>>
    BY <1>1 DEF Box!SearchEffect
  <2>2. SearchFollows'
    <3>1. Wanted(boxEnabled, boxText)' <=> Wanted(boxEnabled, boxText)
      BY <1>1 DEF Wanted
    <3>2. Wanted(boxEnabled, boxText) => Box!Looking(boxText')
      BY <1>1 DEF Wanted
    <3> QED
      BY <1>1, <2>1, <3>1, <3>2 DEF SearchFollows
  <2> QED
    BY <2>1, <2>2
<1>2. CASE ~ /\ Box!Looking(boxText') = Box!Looking(boxText)
             /\ Box!Looking(boxText') => boxText'.arg = boxText.arg
             /\ boxEnabled' = boxEnabled
  <2> DEFINE waits == Box!Looking(boxText') /\ boxEnabled' /\ boxText'.arg # ""
  <2>1. /\ boxTimer' = waits
        /\ waits => boxId < MaxSearches
        /\ boxId' = IF waits THEN boxId + 1 ELSE boxId
        /\ boxSearch' = CASE ~Box!Looking(boxText') -> Box!NoSearch
                          [] Box!Looking(boxText') /\ ~boxEnabled' ->
                               [Box!NoSearch EXCEPT !.status = "error", !.query = boxText'.arg]
                          [] Box!Looking(boxText') /\ boxEnabled' /\ boxText'.arg = "" ->
                               [Box!NoSearch EXCEPT !.status = "ready"]
                          [] OTHER -> search
    BY <1>2 DEF Box!SearchEffect
  <2>2. boxTimer' \in BOOLEAN
    BY <2>1 DEF Box!Looking
  <2>w. waits \in BOOLEAN /\ boxId \in 0 .. MaxSearches
    BY DEF Box!Looking
  <2>i. /\ boxTimer' = waits /\ (waits => boxId < MaxSearches)
        /\ boxId' = IF waits THEN boxId + 1 ELSE boxId
    BY <2>1
  <2>3. boxId' \in 0 .. MaxSearches
    <3> HIDE DEF waits
    <3>1. CASE waits
      BY <2>i, <2>w, <3>1
    <3>2. CASE ~waits
      BY <2>i, <2>w, <3>2
    <3> QED
      BY <3>1, <3>2
  <2>4. boxSearch' \in SearchStates
    BY <2>1, TextsAre, NoSearchIsOne
  <2>5. Wanted(boxEnabled, boxText)' <=> waits
    BY DEF Wanted
  <2>6. boxTimer' => boxId' = boxId + 1
    BY <2>1
  <2>7. \A asked \in boxAsked : asked.id <= boxId /\ asked.id \in Nat
    BY DEF SearchFollows
  <2> HIDE DEF waits
  <2>8. SearchFollows'
    <3>1. CASE waits
      <4>1. boxTimer' /\ boxId' = boxId + 1 /\ boxId \in Nat /\ Wanted(boxEnabled, boxText)'
        BY <2>i, <2>w, <2>5, <3>1
      <4>2. \A asked \in boxAsked' : asked.id <= boxId /\ asked.id \in Nat
        BY <2>7
      <4> QED
        BY <4>1, <4>2 DEF SearchFollows
    <3>2. CASE ~waits
      BY <2>1, <2>3, <2>5, <2>7, <3>2 DEF SearchFollows
    <3> QED
      BY <3>1, <3>2
  <2> QED
    BY <2>2, <2>3, <2>4, <2>8
<1> QED
  BY <1>1, <1>2

\* Steps that leave the text and the search alone.
LEMMA RestKeeps ==
  ASSUME BoxInv, UNCHANGED <<boxEnabled, boxText, boxSearch, boxTimer, boxId, boxAsked>>, Rest'
  PROVE  BoxInv'
  BY DEF BoxTypes, BoxInv, SearchFollows, Wanted

\* A text that is put in the box.
LEMMA HeldKeeps ==
  ASSUME BoxInv, NEW text \in Texts, Box!Holds(text), UNCHANGED <<boxEnabled, boxAsked>>, Rest'
  PROVE  BoxInv'
  BY EffectKeeps DEF BoxTypes, BoxInv, Box!Holds

\* The composer is emptied.
LEMMA ClearedKeeps ==
  ASSUME BoxInv, NEW text \in {Box!Empty, Box!Words}, Box!clearCommandDraft(text),
         UNCHANGED <<boxEnabled, boxAsked>>, Rest'
  PROVE  BoxInv'
  BY EffectKeeps, TextsAre, NoSearchIsOne DEF BoxTypes, BoxInv, Box!clearCommandDraft

\* The invariant of the composer's text holds at first.
LEMMA BoxBegins == Box!BoxInit => BoxInv
<1> SUFFICES ASSUME Box!BoxInit PROVE BoxInv
  OBVIOUS
<1>1. boxText \in Texts /\ boxSearch \in SearchStates /\ ~Box!Looking(boxText)
  BY TextsAre, NoSearchIsOne DEF Box!BoxInit
<1>2. boxTimer = FALSE /\ boxId = 0 /\ boxAsked = {} /\ boxCalls = {} /\ boxSheet = "none"
  BY DEF Box!BoxInit
<1>3. boxEnabled \in BOOLEAN
  BY DEF Box!BoxInit
<1>4. boxId \in 0 .. MaxSearches
  BY <1>2, PartsAssumption
<1>5. BoxTypes
  BY <1>1, <1>2, <1>3, <1>4 DEF BoxTypes, Rest
<1>6. SearchFollows
  BY <1>1, <1>2 DEF SearchFollows, Wanted
<1> QED
  BY <1>5, <1>6 DEF BoxInv

\* A command awaits the bridge, or opens a sheet over a cleared box.
LEMMA CommandKeeps ==
  ASSUME BoxInv, NEW id \in Box!Commands, NEW args \in BOOLEAN, Box!executeSupportedCommand(id, args)
  PROVE  BoxInv'
<1>1. /\ Rest /\ UNCHANGED <<boxEnabled, boxAsked>>
      /\ boxEnabled \in BOOLEAN
  BY DEF BoxTypes, BoxInv, Box!executeSupportedCommand
<1>2. CASE Box!Awaits("command")
  BY <1>1, <1>2, RestKeeps DEF Box!Awaits, Rest
<1>3. ASSUME NEW sheet \in {"none", "review", "rename", "settings"}, NEW text \in {Box!Empty, Box!Words},
             Box!Opens(sheet, text)
      PROVE  BoxInv'
  <2>1. Rest' /\ Box!clearCommandDraft(text)
    BY <1>1, <1>3 DEF Box!Opens, Rest
  <2> QED
    BY <1>1, <2>1, ClearedKeeps
<1>4. CASE Box!Holds(Box!Mention("")) /\ UNCHANGED <<boxCalls, boxSheet>>
  <2>1. Rest' /\ Box!Mention("") \in Texts
    BY <1>1, <1>4, TextsAre DEF Rest, Box!Queries
  <2> QED
    BY <1>1, <1>4, <2>1, HeldKeeps
<1>5. CASE id = "compact" \/ args
  BY <1>2, <1>5 DEF Box!executeSupportedCommand
<1>6. CASE ~args /\ id \in {"review", "rename"}
  <2>1. Box!Opens(id, Box!Empty)
    BY <1>6 DEF Box!executeSupportedCommand
  <2> QED
    BY <1>3, <1>6, <2>1
<1>7. CASE ~args /\ id = "resume"
  <2>1. Box!Opens(boxSheet, Box!Empty)
    BY <1>7 DEF Box!executeSupportedCommand
  <2> QED
    BY <1>1, <1>3, <2>1 DEF Rest
<1>8. CASE ~args /\ id = "mention"
  BY <1>4, <1>8 DEF Box!executeSupportedCommand
<1>9. CASE ~args /\ id = "model"
  <2>1. Box!Opens("settings", Box!Words) \/ Box!Opens("settings", Box!Empty)
    BY <1>9 DEF Box!executeSupportedCommand
  <2> QED
    BY <1>3, <2>1
<1> QED
  BY <1>5, <1>6, <1>7, <1>8, <1>9 DEF Box!Commands

\* No step breaks the invariant of the composer's text.
LEMMA BoxKeeps == BoxInv /\ [Box!BoxNext]_boxVars => BoxInv'
<1> SUFFICES ASSUME BoxInv, [Box!BoxNext]_boxVars PROVE BoxInv'
  OBVIOUS
<1>r. /\ Rest /\ boxText \in Texts /\ boxEnabled \in BOOLEAN
      /\ boxSearch \in SearchStates /\ boxTimer \in BOOLEAN /\ boxId \in 0 .. MaxSearches
      /\ boxAsked \subseteq [id : 1 .. MaxSearches, query : Box!Queries]
  BY DEF BoxTypes, BoxInv
<1>s. UNCHANGED <<boxCalls, boxSheet>> => Rest'
  BY <1>r DEF Rest
<1>1. CASE Box!TimerFires
  <2>1. Wanted(boxEnabled, boxText) /\ boxId >= 1 /\ boxText.arg \in Box!Queries /\ boxTimer' = FALSE
    BY <1>1, TextsAre, <1>r DEF BoxInv, SearchFollows, Wanted, Box!TimerFires
  <2> DEFINE asked == [id |-> boxId, query |-> boxText.arg]
  <2>2. asked \in [id : 1 .. MaxSearches, query : Box!Queries]
    BY <2>1, <1>r
  <2>3. asked.id = boxId /\ asked.query = boxText.arg
    OBVIOUS
  <2>4. boxAsked' = boxAsked \cup {asked} /\ UNCHANGED <<boxEnabled, boxText, boxId, boxCalls, boxSheet>>
    BY <1>1 DEF Box!TimerFires
  <2> HIDE DEF asked
  <2>5. /\ boxSearch'.query = boxText.arg /\ boxSearch'.status = "loading"
        /\ boxSearch' \in SearchStates
    BY <1>1, <1>r, <2>1 DEF Box!TimerFires, SearchStates
  <2>6. SearchFollows'
    <3>1. \A a \in boxAsked : a.id # boxId /\ a.id <= boxId
      BY <1>1 DEF BoxInv, SearchFollows, Box!TimerFires
    <3>2. Wanted(boxEnabled, boxText)'
      BY <2>1, <2>4 DEF Wanted
    <3> QED
      BY <1>r, <2>1, <2>3, <2>4, <2>5, <3>1, <3>2 DEF SearchFollows
  <2>7. BoxTypes'
    BY <1>r, <1>s, <2>1, <2>2, <2>4, <2>5 DEF BoxTypes
  <2> QED
    BY <2>6, <2>7 DEF BoxInv
<1>2. CASE Box!SearchEnds
  <2>1. PICK asked \in boxAsked, found \in BOOLEAN :
          /\ boxAsked' = boxAsked \ {asked}
          /\ boxSearch' =
               CASE ~Box!IsLastSearch(asked) -> boxSearch
                 [] Box!IsLastSearch(asked) /\ found ->
                      [status |-> "ready", query |-> Box!Normalised(asked.query),
                       matches |-> Box!Normalised(asked.query)]
                 [] Box!IsLastSearch(asked) /\ ~found ->
                      [status |-> "error", query |-> asked.query, matches |-> Box!NoMatches]
    BY <1>2 DEF Box!SearchEnds
  <2>2. UNCHANGED <<boxEnabled, boxText, boxTimer, boxId, boxCalls, boxSheet>>
    BY <1>2 DEF Box!SearchEnds
  <2>q. asked.query \in Box!Queries /\ Box!Normalised(asked.query) \in Box!Queries
    BY <1>r, NormalisedIs
  <2>n. Box!NoMatches \notin Box!Queries
    BY DEF Box!NoMatches, Box!Queries
  <2>e. CASE asked.id # boxId
    <3>1. boxSearch' = boxSearch
      BY <2>1, <2>e DEF Box!IsLastSearch
    <3>2. SearchFollows'
      BY <2>1, <2>2, <3>1 DEF BoxInv, SearchFollows, Wanted
    <3> QED
      BY <1>r, <1>s, <2>1, <2>2, <3>1, <3>2 DEF BoxInv, BoxTypes
  <2>f. CASE asked.id = boxId
    <3>1. ~boxTimer /\ (boxTimer' <=> boxTimer)
      BY <2>2, <2>f DEF BoxInv, SearchFollows
    <3>2. Wanted(boxEnabled, boxText) => asked.query = boxText.arg
      BY <2>f, <3>1 DEF BoxInv, SearchFollows
    <3>3. /\ boxSearch' \in SearchStates
          /\ boxSearch'.query \in {asked.query, Box!Normalised(asked.query)}
          /\ boxSearch'.status \in {"ready", "error"}
          /\ boxSearch'.status = "ready" => boxSearch'.matches # Box!NoMatches
      <4>1. CASE found
        <5>1. boxSearch' = [status |-> "ready", query |-> Box!Normalised(asked.query),
                            matches |-> Box!Normalised(asked.query)]
          BY <2>1, <2>f, <4>1 DEF Box!IsLastSearch
        <5>2. Box!Normalised(Box!Normalised(asked.query)) = Box!Normalised(asked.query)
          BY NormalisedIs
        <5> QED
          BY <2>q, <2>n, <5>1, <5>2 DEF SearchStates
      <4>2. CASE ~found
        <5>1. boxSearch' = [status |-> "error", query |-> asked.query, matches |-> Box!NoMatches]
          BY <2>1, <2>f, <4>2 DEF Box!IsLastSearch
        <5> QED
          BY <2>q, <5>1 DEF SearchStates
      <4> QED
        BY <4>1, <4>2
    <3>4. Wanted(boxEnabled, boxText)' <=> Wanted(boxEnabled, boxText)
      BY <2>2 DEF Wanted
    <3>5. SearchFollows'
      BY <2>1, <2>2, <3>1, <3>2, <3>3, <3>4 DEF BoxInv, SearchFollows
    <3> QED
      BY <1>r, <1>s, <2>1, <2>2, <3>3, <3>5 DEF BoxInv, BoxTypes
  <2> QED
    BY <2>e, <2>f
<1>3. CASE Box!DismissPopup
  <2>1. [boxText EXCEPT !.open = FALSE] \in Texts
    BY <1>r, TextsAre
  <2> QED
    BY <1>3, <1>s, <2>1, HeldKeeps DEF Box!DismissPopup
<1>4. CASE Box!insertWorkspaceMatch
  BY <1>4, <1>s, TextsAre, HeldKeeps DEF Box!insertWorkspaceMatch
<1>5. ASSUME NEW text \in Box!Typed, Box!onChange(text) PROVE BoxInv'
  BY <1>5, <1>s, TextsAre, HeldKeeps DEF Box!onChange
<1>6. ASSUME NEW id \in Box!Commands, Box!autocompleteCommand(id) PROVE BoxInv'
  BY <1>6, <1>s, TextsAre, HeldKeeps DEF Box!autocompleteCommand
<1>7. CASE Box!Remounts
  <2>1. /\ boxText' \in Texts /\ boxSearch' \in SearchStates /\ ~Box!Looking(boxText')
        /\ boxTimer' = FALSE /\ boxId' = 0 /\ boxAsked' = {} /\ boxCalls' = {} /\ boxSheet' = "none"
        /\ boxEnabled' = boxEnabled
    BY <1>7, TextsAre, NoSearchIsOne DEF Box!Remounts
  <2>2. boxId' \in 0 .. MaxSearches
    BY <2>1, PartsAssumption
  <2>3. BoxTypes'
    BY <1>r, <2>1, <2>2 DEF BoxTypes, Rest
  <2>4. SearchFollows'
    BY <2>1 DEF SearchFollows, Wanted
  <2> QED
    BY <2>3, <2>4 DEF BoxInv
<1>8. CASE Box!EnabledChanges
  <2>1. boxEnabled' \in BOOLEAN /\ boxText' \in Texts
    BY <1>r, <1>8 DEF Box!EnabledChanges
  <2>2. Box!SearchEffect(boxEnabled', boxText', boxSearch)
    BY <1>8 DEF Box!EnabledChanges, Box!SearchEffect
  <2> QED
    BY <1>r, <1>s, <1>8, <2>1, <2>2, EffectKeeps DEF Box!EnabledChanges
<1>9. ASSUME NEW id \in Box!Commands, Box!ExecutesOffered(id) PROVE BoxInv'
  BY <1>9, CommandKeeps DEF Box!ExecutesOffered
<1>10. CASE Box!SubmitCommand
  <2>1. boxText.arg \in Box!Commands
    BY <1>r, <1>10, TextsAre DEF Box!SubmitCommand
  <2> QED
    BY <1>10, <2>1, CommandKeeps DEF Box!SubmitCommand
<1>11. CASE Box!SubmitMessage \/ Box!submitSlashReview \/ Box!submitRename
  BY <1>r, <1>11, RestKeeps DEF Rest, Box!SubmitMessage, Box!submitSlashReview, Box!submitRename, Box!Awaits
<1>12. ASSUME NEW call \in boxCalls, Box!CallEnds(call) PROVE BoxInv'
  <2>1. boxCalls' \subseteq boxCalls /\ UNCHANGED <<boxEnabled, boxAsked>>
    BY <1>12 DEF Box!CallEnds
  <2>2. CASE UNCHANGED <<boxText, boxSearch, boxTimer, boxId, boxSheet>>
    BY <1>r, <2>1, <2>2, RestKeeps DEF Rest
  <2>3. CASE Box!clearCommandDraft(Box!Empty) /\ UNCHANGED boxSheet
    BY <1>r, <2>1, <2>3, ClearedKeeps DEF Rest
  <2>4. CASE Box!Holds(Box!Empty) /\ boxSheet' = IF boxSheet = "settings" THEN "none" ELSE boxSheet
    BY <1>r, <2>1, <2>4, TextsAre, HeldKeeps DEF Rest
  <2>5. CASE boxSheet' = "none" /\ UNCHANGED <<boxText, boxSearch, boxTimer, boxId>>
    BY <1>r, <2>1, <2>5, RestKeeps DEF Rest
  <2> QED
    BY <1>12, <2>2, <2>3, <2>4, <2>5 DEF Box!CallEnds, Box!Completed
<1>13. CASE Box!SheetCloses
  BY <1>r, <1>13, RestKeeps DEF Rest, Box!SheetCloses
<1>14. CASE UNCHANGED boxVars
  BY <1>s, <1>14, RestKeeps DEF boxVars
<1> QED
  BY <1>1, <1>2, <1>3, <1>4, <1>5, <1>6, <1>7, <1>8, <1>9, <1>10, <1>11, <1>12, <1>13, <1>14 DEF Box!BoxNext

-----------------------------------------------------------------------------
(* The composer's settings (ComposerSettings)                              *)

\* What is chosen is a setting.
LEMMA ChoiceIsValue ==
  ASSUME NEW draft \in Draft!Values, NEW model \in Draft!Models, NEW effort \in {"low", "high"},
         NEW preset \in {"ask", "full"}
  PROVE  LET settled == Draft!normalizeReasoningEffortSelection(model, draft.effort)
         IN  /\ settled \in {"low", "high"}
             /\ [draft EXCEPT !.model = model, !.effort = settled] \in Draft!Values
             /\ [draft EXCEPT !.effort = effort] \in Draft!Values
             /\ [draft EXCEPT !.preset = preset] \in Draft!Values
<1> DEFINE settled == Draft!normalizeReasoningEffortSelection(model, draft.effort)
<1>1. settled \in {"low", "high"}
  BY DEF Draft!Models, Draft!normalizeReasoningEffortSelection, Draft!supportedEfforts, Draft!defaultEffort
<1> HIDE DEF settled
<1>2. /\ [draft EXCEPT !.model = model, !.effort = settled] \in Draft!Values
      /\ [draft EXCEPT !.effort = effort] \in Draft!Values
      /\ [draft EXCEPT !.preset = preset] \in Draft!Values
  BY <1>1 DEF Draft!Values
<1> QED
  BY <1>1, <1>2 DEF settled

\* The user changes settings of the thread.
LEMMA UpdateKeeps ==
  ASSUME Draft!DraftTypeOK, NEW value \in Draft!Values, NEW chosen \in SUBSET Draft!Fields,
         \A f \in chosen : value[f] \in Draft!Choices, Draft!updateSettingsDraft(value, chosen)
  PROVE  Draft!DraftTypeOK'
<1>1. /\ draftState' = value /\ draftEdits' \in 0 .. MaxDraftEdits
      /\ draftChosen' = [f \in Draft!Fields |-> draftChosen[f] \cup IF f \in chosen THEN {value[f]} ELSE {}]
      /\ UNCHANGED <<draftCommitted, draftModels, draftSends>>
  BY PartsAssumption DEF Draft!updateSettingsDraft, Draft!DraftTypeOK
<1>2. draftChosen' \in [Draft!Fields -> SUBSET Draft!Choices]
  BY <1>1 DEF Draft!DraftTypeOK
<1> QED
  BY <1>1, <1>2 DEF Draft!DraftTypeOK

\* A model is chosen with an effort.
LEMMA SelectModelKeeps ==
  ASSUME Draft!DraftTypeOK, NEW model \in Draft!Models, Draft!SelectModel(model)
  PROVE  Draft!DraftTypeOK'
<1> DEFINE settled == Draft!normalizeReasoningEffortSelection(model, draftState.effort)
<1> DEFINE value == [draftState EXCEPT !.model = model, !.effort = settled]
<1>1. draftState \in Draft!Values
  BY DEF Draft!DraftTypeOK
<1>2. settled \in {"low", "high"} /\ value \in Draft!Values
  BY <1>1, ChoiceIsValue
<1>3. Draft!updateSettingsDraft(value, {"model", "effort"})
  BY DEF Draft!SelectModel
<1> HIDE DEF settled
<1>4. value.model = model /\ value.effort = settled
  BY <1>1 DEF Draft!Values
<1> HIDE DEF value
<1>5. \A f \in {"model", "effort"} : value[f] \in Draft!Choices
  BY <1>2, <1>4 DEF Draft!Choices, Draft!Models
<1>6. {"model", "effort"} \in SUBSET Draft!Fields
  BY DEF Draft!Fields
<1> QED
  BY <1>2, <1>3, <1>5, <1>6, UpdateKeeps

\* An effort or a preset is chosen.
LEMMA SelectKeeps ==
  ASSUME Draft!DraftTypeOK, NEW effort \in {"low", "high"}, NEW preset \in {"ask", "full"},
         Draft!SelectEffort(effort) \/ Draft!SelectPreset(preset)
  PROVE  Draft!DraftTypeOK'
<1>0. draftState \in Draft!Values /\ "large" \in Draft!Models
  BY DEF Draft!DraftTypeOK, Draft!Models
<1>1. CASE Draft!SelectEffort(effort)
  <2> DEFINE value == [draftState EXCEPT !.effort = effort]
  <2>1. value \in Draft!Values
    BY <1>0, ChoiceIsValue
  <2>2. value["effort"] \in Draft!Choices
    BY <1>0 DEF Draft!Values, Draft!Choices
  <2>3. Draft!updateSettingsDraft(value, {"effort"})
    BY <1>1 DEF Draft!SelectEffort
  <2> HIDE DEF value
  <2>4. {"effort"} \in SUBSET Draft!Fields /\ \A f \in {"effort"} : value[f] \in Draft!Choices
    BY <2>2 DEF Draft!Fields
  <2> QED
    BY <2>1, <2>3, <2>4, UpdateKeeps
<1>2. CASE Draft!SelectPreset(preset)
  <2> DEFINE value == [draftState EXCEPT !.preset = preset]
  <2>1. value \in Draft!Values
    BY <1>0, ChoiceIsValue
  <2>2. value["preset"] \in Draft!Choices
    BY <1>0 DEF Draft!Values, Draft!Choices
  <2>3. Draft!updateSettingsDraft(value, {"preset"})
    BY <1>2 DEF Draft!SelectPreset
  <2> HIDE DEF value
  <2>4. {"preset"} \in SUBSET Draft!Fields /\ \A f \in {"preset"} : value[f] \in Draft!Choices
    BY <2>2 DEF Draft!Fields
  <2> QED
    BY <2>1, <2>3, <2>4, UpdateKeeps
<1> QED
  BY <1>1, <1>2

\* What is read of the settings.
LEMMA ValuesHave ==
  ASSUME NEW value \in Draft!Values
  PROVE  /\ \A f \in Draft!Fields : value[f] \in Draft!Choices \cup {Draft!Unknown}
         /\ value.model \in Draft!Models \cup {Draft!Unknown}
         /\ value.effort \in {"low", "high", Draft!Unknown}
         /\ value.preset \in {"ask", "full", Draft!Unknown}
  BY DEF Draft!Values, Draft!Choices, Draft!Models, Draft!Fields

\* The settings a composer begins with are settings.
LEMMA BeginningsAre ==
  /\ Draft!Plain \in Draft!Known /\ Draft!Unsaid \in Draft!Values /\ Draft!Known \subseteq Draft!Values
  /\ Draft!NoModels \in [kind : {"loading", "ready", "error"}, listed : BOOLEAN, effect : BOOLEAN, reload : BOOLEAN]
  /\ Draft!NothingChosen \in [Draft!Fields -> SUBSET Draft!Choices]
<1>1. Draft!Plain \in Draft!Known /\ Draft!Unsaid \in Draft!Values
  BY DEF Draft!Plain, Draft!Known, Draft!Models, Draft!Unsaid, Draft!Values
<1>2. Draft!Known \subseteq Draft!Values
  BY DEF Draft!Known, Draft!Values
<1>3. Draft!NoModels \in [kind : {"loading", "ready", "error"}, listed : BOOLEAN, effect : BOOLEAN, reload : BOOLEAN]
  BY DEF Draft!NoModels
<1>4. Draft!NothingChosen \in [Draft!Fields -> SUBSET Draft!Choices]
  BY DEF Draft!NothingChosen
<1> QED
  BY <1>1, <1>2, <1>3, <1>4

\* The composer's settings are settings at first.
LEMMA DraftBegins == Draft!DraftInit => Draft!DraftTypeOK
  BY BeginningsAre, PartsAssumption DEF Draft!DraftInit, Draft!DraftTypeOK

\* A message is sent with what differs from the thread's settings.
LEMMA SubmitKeeps ==
  ASSUME Draft!DraftTypeOK, Draft!Submit
  PROVE  Draft!DraftTypeOK'
<1> DEFINE next == [f \in Draft!Fields |-> IF draftState[f] = draftCommitted[f] THEN Draft!Same ELSE draftState[f]]
<1>1. /\ draftSends' = draftSends \cup {next}
      /\ UNCHANGED <<draftCommitted, draftState, draftChosen, draftModels, draftEdits>>
  BY DEF Draft!Submit, Draft!buildTurnSettingsOverrides
<1>2. next \in Draft!Overrides
  <2>1. draftState \in Draft!Values
    BY DEF Draft!DraftTypeOK
  <2> QED
    BY <2>1 DEF Draft!Values, Draft!Overrides, Draft!Fields
<1> HIDE DEF next
<1> QED
  BY <1>1, <1>2 DEF Draft!DraftTypeOK

\* A message that has ended leaves the thread with settings.
LEMMA SendEndsKeeps ==
  ASSUME Draft!DraftTypeOK, Draft!SendEnds
  PROVE  Draft!DraftTypeOK'
<1>1. PICK s \in draftSends :
        LET after(f) == IF s[f] = Draft!Same THEN draftCommitted[f] ELSE s[f]
        IN  /\ draftSends' = draftSends \ {s}
            /\ \/ UNCHANGED draftCommitted
               \/ draftCommitted' = [model |-> after("model"), effort |-> after("effort"),
                                     preset |-> after("preset")]
  BY DEF Draft!SendEnds
<1> DEFINE after(f) == IF s[f] = Draft!Same THEN draftCommitted[f] ELSE s[f]
<1>2. s \in Draft!Overrides /\ draftCommitted \in Draft!Values
  BY DEF Draft!DraftTypeOK
<1>3. [model |-> after("model"), effort |-> after("effort"), preset |-> after("preset")] \in Draft!Values
  BY <1>2 DEF Draft!Overrides, Draft!Values
<1> HIDE DEF after
<1>4. draftCommitted' \in Draft!Values /\ draftSends' \subseteq Draft!Overrides
  BY <1>1, <1>3 DEF Draft!DraftTypeOK, after
<1>5. UNCHANGED <<draftState, draftChosen, draftModels, draftEdits>>
  BY DEF Draft!SendEnds
<1> QED
  BY <1>4, <1>5 DEF Draft!DraftTypeOK

\* Every step of the composer's settings leaves settings.
LEMMA DraftKeeps == Draft!DraftTypeOK /\ [Draft!DraftNext]_draftVars => Draft!DraftTypeOK'
<1> SUFFICES ASSUME Draft!DraftTypeOK, [Draft!DraftNext]_draftVars PROVE Draft!DraftTypeOK'
  OBVIOUS
<1>1. ASSUME NEW by \in {"effect", "reload"}, Draft!ModelsListed(by) PROVE Draft!DraftTypeOK'
  BY <1>1 DEF Draft!ModelsListed, Draft!DraftTypeOK
<1>2. CASE Draft!reloadModels
  BY <1>2 DEF Draft!reloadModels, Draft!DraftTypeOK
<1>3. ASSUME NEW effort \in {"low", "high"}, Draft!SelectEffort(effort) PROVE Draft!DraftTypeOK'
  BY <1>3, SelectKeeps
<1>4. ASSUME NEW preset \in {"ask", "full"}, Draft!SelectPreset(preset) PROVE Draft!DraftTypeOK'
  BY <1>4, SelectKeeps
<1>5. ASSUME NEW value \in Draft!Known \cup {Draft!Unsaid}, Draft!Remounts(value) PROVE Draft!DraftTypeOK'
  <2>1. value \in Draft!Values
    BY <1>5, BeginningsAre
  <2>2. {} \subseteq Draft!Overrides
    OBVIOUS
  <2> QED
    BY <1>5, <2>1, <2>2, BeginningsAre DEF Draft!Remounts, Draft!DraftTypeOK
<1>6. ASSUME NEW value \in Draft!Known, Draft!SettingsUpdated(value) PROVE Draft!DraftTypeOK'
  <2>1. value \in Draft!Values
    BY BeginningsAre
  <2> QED
    BY <1>6, <2>1, PartsAssumption DEF Draft!SettingsUpdated, Draft!DraftTypeOK
<1>7. CASE UNCHANGED draftVars
  BY <1>7 DEF draftVars, Draft!DraftTypeOK
<1> QED
  BY <1>1, <1>2, <1>3, <1>4, <1>5, <1>6, <1>7, SelectModelKeeps, SubmitKeeps, SendEndsKeeps DEF Draft!DraftNext

-----------------------------------------------------------------------------
(* The server (BridgeHttp)                                                 *)

\* The attempts let through since the window opened, and the one that opened it.
InWindow == IF httpLimit.count > Attempts THEN Attempts ELSE httpLimit.count
Opener == Len(httpTries) - InWindow + 1

\* The limiter's entry is of the last attempts let through; those before the
\* last of the window before are a window older than the one that opened it.
LimitFollows ==
  /\ httpNow \in 0 .. MaxTime
  /\ httpTries \in Seq(0 .. MaxTime) /\ Len(httpTries) <= MaxTries
  /\ httpLimit \in [count : 0 .. Attempts + 1, resetAt : 0 .. MaxTime + Window]
  /\ \A i \in 1 .. Len(httpTries) : httpTries[i] <= httpNow
  /\ \A i, j \in 1 .. Len(httpTries) : i <= j => httpTries[i] <= httpTries[j]
  /\ httpLimit.count = 0 => httpTries = <<>> /\ httpLimit.resetAt = 0
  /\ httpLimit.count > 0 => /\ Opener \in 1 .. Len(httpTries)
                            /\ httpTries[Opener] + Window = httpLimit.resetAt
                            /\ \A i \in 1 .. Len(httpTries) :
                                 i <= Opener - Attempts => httpTries[i] + Window <= httpTries[Opener]
  /\ \A i \in 1 .. Len(httpTries) :
       i + 2 * Attempts <= Len(httpTries) => httpTries[i] + Window <= httpTries[i + 2 * Attempts]

\* The bounds of the limiter are numbers.
LEMMA HttpNumbers ==
  /\ Attempts \in Nat /\ Attempts >= 1 /\ Attempts + 1 \in Nat /\ 2 * Attempts \in Nat /\ 2 * Attempts >= Attempts + 1
  /\ Window \in Nat /\ MaxTime \in Nat /\ MaxTries \in Nat
  BY PartsAssumption

\* There are two connections.
LEMMA HttpCardinality == Http!Cardinality(Http!Connections) = 2
<1>1. \A S : Http!Cardinality(S) = Cardinality(S)
  BY DEF Http!Cardinality, Cardinality
<1>2. Cardinality({1, 2}) = 2
  <2>1. IsFiniteSet({1}) /\ Cardinality({1}) = 1
    BY FS_Singleton
  <2>2. {1, 2} = {1} \cup {2}
    OBVIOUS
  <2>3. Cardinality({1} \cup {2}) = Cardinality({1}) + 1
    BY <2>1, FS_AddElement
  <2> QED
    BY <2>1, <2>2, <2>3
<1> QED
  BY <1>1, <1>2 DEF Http!Connections

RequestsFollow ==
  /\ httpTrusted \in BOOLEAN
  /\ httpRequest \in [Http!Connections -> {Http!Idle} \cup
       [at : {"body", "operation", "answered"}, route : HttpRoutes, known : BOOLEAN, status : Http!Statuses \cup {0}]]
  /\ \A c \in Http!Connections : httpRequest[c].at = "answered" => httpRequest[c].status # 0
  /\ httpStreams \in 0 .. 2

HttpInv == LimitFollows /\ RequestsFollow

\* What the invariant of the server is for.
LEMMA HttpImplies == HttpInv => Http!HttpTypeOK /\ Http!AttemptsAreBounded
<1> SUFFICES ASSUME HttpInv PROVE Http!HttpTypeOK /\ Http!AttemptsAreBounded
  OBVIOUS
<1>1. httpLimit \in [count : 0 .. MaxTries + 2 + 1, resetAt : 0 .. MaxTime + Window]
  <2>1. httpLimit.count \in Nat /\ httpLimit.count <= Attempts + 1 /\ Len(httpTries) \in Nat
    BY HttpNumbers DEF HttpInv, LimitFollows
  <2>2. httpLimit.count > 0 => Opener >= 1
    BY DEF HttpInv, LimitFollows
  <2>3. httpLimit.count <= Len(httpTries) + 1
    BY <2>1, <2>2, HttpNumbers DEF Opener, InWindow
  <2> QED
    BY <2>1, <2>3, HttpNumbers DEF HttpInv, LimitFollows
<1>2. Http!HttpTypeOK
  BY <1>1, HttpCardinality DEF HttpInv, LimitFollows, RequestsFollow, Http!HttpTypeOK
<1>3. Http!AttemptsAreBounded
  <2> SUFFICES ASSUME NEW i \in 1 .. Len(httpTries), NEW j \in 1 .. Len(httpTries),
                      i <= j, httpTries[j] < httpTries[i] + Window, ~(j - i + 1 <= 2 * Attempts)
               PROVE  FALSE
    BY DEF Http!AttemptsAreBounded, HttpInv, LimitFollows
  <2>0. \A k \in 1 .. Len(httpTries) : httpTries[k] \in Nat
    <3>1. httpTries \in Seq(0 .. MaxTime)
      BY DEF HttpInv, LimitFollows
    <3> DEFINE Times == 0 .. MaxTime
    <3>2. httpTries \in Seq(Times)
      BY <3>1
    <3> HIDE DEF Times
    <3>3. \A k \in 1 .. Len(httpTries) : httpTries[k] \in Times
      BY <3>2
    <3> QED
      BY <3>3, HttpNumbers DEF Times
  <2> DEFINE k == i + 2 * Attempts
  <2>1. k \in 1 .. Len(httpTries) /\ k <= j /\ i + 2 * Attempts <= Len(httpTries)
    BY HttpNumbers DEF HttpInv, LimitFollows
  <2>2. httpTries[i] + Window <= httpTries[k]
    BY <2>1 DEF HttpInv, LimitFollows
  <2>3. httpTries[k] <= httpTries[j]
    BY <2>1 DEF HttpInv, LimitFollows
  <2> HIDE DEF k
  <2> QED
    BY <2>0, <2>1, <2>2, <2>3, HttpNumbers
<1> QED
  BY <1>2, <1>3

\* The invariant of the server holds at first.
LEMMA HttpBegins == Http!HttpInit => HttpInv
<1> SUFFICES ASSUME Http!HttpInit PROVE HttpInv
  OBVIOUS
<1>1. httpNow = 0 /\ httpTries = <<>> /\ httpTrusted = FALSE /\ httpStreams = 0
  BY DEF Http!HttpInit
<1>2. httpLimit = [count |-> 0, resetAt |-> 0] /\ httpLimit.count = 0 /\ httpLimit.resetAt = 0
  BY DEF Http!HttpInit
<1>3. httpLimit \in [count : 0 .. Attempts + 1, resetAt : 0 .. MaxTime + Window]
  BY <1>2, HttpNumbers
<1>4. httpTries \in Seq(0 .. MaxTime) /\ Len(httpTries) = 0 /\ 1 .. Len(httpTries) = {}
  BY <1>1
<1>5. LimitFollows
  BY <1>1, <1>2, <1>3, <1>4, HttpNumbers DEF LimitFollows
<1>6. \A c \in Http!Connections : httpRequest[c].at = "idle"
  BY DEF Http!HttpInit, Http!Idle
<1>7. RequestsFollow
  <2>1. httpRequest \in [Http!Connections -> {Http!Idle} \cup [at : {"body", "operation", "answered"},
          route : HttpRoutes, known : BOOLEAN, status : Http!Statuses \cup {0}]]
    BY DEF Http!HttpInit
  <2>2. httpTrusted \in BOOLEAN
    BY <1>1
  <2>3. httpStreams \in 0 .. 2
    BY <1>1
  <2> QED
    BY <1>6, <2>1, <2>2, <2>3 DEF RequestsFollow
<1> QED
  BY <1>5, <1>7 DEF HttpInv

\* Another attempt is let through: the sequence of their times.
LEMMA TriesGrow ==
  ASSUME LimitFollows, httpTries' = Append(httpTries, httpNow)
  PROVE  /\ Len(httpTries') = Len(httpTries) + 1
         /\ httpTries'[Len(httpTries) + 1] = httpNow
         /\ \A i \in 1 .. Len(httpTries) : httpTries'[i] = httpTries[i]
         /\ httpTries' \in Seq(0 .. MaxTime)
         /\ \A i \in 1 .. Len(httpTries) + 1 : httpTries'[i] <= httpNow /\ httpTries'[i] \in Nat
         /\ \A i, j \in 1 .. Len(httpTries) + 1 : i <= j => httpTries'[i] <= httpTries'[j]
<1>1. /\ httpTries \in Seq(0 .. MaxTime) /\ httpNow \in 0 .. MaxTime /\ Len(httpTries) \in Nat
      /\ \A i \in 1 .. Len(httpTries) : httpTries[i] <= httpNow /\ httpTries[i] \in Nat
      /\ \A i, j \in 1 .. Len(httpTries) : i <= j => httpTries[i] <= httpTries[j]
  BY HttpNumbers DEF LimitFollows
<1>2. /\ Len(httpTries') = Len(httpTries) + 1
      /\ httpTries'[Len(httpTries) + 1] = httpNow
      /\ \A i \in 1 .. Len(httpTries) : httpTries'[i] = httpTries[i]
      /\ httpTries' \in Seq(0 .. MaxTime)
  BY <1>1
<1>3. \A i \in 1 .. Len(httpTries) + 1 : i = Len(httpTries) + 1 \/ i \in 1 .. Len(httpTries)
  BY <1>1
<1> HIDE <1>1
<1>4. \A i \in 1 .. Len(httpTries) + 1 : httpTries'[i] <= httpNow /\ httpTries'[i] \in Nat
  BY <1>1, <1>2, <1>3, HttpNumbers
<1>5. \A i, j \in 1 .. Len(httpTries) + 1 : i <= j => httpTries'[i] <= httpTries'[j]
  <2> SUFFICES ASSUME NEW i \in 1 .. Len(httpTries) + 1, NEW j \in 1 .. Len(httpTries) + 1, i <= j
               PROVE  httpTries'[i] <= httpTries'[j]
    OBVIOUS
  <2>1. CASE j = Len(httpTries) + 1
    BY <1>2, <1>4, <2>1
  <2>2. CASE j \in 1 .. Len(httpTries)
    <3>1. i \in 1 .. Len(httpTries)
      BY <1>1, <2>2
    <3> QED
      BY <1>1, <1>2, <2>2, <3>1
  <2> QED
    BY <1>3, <2>1, <2>2
<1> QED
  BY <1>2, <1>4, <1>5

\* RateLimiter.check, within its bounds.
LEMMA CountsKeeps ==
  ASSUME LimitFollows, Len(httpTries) < MaxTries, Http!Counts, httpNow' = httpNow
  PROVE  LimitFollows'
<1>0. /\ httpNow \in 0 .. MaxTime /\ httpNow \in Nat /\ Len(httpTries) \in Nat
      /\ httpLimit.count \in Nat /\ httpLimit.count <= Attempts + 1 /\ httpLimit.resetAt \in Nat
      /\ httpLimit.resetAt <= MaxTime + Window
      /\ \A i \in 1 .. Len(httpTries) : httpTries[i] \in Nat /\ httpTries[i] <= httpNow
  BY HttpNumbers DEF LimitFollows
<1>1. CASE httpNow >= httpLimit.resetAt
  <2>1. /\ httpLimit' = [count |-> 1, resetAt |-> httpNow + Window]
        /\ httpTries' = Append(httpTries, httpNow)
    BY <1>1 DEF Http!Counts, Http!Admits
  <2>2. httpLimit'.count = 1 /\ httpLimit'.resetAt = httpNow + Window
    BY <2>1
  <2>3. httpLimit' \in [count : 0 .. Attempts + 1, resetAt : 0 .. MaxTime + Window]
    BY <1>0, <2>1, HttpNumbers
  <2>4. /\ Len(httpTries') = Len(httpTries) + 1
        /\ httpTries'[Len(httpTries) + 1] = httpNow
        /\ \A i \in 1 .. Len(httpTries) : httpTries'[i] = httpTries[i]
        /\ httpTries' \in Seq(0 .. MaxTime)
        /\ \A i \in 1 .. Len(httpTries) + 1 : httpTries'[i] <= httpNow /\ httpTries'[i] \in Nat
        /\ \A i, j \in 1 .. Len(httpTries) + 1 : i <= j => httpTries'[i] <= httpTries'[j]
    BY <2>1, TriesGrow
  <2>5. Opener' = Len(httpTries) + 1
    BY <1>0, <2>2, <2>4, HttpNumbers DEF Opener, InWindow
  \* what is Attempts or more back is no later than the last window opened
  <2>6. ASSUME NEW i \in 1 .. Len(httpTries), i <= Len(httpTries) + 1 - Attempts
        PROVE  httpTries[i] + Window <= httpNow
    <3>1. httpLimit.count > 0
      <4>1. Len(httpTries) > 0
        BY <1>0
      <4> QED
        BY <1>0, <4>1 DEF LimitFollows
    <3>2. Opener \in 1 .. Len(httpTries) /\ httpTries[Opener] + Window = httpLimit.resetAt
      BY <3>1 DEF LimitFollows
    <3>3. i <= Opener
      BY <1>0, <2>6, <3>1, HttpNumbers DEF Opener, InWindow
    <3>4. httpTries[i] <= httpTries[Opener]
      BY <3>2, <3>3 DEF LimitFollows
    <3> HIDE DEF Opener
    <3> QED
      BY <1>0, <1>1, <3>2, <3>4, HttpNumbers
  <2>7. \A i \in 1 .. Len(httpTries') : i <= Opener' - Attempts => httpTries'[i] + Window <= httpTries'[Opener']
    <3>1. ASSUME NEW i \in 1 .. Len(httpTries) + 1, i <= Len(httpTries) + 1 - Attempts
          PROVE  httpTries'[i] + Window <= httpNow
      <4>1. i \in 1 .. Len(httpTries)
        BY <1>0, <3>1, HttpNumbers
      <4> QED
        BY <2>4, <2>6, <3>1, <4>1
    <3>2. httpTries'[Opener'] = httpNow /\ 1 .. Len(httpTries') = 1 .. Len(httpTries) + 1
      BY <2>4, <2>5
    <3>3. ASSUME NEW i \in 1 .. Len(httpTries'), i <= Opener' - Attempts
          PROVE  httpTries'[i] + Window <= httpTries'[Opener']
      <4>0. i \in 1 .. Len(httpTries) + 1
        BY <3>2
      <4>1. i \in 1 .. Len(httpTries) + 1 /\ i <= Len(httpTries) + 1 - Attempts
        BY <1>0, <2>5, <3>3, <4>0, HttpNumbers
      <4> QED
        BY <3>1, <3>2, <4>1
    <3> QED
      BY <3>3
  <2>8. \A i \in 1 .. Len(httpTries') :
          i + 2 * Attempts <= Len(httpTries') => httpTries'[i] + Window <= httpTries'[i + 2 * Attempts]
    <3> SUFFICES ASSUME NEW i \in 1 .. Len(httpTries) + 1, i + 2 * Attempts <= Len(httpTries) + 1
                 PROVE  httpTries'[i] + Window <= httpTries'[i + 2 * Attempts]
      BY <2>4
    <3>1. i \in 1 .. Len(httpTries) /\ i <= Len(httpTries) + 1 - Attempts
      BY <1>0, HttpNumbers
    <3>2. CASE i + 2 * Attempts = Len(httpTries) + 1
      BY <2>4, <2>6, <3>1, <3>2
    <3>3. CASE i + 2 * Attempts <= Len(httpTries)
      <4>1. i + 2 * Attempts \in 1 .. Len(httpTries)
        BY <1>0, <3>1, <3>3, HttpNumbers
      <4>2. httpTries[i] + Window <= httpTries[i + 2 * Attempts]
        BY <3>1, <3>3 DEF LimitFollows
      <4> QED
        BY <2>4, <3>1, <4>1, <4>2
    <3>4. i + 2 * Attempts \in Nat
      BY HttpNumbers
    <3>5. i + 2 * Attempts = Len(httpTries) + 1 \/ i + 2 * Attempts <= Len(httpTries)
      BY <1>0, <3>4
    <3> QED
      BY <3>2, <3>3, <3>5
  <2>9. /\ Opener' \in 1 .. Len(httpTries') /\ httpTries'[Opener'] + Window = httpLimit'.resetAt
        /\ Len(httpTries') <= MaxTries
    BY <1>0, <2>2, <2>4, <2>5, HttpNumbers
  <2> HIDE DEF Opener
  <2> QED
    BY <1>0, <2>2, <2>3, <2>4, <2>7, <2>8, <2>9 DEF LimitFollows
<1>2. CASE httpNow < httpLimit.resetAt /\ httpLimit.count + 1 <= Attempts
  <2>1. /\ httpLimit' = [httpLimit EXCEPT !.count = @ + 1]
        /\ httpTries' = Append(httpTries, httpNow)
    <3>1. Http!Admits /\ ~(httpNow >= httpLimit.resetAt) /\ ~(httpLimit.count > Attempts)
      BY <1>0, <1>2, HttpNumbers DEF Http!Admits
    <3> QED
      BY <3>1 DEF Http!Counts
  <2>2. /\ httpLimit'.count = httpLimit.count + 1 /\ httpLimit'.resetAt = httpLimit.resetAt
        /\ httpLimit' \in [count : 0 .. Attempts + 1, resetAt : 0 .. MaxTime + Window]
    <3>1. httpLimit \in [count : 0 .. Attempts + 1, resetAt : 0 .. MaxTime + Window]
      BY DEF LimitFollows
    <3>2. httpLimit.count + 1 \in 0 .. Attempts + 1
      BY <1>0, <1>2, HttpNumbers
    <3> QED
      BY <2>1, <3>1, <3>2
  <2>3. /\ httpLimit.count > 0 /\ Opener \in 1 .. Len(httpTries)
        /\ httpTries[Opener] + Window = httpLimit.resetAt
        /\ \A i \in 1 .. Len(httpTries) : i <= Opener - Attempts => httpTries[i] + Window <= httpTries[Opener]
    BY <1>0, <1>2 DEF LimitFollows
  <2>4. /\ Len(httpTries') = Len(httpTries) + 1
        /\ httpTries'[Len(httpTries) + 1] = httpNow
        /\ \A i \in 1 .. Len(httpTries) : httpTries'[i] = httpTries[i]
        /\ httpTries' \in Seq(0 .. MaxTime)
        /\ \A i \in 1 .. Len(httpTries) + 1 : httpTries'[i] <= httpNow /\ httpTries'[i] \in Nat
        /\ \A i, j \in 1 .. Len(httpTries) + 1 : i <= j => httpTries'[i] <= httpTries'[j]
    BY <2>1, TriesGrow
  <2>5. Opener' = Opener /\ Opener > Len(httpTries) + 1 - Attempts
    <3>1. InWindow = httpLimit.count /\ InWindow' = httpLimit.count + 1
      BY <1>0, <1>2, <2>2, HttpNumbers DEF InWindow
    <3>2. Len(httpTries') = Len(httpTries) + 1
      BY <2>4
    <3>3. Opener = Len(httpTries) - httpLimit.count + 1 /\ Opener' = Len(httpTries) + 1 - (httpLimit.count + 1) + 1
      BY <3>1, <3>2 DEF Opener
    <3> QED
      BY <1>0, <1>2, <3>3, HttpNumbers
  <2> HIDE DEF Opener
  <2>7. \A i \in 1 .. Len(httpTries') : i <= Opener' - Attempts => httpTries'[i] + Window <= httpTries'[Opener']
    <3> SUFFICES ASSUME NEW i \in 1 .. Len(httpTries) + 1, i <= Opener - Attempts
                 PROVE  httpTries'[i] + Window <= httpTries'[Opener]
      BY <2>4, <2>5
    <3>1. i \in 1 .. Len(httpTries)
      BY <1>0, <2>3, HttpNumbers
    <3> QED
      BY <2>3, <2>4, <3>1
  <2>8. \A i \in 1 .. Len(httpTries') :
          i + 2 * Attempts <= Len(httpTries') => httpTries'[i] + Window <= httpTries'[i + 2 * Attempts]
    <3> SUFFICES ASSUME NEW i \in 1 .. Len(httpTries) + 1, i + 2 * Attempts <= Len(httpTries) + 1
                 PROVE  httpTries'[i] + Window <= httpTries'[i + 2 * Attempts]
      BY <2>4
    <3>1. i \in 1 .. Len(httpTries)
      BY <1>0, HttpNumbers
    <3>2. CASE i + 2 * Attempts = Len(httpTries) + 1
      <4>1. i <= Opener - Attempts
        BY <1>0, <2>3, <2>5, <3>2, HttpNumbers
      <4>2. httpTries[i] + Window <= httpTries[Opener]
        BY <2>3, <3>1, <4>1
      <4>3. httpTries'[i + 2 * Attempts] = httpNow /\ httpTries'[i] = httpTries[i]
        BY <2>4, <3>1, <3>2
      <4>4. httpTries[Opener] <= httpNow /\ httpTries[Opener] \in Nat /\ httpTries[i] \in Nat
        BY <1>0, <2>3, <3>1
      <4> QED
        BY <1>0, <4>2, <4>3, <4>4, HttpNumbers
    <3>3. CASE i + 2 * Attempts <= Len(httpTries)
      <4>1. i + 2 * Attempts \in 1 .. Len(httpTries)
        BY <1>0, <3>1, <3>3, HttpNumbers
      <4>2. httpTries[i] + Window <= httpTries[i + 2 * Attempts]
        BY <3>1, <3>3 DEF LimitFollows
      <4> QED
        BY <2>4, <3>1, <4>1, <4>2
    <3>4. i + 2 * Attempts \in Nat
      BY HttpNumbers
    <3>5. i + 2 * Attempts = Len(httpTries) + 1 \/ i + 2 * Attempts <= Len(httpTries)
      BY <1>0, <3>4
    <3> QED
      BY <3>2, <3>3, <3>5
  <2>9. /\ Opener' \in 1 .. Len(httpTries') /\ httpTries'[Opener'] + Window = httpLimit'.resetAt
        /\ Len(httpTries') <= MaxTries /\ httpLimit'.count > 0
    <3>1. httpTries'[Opener] = httpTries[Opener]
      BY <2>3, <2>4
    <3>2. Len(httpTries') = Len(httpTries) + 1 /\ Opener' = Opener /\ Opener \in 1 .. Len(httpTries)
      BY <2>3, <2>4, <2>5
    <3>3. Opener' \in 1 .. Len(httpTries') /\ Len(httpTries') <= MaxTries
      BY <1>0, <3>2, HttpNumbers
    <3>4. httpTries'[Opener'] + Window = httpLimit'.resetAt /\ httpLimit'.count > 0
      BY <1>0, <2>2, <2>3, <3>1, <3>2
    <3> QED
      BY <3>3, <3>4
  <2> QED
    BY <1>0, <2>2, <2>4, <2>7, <2>8, <2>9 DEF LimitFollows
<1>3. CASE httpNow < httpLimit.resetAt /\ ~(httpLimit.count + 1 <= Attempts)
  <2>1. /\ httpLimit' = [httpLimit EXCEPT !.count = IF @ > Attempts THEN @ ELSE @ + 1]
        /\ httpTries' = httpTries
    BY <1>0, <1>3, HttpNumbers DEF Http!Counts, Http!Admits
  <2>2. /\ httpLimit'.count = Attempts + 1 /\ httpLimit'.resetAt = httpLimit.resetAt
        /\ httpLimit' \in [count : 0 .. Attempts + 1, resetAt : 0 .. MaxTime + Window]
    <3>1. httpLimit \in [count : 0 .. Attempts + 1, resetAt : 0 .. MaxTime + Window]
      BY DEF LimitFollows
    <3> DEFINE count == IF httpLimit.count > Attempts THEN httpLimit.count ELSE httpLimit.count + 1
    <3>2. count = Attempts + 1 /\ count \in 0 .. Attempts + 1
      BY <1>0, <1>3, HttpNumbers
    <3>3. httpLimit' = [httpLimit EXCEPT !.count = count]
      BY <2>1
    <3> HIDE DEF count
    <3> QED
      BY <3>1, <3>2, <3>3
  <2>3. InWindow' = InWindow /\ httpLimit.count > 0
    BY <1>0, <1>3, <2>2, HttpNumbers DEF InWindow
  <2>4. Opener' = Opener
    BY <2>1, <2>3 DEF Opener
  <2> HIDE DEF Opener
  <2> QED
    BY <1>0, <2>1, <2>2, <2>3, <2>4, HttpNumbers DEF LimitFollows
<1> QED
  BY <1>0, <1>1, <1>2, <1>3

\* A route says what its failures are answered with.
LEMMA RoutesAnswer ==
  \A r \in HttpRoutes : Http!Route(r).fails \subseteq Http!Statuses /\ Http!Route(r).fails # {}
<1> DEFINE Right(route) == route.fails \subseteq Http!Statuses /\ route.fails # {}
<1>1. /\ DOMAIN Http!PublicRoutes = {"healthz", "version", "pairing", "complete", "refresh"}
      /\ DOMAIN Http!DeviceRoutes = {"devices", "revoke", "delete"}
      /\ DOMAIN Http!ProjectRoutes = {"projects", "searchProjects", "importProject"}
      /\ DOMAIN Http!WorkspaceRoutes = {"directory", "file", "search"}
      /\ DOMAIN Http!ThreadRoutes = {"threads", "models", "read", "start", "rename", "compact"}
      /\ DOMAIN Http!TurnRoutes = {"turn", "interrupt", "review", "respond"}
  BY DEF Http!PublicRoutes, Http!DeviceRoutes, Http!ProjectRoutes, Http!WorkspaceRoutes,
         Http!ThreadRoutes, Http!TurnRoutes
<1>2. \A r \in DOMAIN Http!PublicRoutes : Right(Http!PublicRoutes[r])
  BY DEF Http!PublicRoutes, Http!Public, Http!Own, Http!Classified, Http!Statuses
<1>3. \A r \in DOMAIN Http!DeviceRoutes : Right(Http!DeviceRoutes[r])
  BY DEF Http!DeviceRoutes, Http!Public, Http!Own, Http!Classified, Http!Statuses
<1>4. \A r \in DOMAIN Http!ProjectRoutes : Right(Http!ProjectRoutes[r])
  BY DEF Http!ProjectRoutes, Http!Public, Http!Own, Http!Classified, Http!Statuses
<1>5. \A r \in DOMAIN Http!WorkspaceRoutes : Right(Http!WorkspaceRoutes[r])
  BY DEF Http!WorkspaceRoutes, Http!Public, Http!Own, Http!Classified, Http!Statuses
<1>6. \A r \in DOMAIN Http!ThreadRoutes : Right(Http!ThreadRoutes[r])
  BY DEF Http!ThreadRoutes, Http!Public, Http!Own, Http!Classified, Http!Statuses
<1>7. \A r \in DOMAIN Http!TurnRoutes : Right(Http!TurnRoutes[r])
  BY DEF Http!TurnRoutes, Http!Public, Http!Own, Http!Classified, Http!Statuses
<1>8. Right(Http!EventRoute.events)
  BY DEF Http!EventRoute, Http!Own, Http!Statuses
<1> HIDE DEF Right
<1>9. \A r \in DOMAIN Http!PublicRoutes : Http!Route(r) = Http!PublicRoutes[r]
  BY <1>1 DEF Http!Route
<1>10. \A r \in DOMAIN Http!DeviceRoutes : Http!Route(r) = Http!DeviceRoutes[r]
  BY <1>1 DEF Http!Route
<1>11. \A r \in DOMAIN Http!ProjectRoutes : Http!Route(r) = Http!ProjectRoutes[r]
  BY <1>1 DEF Http!Route
<1>12. \A r \in DOMAIN Http!WorkspaceRoutes : Http!Route(r) = Http!WorkspaceRoutes[r]
  BY <1>1 DEF Http!Route
<1>13. \A r \in DOMAIN Http!ThreadRoutes : Http!Route(r) = Http!ThreadRoutes[r]
  BY <1>1 DEF Http!Route
<1>14. \A r \in DOMAIN Http!TurnRoutes : Http!Route(r) = Http!TurnRoutes[r]
  BY <1>1 DEF Http!Route
<1>15. Http!Route("events") = Http!EventRoute.events
  BY <1>1 DEF Http!Route
<1>16. \A r \in HttpRoutes : Right(Http!Route(r))
  BY PartsAssumption, <1>2, <1>3, <1>4, <1>5, <1>6, <1>7, <1>8, <1>9, <1>10, <1>11, <1>12, <1>13, <1>14, <1>15
<1> QED
  BY <1>16 DEF Right

\* A request takes the next of its phases.
LEMMA TurnsKeeps ==
  ASSUME HttpInv, NEW c \in Http!Connections, NEW route \in HttpRoutes,
         NEW at \in {"body", "operation", "answered"}, NEW known \in BOOLEAN,
         NEW status \in Http!Statuses \cup {0}, at = "answered" => status # 0,
         Http!Turns(c, route, at, known, status), httpTrusted' \in BOOLEAN, httpStreams' \in 0 .. 2
  PROVE  RequestsFollow'
<1> DEFINE r == [at |-> at, route |-> route, known |-> known, status |-> status]
<1>1. /\ r \in [at : {"body", "operation", "answered"}, route : HttpRoutes, known : BOOLEAN, status : Http!Statuses \cup {0}]
      /\ r.at = at /\ r.status = status
  OBVIOUS
<1>2. httpRequest' = [httpRequest EXCEPT ![c] = r]
  BY DEF Http!Turns
<1> HIDE DEF r
<1> QED
  BY <1>1, <1>2 DEF HttpInv, RequestsFollow

\* A limiter that is left alone keeps to its bounds as time passes.
LEMMA LimitRests ==
  ASSUME LimitFollows, UNCHANGED <<httpLimit, httpTries>>, httpNow' \in 0 .. MaxTime, httpNow <= httpNow'
  PROVE  LimitFollows'
<1>1. \A i \in 1 .. Len(httpTries) : httpTries[i] \in Nat
  BY HttpNumbers DEF LimitFollows
<1>2. Opener' = Opener
  BY DEF Opener, InWindow
<1>3. \A i \in 1 .. Len(httpTries) : httpTries[i] <= httpNow'
  BY <1>1, HttpNumbers DEF LimitFollows
<1> HIDE DEF Opener
<1> QED
  BY <1>1, <1>2, <1>3 DEF LimitFollows

\* No step breaks the invariant of the server.
LEMMA HttpKeeps == HttpInv /\ [Http!HttpNext]_httpVars => HttpInv'
<1> SUFFICES ASSUME HttpInv, [Http!HttpNext]_httpVars PROVE HttpInv'
  OBVIOUS
<1>r. LimitFollows /\ RequestsFollow /\ httpNow \in 0 .. MaxTime /\ httpTrusted \in BOOLEAN /\ httpStreams \in 0 .. 2
  BY DEF HttpInv, LimitFollows, RequestsFollow
<1>s. UNCHANGED <<httpNow, httpLimit, httpTries>> => LimitFollows'
  BY <1>r, LimitRests
<1>t. \A c \in Http!Connections : httpRequest[c].at \in {"body", "operation"} =>
        httpRequest[c].route \in HttpRoutes /\ httpRequest[c].known \in BOOLEAN
  BY <1>r DEF RequestsFollow, Http!Idle
<1>1. CASE Http!Passes
  <2>1. LimitFollows'
    BY <1>1, <1>r, LimitRests, HttpNumbers DEF Http!Passes
  <2>2. RequestsFollow'
    BY <1>1, <1>r DEF Http!Passes, RequestsFollow
  <2> QED
    BY <2>1, <2>2 DEF HttpInv
<1>2. CASE Http!StreamCloses
  BY <1>2, <1>r, <1>s DEF HttpInv, Http!StreamCloses, RequestsFollow
<1>3. ASSUME NEW c \in Http!Connections, NEW route \in HttpRoutes, Http!Request(c, route) PROVE HttpInv'
  <2>1. httpTrusted' \in BOOLEAN /\ httpStreams' \in 0 .. 2 /\ httpNow' = httpNow
    BY <1>3, <1>r DEF Http!Request
  <2>2. ASSUME NEW known \in BOOLEAN, Http!Enters(c, route, known) PROVE RequestsFollow'
    BY <2>1, <2>2, TurnsKeeps DEF Http!Enters
  <2>3. ASSUME NEW known \in BOOLEAN, NEW status \in {401, 429}, Http!Turns(c, route, "answered", known, status)
        PROVE  RequestsFollow'
    BY <2>1, <2>3, TurnsKeeps DEF Http!Statuses
  <2>4. CASE Http!HandlePublicRoutes(c, route)
    <3>1. RequestsFollow'
      BY <2>2, <2>3, <2>4 DEF Http!HandlePublicRoutes
    <3>2. LimitFollows'
      BY <1>r, <1>s, <2>1, <2>4, CountsKeeps DEF Http!HandlePublicRoutes
    <3> QED
      BY <3>1, <3>2 DEF HttpInv
  <2>5. CASE Http!HandleProtectedRoutes(c, route)
    <3>1. RequestsFollow'
      BY <2>2, <2>3, <2>5 DEF Http!HandleProtectedRoutes
    <3>2. LimitFollows'
      BY <1>s, <2>1, <2>5 DEF Http!HandleProtectedRoutes
    <3> QED
      BY <3>1, <3>2 DEF HttpInv
  <2> QED
    BY <1>3, <2>4, <2>5 DEF Http!Request
<1>4. ASSUME NEW c \in Http!Connections, Http!ReadJsonBody(c) PROVE HttpInv'
  <2> DEFINE r == httpRequest[c]
  <2>1. /\ r.route \in HttpRoutes /\ r.known \in BOOLEAN /\ httpTrusted' \in BOOLEAN /\ httpStreams' \in 0 .. 2
        /\ LimitFollows'
    BY <1>4, <1>r, <1>s, <1>t DEF Http!ReadJsonBody
  <2>2. \A s \in Http!Route(r.route).fails : s \in Http!Statuses
    BY <2>1, RoutesAnswer
  <2>3. (CHOOSE s \in Http!Route(r.route).fails : TRUE) \in Http!Statuses
    BY <2>1, <2>2, RoutesAnswer
  <2>4. 400 \in Http!Statuses /\ 0 \notin Http!Statuses
    BY DEF Http!Statuses
  <2>5. \/ Http!Turns(c, r.route, "operation", r.known, 0)
        \/ \E status \in Http!Statuses : Http!Turns(c, r.route, "answered", r.known, status)
    BY <1>4, <2>3, <2>4 DEF Http!ReadJsonBody
  <2> HIDE DEF r
  <2>6. RequestsFollow'
    BY <2>1, <2>4, <2>5, TurnsKeeps
  <2> QED
    BY <2>1, <2>6 DEF HttpInv
<1>5. ASSUME NEW c \in Http!Connections, Http!OperationEnds(c) PROVE HttpInv'
  <2> DEFINE r == httpRequest[c]
  <2>1. /\ r.route \in HttpRoutes /\ r.known \in BOOLEAN /\ httpStreams' \in 0 .. 2 /\ LimitFollows'
    BY <1>5, <1>r, <1>s, <1>t DEF Http!OperationEnds
  <2>2. httpTrusted' \in BOOLEAN
    BY <1>5, <1>r DEF Http!OperationEnds, Http!Trusts
  <2>3. 200 \in Http!Statuses /\ 0 \notin Http!Statuses /\ Http!Route(r.route).fails \subseteq Http!Statuses
    BY <2>1, RoutesAnswer DEF Http!Statuses
  <2>4. \E status \in Http!Statuses : Http!Turns(c, r.route, "answered", r.known, status)
    BY <1>5, <2>3 DEF Http!OperationEnds
  <2> HIDE DEF r
  <2>5. RequestsFollow'
    BY <2>1, <2>2, <2>3, <2>4, TurnsKeeps
  <2> QED
    BY <2>1, <2>5 DEF HttpInv
<1>6. ASSUME NEW c \in Http!Connections, Http!HandleEventRoute(c) PROVE HttpInv'
  <2>1. /\ httpRequest[c].route = "events" /\ "events" \in HttpRoutes /\ httpRequest[c].known \in BOOLEAN
        /\ LimitFollows' /\ httpTrusted' \in BOOLEAN
    BY <1>6, <1>r, <1>s, <1>t DEF Http!HandleEventRoute
  <2>2. httpStreams' \in 0 .. 2
    BY <1>6, <1>r, HttpCardinality DEF Http!HandleEventRoute
  <2>3. Http!Turns(c, "events", "answered", httpRequest[c].known, 200)
    BY <1>6 DEF Http!HandleEventRoute
  <2>4. RequestsFollow'
    BY <2>1, <2>2, <2>3, TurnsKeeps DEF Http!Statuses
  <2> QED
    BY <2>1, <2>4 DEF HttpInv
<1>7. ASSUME NEW c \in Http!Connections, Http!Ends(c) PROVE HttpInv'
  <2>1. Http!Idle.at = "idle"
    BY DEF Http!Idle
  <2> QED
    BY <1>7, <1>r, <1>s, <2>1 DEF HttpInv, Http!Ends, RequestsFollow
<1>8. CASE UNCHANGED httpVars
  BY <1>8, <1>r, <1>s DEF HttpInv, httpVars, RequestsFollow
<1> QED
  BY <1>1, <1>2, <1>3, <1>4, <1>5, <1>6, <1>7, <1>8 DEF Http!HttpNext

-----------------------------------------------------------------------------
(* All parts                                                               *)

\* Each part begins as it would alone ...
LEMMA PartsBegin ==
  PartsInit => /\ Sess!SessInit /\ Daemon!DaemonInit /\ Conf!ConfInit /\ Svc!SvcInit /\ Turn!TurnInit
               /\ Appr!ApprInit /\ Scan!ScanInit /\ Proj!ProjInit /\ Work!WorkInit /\ Box!BoxInit
               /\ Draft!DraftInit /\ Http!HttpInit /\ TrustInit /\ RpcInit
  BY DEF PartsInit

\* ... and takes its own steps, or rests.
LEMMA PartsMove ==
  [PartsNext]_partsVars =>
    /\ [TrustNext]_trustVars /\ [Sess!SessNext]_sessVars /\ [Daemon!DaemonNext]_daemonVars
    /\ [Conf!ConfNext]_confVars /\ [RpcNext]_rpcVars /\ [Svc!SvcNext]_svcVars
    /\ [Turn!TurnNext]_turnVars /\ [Appr!ApprNext]_apprVars /\ [Scan!ScanNext]_scanVars
    /\ [Proj!ProjNext]_projVars /\ [Work!WorkNext]_workVars /\ [Box!BoxNext]_boxVars
    /\ [Draft!DraftNext]_draftVars /\ [Http!HttpNext]_httpVars
<1> SUFFICES ASSUME [PartsNext]_partsVars
             PROVE  /\ [TrustNext]_trustVars /\ [Sess!SessNext]_sessVars /\ [Daemon!DaemonNext]_daemonVars
                    /\ [Conf!ConfNext]_confVars /\ [RpcNext]_rpcVars /\ [Svc!SvcNext]_svcVars
                    /\ [Turn!TurnNext]_turnVars /\ [Appr!ApprNext]_apprVars /\ [Scan!ScanNext]_scanVars
                    /\ [Proj!ProjNext]_projVars /\ [Work!WorkNext]_workVars /\ [Box!BoxNext]_boxVars
                    /\ [Draft!DraftNext]_draftVars /\ [Http!HttpNext]_httpVars
  OBVIOUS
<1>1. CASE PartsNext
  BY <1>1 DEF PartsNext
<1>2. CASE UNCHANGED partsVars
  BY <1>2 DEF partsVars
<1> QED
  BY <1>1, <1>2

\* In a behaviour where no reply was lost, nobody left or revoked a device and no
\* tab missed credentials, the store holds a token the bridge takes whenever no
\* refresh is under way, for any tabs and any overlap of their refreshes; about the
\* store of other behaviours nothing is claimed. And a tab that lost its session
\* looks for the credentials it has seen, unless some tab missed some
\* (SessionRefresh).
THEOREM SessionsAlwaysRecover == PartsSpec => []SessionsRecover
<1>1. PartsInit => SessInv
  BY PartsBegin, SessBegins
<1>2. SessInv /\ [PartsNext]_partsVars => SessInv'
  BY PartsMove, SessKeeps
<1>3. SessInv => SessionsRecover
  BY SessImplies DEF SessionsRecover
<1> QED
  BY <1>1, <1>2, <1>3, PTL DEF PartsSpec

\* As long as no two starts have looked at the lock together and no listen has
\* failed, at most one process holds the lock, whoever was killed before; and as
\* long as, besides, no daemon outlived the stop command for it, the one that runs
\* is found by stop and status, for any number of processes. After such a fault
\* nothing is claimed (DaemonLifecycle).
THEOREM OneDaemonRuns == PartsSpec => []OneDaemonIsFound
<1>1. PartsInit => DaemonInv
  BY PartsBegin, DaemonBegins
<1>2. DaemonInv /\ [PartsNext]_partsVars => DaemonInv'
  BY PartsMove, DaemonKeeps
<1>3. DaemonInv => OneDaemonIsFound
  BY DaemonImplies DEF OneDaemonIsFound
<1> QED
  BY <1>1, <1>2, <1>3, PTL DEF PartsSpec

\* A daemon that start spawns has the configuration one in the foreground would
\* have, and what config set wrote is obeyed (BridgeConfig).
THEOREM StartHandsOn == PartsSpec => []ConfigIsHandedOn
<1>1. PartsInit => ConfInv
  BY PartsBegin, ConfBegins
<1>2. ConfInv /\ [PartsNext]_partsVars => ConfInv'
  BY PartsMove, ConfKeeps
<1>3. ConfInv => ConfigIsHandedOn
  BY ConfImplies DEF ConfigIsHandedOn
<1> QED
  BY <1>1, <1>2, <1>3, PTL DEF PartsSpec

\* Settings told are those of the app-server while no two turns overlap, and a
\* scan of a rollout never replaces live usage, for any calls and settings
\* (ThreadCaches).
THEOREM CachesStayTrue == PartsSpec => []CachesAgree
<1>1. PartsInit => SvcInv
  BY PartsBegin, SvcBegins
<1>2. SvcInv /\ [PartsNext]_partsVars => SvcInv'
  BY PartsMove, SvcKeeps
<1>3. SvcInv => CachesAgree
  BY SvcImplies DEF CachesAgree
<1> QED
  BY <1>1, <1>2, <1>3, PTL DEF PartsSpec

\* A client that has applied all events shows the turn's status, and once the
\* turn has ended its items, each once and as they ended, whichever came first, the
\* opening of its stream or the answer that read the thread. An answer that came
\* first may be followed by events no stream carries: a client that has missed some
\* is not claimed to show them, as nothing tells it of them (ThreadDetailState).
THEOREM TurnIsShown == PartsSpec => []TurnConverges
<1>1. PartsInit => TurnInv
  BY PartsBegin, TurnBegins
<1>2. TurnInv /\ [PartsNext]_partsVars => TurnInv'
  BY PartsMove, TurnKeeps
<1>3. TurnInv => TurnConverges
  BY TurnImplies DEF TurnConverges
<1> QED
  BY <1>1, <1>2, <1>3, PTL DEF PartsSpec

\* An approval is answered by the method that asked, with the choice of the user
\* and in words the method knows (ApprovalRequests).
THEOREM AnswersAreKnown == PartsSpec => []AnswersAreUnderstood
<1>1. PartsInit => ApprInv
  BY PartsBegin, ApprBegins
<1>2. ApprInv /\ [PartsNext]_partsVars => ApprInv'
  BY PartsMove, ApprKeeps
<1>3. ApprInv => AnswersAreUnderstood
  BY ApprImplies DEF AnswersAreUnderstood
<1> QED
  BY <1>1, <1>2, <1>3, PTL DEF PartsSpec

\* A scan that was not cut short finds the last line of interest whose text was
\* there when it began, for any lines, line length and chunk size, and whatever
\* is appended meanwhile (RolloutScan).
THEOREM LastRecordIsFound == PartsSpec => []ScanFindsLast
<1>1. PartsInit => ScanInv
  BY PartsBegin, ScanBegins
<1>2. ScanInv /\ [PartsNext]_partsVars => ScanInv'
  BY PartsMove, ScanKeeps
<1>3. ScanInv => ScanFindsLast
  BY ScanImplies DEF ScanFindsLast
<1> QED
  BY <1>1, <1>2, <1>3, PTL DEF PartsSpec

\* An imported project stays in the file, unless daemon and CLI wrote it at a
\* time, and is shown once the client's listings have settled (Projects).
THEOREM ImportsAreNeverLost == PartsSpec => []ImportsStay
<1>1. PartsInit => ProjInv
  BY PartsBegin, ProjBegins
<1>2. ProjInv /\ [PartsNext]_partsVars => ProjInv'
  BY PartsMove, ProjKeeps
<1>3. ProjInv => ImportsStay
  BY ProjImplies DEF ImportsStay
<1> QED
  BY <1>1, <1>2, <1>3, PTL DEF PartsSpec

\* A folder shown as loading is being listed, and the preview is of the file
\* selected last, for any openers, listings and reads (WorkspaceBrowser).
THEOREM BrowserSettles == PartsSpec => []BrowserFollows
<1>1. PartsInit => WorkInv
  BY PartsBegin, WorkBegins
<1>2. WorkInv /\ [PartsNext]_partsVars => WorkInv'
  BY PartsMove, WorkKeeps
<1>3. WorkInv => BrowserFollows
  BY DEF WorkInv, Listing, Previewing, BrowserFollows
<1> QED
  BY <1>1, <1>2, <1>3, PTL DEF PartsSpec

\* The matches shown answer what is typed, from the moment the timer of the query
\* has fired, 120 ms after it was typed; until then they are those of the query
\* before (ComposerInput).
THEOREM MatchesAreOfTheQuery == PartsSpec => []MatchesAnswerQuery
<1>1. PartsInit => BoxInv
  BY PartsBegin, BoxBegins
<1>2. BoxInv /\ [PartsNext]_partsVars => BoxInv'
  BY PartsMove, BoxKeeps
<1>3. BoxInv => MatchesAnswerQuery
  BY BoxImplies DEF MatchesAnswerQuery
<1> QED
  BY <1>1, <1>2, <1>3, PTL DEF PartsSpec

\* Within any window at most twice the allowed attempts are let through, for any
\* limit, window and times (BridgeHttp).
THEOREM AttemptsStayBounded == PartsSpec => []AttemptsAreBounded
<1>1. PartsInit => HttpInv
  BY PartsBegin, HttpBegins
<1>2. HttpInv /\ [PartsNext]_partsVars => HttpInv'
  BY PartsMove, HttpKeeps
<1>3. HttpInv => AttemptsAreBounded
  BY HttpImplies DEF AttemptsAreBounded
<1> QED
  BY <1>1, <1>2, <1>3, PTL DEF PartsSpec

\* The transport is in one of its states, whatever was called.
RpcStates ==
  /\ rpcChild \in {"runs", "died", "exited"} /\ rpcClose \in {"no", "waits", "killed", "done"}
  /\ rpcInit \in BOOLEAN /\ rpcBridge \in {"runs", "ended"}

\* A call is written, lost, or ends the bridge.
LEMMA WriteCallRests ==
  ASSUME NEW call, rpcBridge \in {"runs", "ended"}, WriteCall(call)
  PROVE  rpcBridge' \in {"runs", "ended"}
<1>1. CASE rpcChild = "exited"
  BY <1>1 DEF WriteCall
<1>2. CASE rpcChild # "exited" /\ rpcClose # "no"
  BY <1>2 DEF WriteCall
<1>3. CASE rpcChild = "died" /\ rpcClose = "no"
  BY <1>3 DEF WriteCall
<1>4. CASE rpcChild \notin {"exited", "died"} /\ rpcClose = "no"
  BY <1>4 DEF WriteCall
<1> QED
  BY <1>1, <1>2, <1>3, <1>4

\* No step leaves the transport's states.
LEMMA RpcStatesKeep == RpcStates /\ [RpcNext]_rpcVars => RpcStates'
<1> SUFFICES ASSUME RpcStates, [RpcNext]_rpcVars PROVE RpcStates'
  OBVIOUS
<1>1. CASE \E method \in Methods : Call(method)
  <2>1. PICK method \in Methods : Call(method)
    BY <1>1
  <2>2. WriteCall(Len(rpcCalls) + 1) /\ UNCHANGED <<rpcChild, rpcClose, rpcInit>>
    BY <2>1 DEF Call, SendRequest
  <2> QED
    BY <2>2, WriteCallRests DEF RpcStates
<1>2. CASE \E call \in RpcCalls, answer \in Answers : ChildAnswers(call, answer)
  BY <1>2 DEF ChildAnswers, RpcStates
<1>3. CASE HandleLine
  <2> DEFINE line == Head(rpcLines)
  <2> DEFINE id == rpcCalls[line.call].id
  <2> DEFINE waiting == rpcPending[id]
  <2> DEFINE settled == [rpcCalls EXCEPT ![waiting].end = line.answer, ![waiting].by = line.call]
  <2> DEFINE freed == [rpcPending EXCEPT ![id] = 0]
  <2> DEFINE began == settled[waiting].method = "initialize" /\ line.answer = "result"
  <2>1. /\ UNCHANGED <<rpcChild, rpcClose>>
        /\ \/ UNCHANGED <<rpcInit, rpcBridge>>
           \/ SendRequest(settled, freed, "summary") /\ UNCHANGED rpcInit
           \/ rpcInit' = (rpcInit \/ began) /\ UNCHANGED rpcBridge
    <3>1. CASE rpcClose # "no" \/ waiting = 0
      BY <1>3, <3>1, Zenon DEF HandleLine
    <3>2. CASE ~(rpcClose # "no" \/ waiting = 0) /\ line.answer = "unmaterialized"
      BY <1>3, <3>2, Zenon DEF HandleLine
    <3>3. CASE ~(rpcClose # "no" \/ waiting = 0) /\ line.answer # "unmaterialized"
      BY <1>3, <3>3, Zenon DEF HandleLine
    <3> HIDE DEF line, waiting, settled, freed, began
    <3> QED
      BY <3>1, <3>2, <3>3
  <2>2. began \in BOOLEAN
    OBVIOUS
  <2> HIDE DEF settled, freed, began
  <2>3. ASSUME SendRequest(settled, freed, "summary")
        PROVE  rpcBridge' \in {"runs", "ended"}
    <3>1. WriteCall(Len(settled) + 1)
      BY <2>3 DEF SendRequest
    <3> QED
      BY <3>1, WriteCallRests DEF RpcStates
  <2> QED
    BY <2>1, <2>2, <2>3 DEF RpcStates
<1>4. CASE ChildDies \/ HandleExit \/ CloseTransport \/ Kill
  BY <1>4 DEF ChildDies, HandleExit, CloseTransport, Kill, RpcStates
<1>5. CASE UNCHANGED rpcVars
  BY <1>5 DEF rpcVars, RpcStates
<1> QED
  BY <1>1, <1>2, <1>3, <1>4, <1>5 DEF RpcNext

\* The invariant of the transport implies its type invariant.
LEMMA RpcTypes == RpcInv /\ RpcStates => RpcTypeOK
<1> SUFFICES ASSUME RpcInv, RpcStates PROVE RpcTypeOK
  OBVIOUS
<1>1. Made \subseteq RpcCalls
  BY RpcAssumption DEF RpcInv, Table, Made, RpcCalls
<1> QED
  BY <1>1 DEF RpcInv, Table, Pipes, Entries, RpcStates, RpcTypeOK

\* The invariant of the trust file implies its type invariant.
LEMMA TrustFileTypes == TrustInv => TrustTypeOK
<1> SUFFICES ASSUME TrustInv PROVE TrustTypeOK
  OBVIOUS
<1>1. ASSUME NEW a \in Ahead
      PROVE  a \in Seq(Saves) /\ Len(a) <= 2
  <2>1. CASE a = <<>>
    BY <2>1
  <2>2. CASE \E s \in Saves : a = <<s>>
    BY <2>2
  <2>3. CASE \E s, t \in Saves : a = <<s, t>>
    BY <2>3
  <2> QED
    BY <2>1, <2>2, <2>3 DEF Ahead
<1> QED
  BY <1>1 DEF TrustInv, TrustTypes, TrustTypeOK, Drawn, Histories

\* The invariants of all parts.
PartsInv ==
  /\ TrustInv /\ SessInv /\ DaemonInv /\ ConfInv /\ RpcInv /\ RpcStates /\ SvcInv /\ TurnInv
  /\ ApprInv /\ ScanInv /\ ProjInv /\ WorkInv /\ BoxInv /\ Draft!DraftTypeOK /\ HttpInv

\* Every variable of every part has its type, in every reachable state and for
\* all values of the constants.
THEOREM PartsAreTyped == PartsSpec => []TypeOK
<1>1. PartsInit => PartsInv
  <2>1. RpcInit => RpcStates
    BY DEF RpcInit, RpcStates
  <2> QED
    BY <2>1, PartsBegin, InitKeeps, SessBegins, DaemonBegins, ConfBegins, RpcInitKeeps, SvcBegins, TurnBegins,
       ApprBegins, ScanBegins, ProjBegins, WorkBegins, BoxBegins, DraftBegins, HttpBegins DEF PartsInv
<1>2. PartsInv /\ [PartsNext]_partsVars => PartsInv'
  BY PartsMove, StepKeeps, SessKeeps, DaemonKeeps, ConfKeeps, RpcStepKeeps, RpcStatesKeep, SvcKeeps, TurnKeeps,
     ApprKeeps, ScanKeeps, ProjKeeps, WorkKeeps, BoxKeeps, DraftKeeps, HttpKeeps DEF PartsInv
<1>3. PartsInv => TypeOK
  BY TrustFileTypes, SessImplies, DaemonImplies, ConfImplies, RpcTypes, SvcImplies, TurnImplies, ApprImplies,
     ScanImplies, ProjImplies, WorkTypes, BoxImplies, HttpImplies DEF PartsInv, TypeOK
<1> QED
  BY <1>1, <1>2, <1>3, PTL DEF PartsSpec
=============================================================================
