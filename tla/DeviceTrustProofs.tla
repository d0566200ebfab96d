-------------------------- MODULE DeviceTrustProofs --------------------------
(***************************************************************************)
(* What was spent or revoked stays so, for any devices, tokens and codes,  *)
(* and a crash at any moment.                                              *)
(***************************************************************************)
EXTENDS DeviceTrust, TLAPS

-----------------------------------------------------------------------------
(* The invariant                                                           *)

\* Each process has at most two writes ahead.
Ahead == {<<>>} \cup {<<s>> : s \in Saves} \cup {<<s, t>> : s \in Saves, t \in Saves}

Histories == [codes : SUBSET (1 .. MaxCodes), tokens : SUBSET (1 .. MaxTokens),
              revoked : SUBSET Devices, overlap : BOOLEAN, crashed : BOOLEAN]
Drawn == [tokens : 0 .. MaxTokens, codes : 1 .. MaxCodes]

TrustTypes ==
  /\ trustFile \in Files
  /\ trustSaves \in [Processes -> Ahead]
  /\ trustCut \subseteq {p \in Processes : trustSaves[p] # <<>>}
  /\ trustDrawn \in Drawn
  /\ trustHistory \in Histories

\* A file that respects a history: it holds nothing spent, revokes what was
\* revoked, and no two of its devices share a token.
Respects(file, h) ==
  /\ file.code \notin h.codes
  /\ \A d \in Devices : file.token[d] \notin h.tokens
  /\ h.revoked \subseteq file.revoked
  /\ \A d, e \in Devices : file.token[d] = file.token[e] /\ file.token[d] # 0 => d = e

\* Its numbers have been drawn.
NumbersDrawn(file, drawn) ==
  /\ file.code <= drawn.codes
  /\ \A d \in Devices : file.token[d] <= drawn.tokens

\* The history once a save is written.
After(h, s) ==
  [h EXCEPT !.codes = @ \cup ({s.code} \ {0}), !.tokens = @ \cup ({s.token} \ {0}),
            !.revoked = (@ \cup s.revokes) \ s.forgets]

\* A save that may be the next one.
Fits(s, h, drawn) ==
  /\ Respects(s.file, After(h, s))
  /\ NumbersDrawn(s.file, drawn)
  /\ s.code <= drawn.codes /\ s.token <= drawn.tokens

Fit(a, h, drawn) ==
  a # <<>> => /\ Fits(Head(a), h, drawn)
              /\ Tail(a) # <<>> => Fits(Head(Tail(a)), After(h, Head(a)), drawn)

\* While no two processes overlap: at most one is at work, the numbers of the
\* history were drawn, and the file and what is to be written respect it.
Orderly ==
  /\ \A p, q \in Processes : trustSaves[p] # <<>> /\ trustSaves[q] # <<>> => p = q
  /\ trustHistory.codes \subseteq 1 .. trustDrawn.codes
  /\ trustHistory.tokens \subseteq 1 .. trustDrawn.tokens
  /\ trustFile # Torn => Respects(trustFile, trustHistory) /\ NumbersDrawn(trustFile, trustDrawn)
  /\ \A p \in Processes : Fit(trustSaves[p], trustHistory, trustDrawn)

TrustInv == TrustTypes /\ (~trustHistory.overlap => Orderly)

-----------------------------------------------------------------------------
(* What is ahead                                                           *)

\* One or two saves are something ahead, and the first is followed by the rest.
LEMMA AheadOne ==
  ASSUME NEW s \in Saves
  PROVE  <<s>> \in Ahead /\ <<s>> # <<>> /\ Head(<<s>>) = s /\ Tail(<<s>>) = <<>>
BY DEF Ahead

\* Two saves are ahead, the second after the first.
LEMMA AheadTwo ==
  ASSUME NEW s \in Saves, NEW t \in Saves
  PROVE  /\ <<s, t>> \in Ahead /\ <<s, t>> # <<>>
         /\ Head(<<s, t>>) = s /\ Tail(<<s, t>>) = <<t>>
BY DEF Ahead

\* Whatever is ahead starts with a save, and at most one follows.
LEMMA AheadParts ==
  ASSUME NEW a \in Ahead, a # <<>>
  PROVE  /\ Head(a) \in Saves
         /\ Tail(a) \in Ahead
         /\ Tail(a) # <<>> => Tail(Tail(a)) = <<>>
<1>1. CASE \E s \in Saves : a = <<s>>
  BY <1>1, AheadOne DEF Ahead
<1>2. CASE \E s, t \in Saves : a = <<s, t>>
  BY <1>2, AheadOne, AheadTwo
<1> QED
  BY <1>1, <1>2 DEF Ahead

\* What a history becomes.
LEMMA AfterType ==
  ASSUME NEW h \in Histories, NEW s \in Saves
  PROVE  /\ After(h, s) \in Histories
         /\ After(h, s).codes = h.codes \cup ({s.code} \ {0})
         /\ After(h, s).tokens = h.tokens \cup ({s.token} \ {0})
         /\ After(h, s).revoked = (h.revoked \cup s.revokes) \ s.forgets
         /\ After(h, s).overlap = h.overlap
<1> DEFINE C == h.codes \cup ({s.code} \ {0})
           T == h.tokens \cup ({s.token} \ {0})
           R == (h.revoked \cup s.revokes) \ s.forgets
<1>1. C \in SUBSET (1 .. MaxCodes)
  <2>1. h.codes \in SUBSET (1 .. MaxCodes) /\ s.code \in 0 .. MaxCodes
    BY DEF Histories, Saves
  <2>2. s.code # 0 => s.code \in 1 .. MaxCodes
    BY <2>1, TrustAssumption
  <2> QED
    BY <2>1, <2>2
<1>2. T \in SUBSET (1 .. MaxTokens)
  <2>1. h.tokens \in SUBSET (1 .. MaxTokens) /\ s.token \in 0 .. MaxTokens
    BY DEF Histories, Saves
  <2>2. s.token # 0 => s.token \in 1 .. MaxTokens
    BY <2>1, TrustAssumption
  <2> QED
    BY <2>1, <2>2
<1>3. R \in SUBSET Devices
  BY DEF Histories, Saves
<1>4. After(h, s) = [codes |-> C, tokens |-> T, revoked |-> R, overlap |-> h.overlap,
                     crashed |-> h.crashed]
  <2>1. h = [codes |-> h.codes, tokens |-> h.tokens, revoked |-> h.revoked,
             overlap |-> h.overlap, crashed |-> h.crashed]
    BY DEF Histories
  <2>2. After(h, s) = [h EXCEPT !.codes = C, !.tokens = T, !.revoked = R]
    BY DEF After
  <2> HIDE DEF C, T, R
  <2> QED
    BY <2>1, <2>2
<1>5. h.overlap \in BOOLEAN /\ h.crashed \in BOOLEAN
  BY DEF Histories
<1> HIDE DEF C, T, R
<1>6. After(h, s) \in Histories
  BY <1>1, <1>2, <1>3, <1>4, <1>5 DEF Histories
<1> QED
  BY <1>4, <1>6 DEF C, T, R

-----------------------------------------------------------------------------
(* An operation begins                                                     *)

\* A process that begins with saves that fit keeps the invariant.
LEMMA BeginKeeps ==
  ASSUME TrustInv, NEW p \in Processes, NEW a \in Ahead, a # <<>>, Begin(p, a),
         trustDrawn' \in Drawn,
         trustDrawn.codes <= trustDrawn'.codes, trustDrawn.tokens <= trustDrawn'.tokens,
         ~trustHistory.overlap => Fit(a, trustHistory, trustDrawn')
  PROVE  TrustInv'
<1>1. trustSaves' = [trustSaves EXCEPT ![p] = a]
      /\ trustSaves \in [Processes -> Ahead]
      /\ UNCHANGED <<trustFile, trustCut>>
  BY DEF Begin, TrustInv, TrustTypes
<1>2. \A q \in Processes : trustSaves'[q] = IF q = p THEN a ELSE trustSaves[q]
  BY <1>1
<1> DEFINE o == trustHistory.overlap \/ \E q \in Processes \ {p} : trustSaves[q] # <<>>
<1>3. /\ trustHistory' \in Histories
      /\ trustHistory'.overlap = o
      /\ ~o => trustHistory' = trustHistory
  <2>1. trustHistory \in Histories /\ trustHistory' = [trustHistory EXCEPT !.overlap = o]
    BY DEF Begin, TrustInv, TrustTypes
  <2>2. o \in BOOLEAN
    BY <2>1 DEF Histories
  <2>3. ~o => trustHistory.overlap = FALSE
    BY <2>1 DEF Histories
  <2> HIDE DEF o
  <2> QED
    BY <2>1, <2>2, <2>3 DEF Histories
<1>4. TrustTypes'
  <2>1. trustSaves' \in [Processes -> Ahead]
    BY <1>1
  <2>2. trustCut' \subseteq {q \in Processes : trustSaves'[q] # <<>>}
    BY <1>1, <1>2 DEF TrustInv, TrustTypes
  <2> QED
    BY <1>1, <1>3, <2>1, <2>2 DEF TrustInv, TrustTypes
<1>5. ASSUME ~o
      PROVE  Orderly'
  <2>1. \A q \in Processes \ {p} : trustSaves'[q] = <<>>
    BY <1>2, <1>5
  <2>2. Orderly /\ ~trustHistory.overlap /\ trustHistory' = trustHistory
    BY <1>3, <1>5 DEF TrustInv
  <2>3. /\ trustHistory'.codes \subseteq 1 .. trustDrawn'.codes
        /\ trustHistory'.tokens \subseteq 1 .. trustDrawn'.tokens
    BY <2>2 DEF Orderly, TrustInv, TrustTypes, Drawn
  <2>4. trustFile' # Torn
          => Respects(trustFile', trustHistory') /\ NumbersDrawn(trustFile', trustDrawn')
    BY <1>1, <2>2 DEF Orderly, TrustInv, TrustTypes, Drawn, Files, NumbersDrawn
  <2>5. \A q \in Processes : Fit(trustSaves'[q], trustHistory', trustDrawn')
    BY <1>2, <2>1, <2>2 DEF Fit
  <2> QED
    BY <2>1, <2>3, <2>4, <2>5 DEF Orderly
<1> QED
  BY <1>3, <1>4, <1>5 DEF TrustInv

\* Numbers are drawn upwards.
LEMMA DrawsCodeType ==
  ASSUME trustDrawn \in Drawn, DrawsCode
  PROVE  /\ trustDrawn' \in Drawn /\ trustDrawn'.codes = NextCode
         /\ trustDrawn'.tokens = trustDrawn.tokens
BY TrustAssumption DEF Drawn, DrawsCode, NextCode

\* The same of tokens.
LEMMA DrawsTokenType ==
  ASSUME trustDrawn \in Drawn, DrawsToken
  PROVE  /\ trustDrawn' \in Drawn /\ trustDrawn'.codes = trustDrawn.codes
         /\ trustDrawn'.tokens = NextToken
BY TrustAssumption DEF Drawn, DrawsToken, NextToken

\* One save ahead fits when it does.
LEMMA FitOne ==
  ASSUME NEW s \in Saves, NEW h, NEW drawn, Fits(s, h, drawn)
  PROVE  Fit(<<s>>, h, drawn)
BY AheadOne DEF Fit

\* Two fit when the second fits after the first.
LEMMA FitTwo ==
  ASSUME NEW s \in Saves, NEW t \in Saves, NEW h, NEW drawn,
         Fits(s, h, drawn), Fits(t, After(h, s), drawn)
  PROVE  Fit(<<s, t>>, h, drawn)
BY AheadTwo, AheadOne DEF Fit

-----------------------------------------------------------------------------
(* What the methods save: the types                                        *)

\* The fields of a save, and of one that spends a code or a token, revokes or
\* forgets a device.
LEMMA SaveType ==
  ASSUME NEW f \in Files
  PROVE  /\ Save(f) \in Saves
         /\ Save(f) = [file |-> f, code |-> 0, token |-> 0, revokes |-> {}, forgets |-> {}]
         /\ \A c \in 0 .. MaxCodes :
              [Save(f) EXCEPT !.code = c]
                = [file |-> f, code |-> c, token |-> 0, revokes |-> {}, forgets |-> {}]
         /\ \A t \in 0 .. MaxTokens :
              [Save(f) EXCEPT !.token = t]
                = [file |-> f, code |-> 0, token |-> t, revokes |-> {}, forgets |-> {}]
         /\ \A R \in SUBSET Devices :
              [Save(f) EXCEPT !.revokes = R]
                = [file |-> f, code |-> 0, token |-> 0, revokes |-> R, forgets |-> {}]
         /\ \A G \in SUBSET Devices :
              [Save(f) EXCEPT !.forgets = G]
                = [file |-> f, code |-> 0, token |-> 0, revokes |-> {}, forgets |-> G]
<1>1. Save(f) \in Saves
  BY TrustAssumption DEF Save, Saves
<1> DEFINE r == [file |-> f, code |-> 0, token |-> 0, revokes |-> {}, forgets |-> {}]
<1>2. Save(f) = r
  BY DEF Save
<1>3. \A c : [r EXCEPT !.code = c]
               = [file |-> f, code |-> c, token |-> 0, revokes |-> {}, forgets |-> {}]
  OBVIOUS
<1>4. \A t : [r EXCEPT !.token = t]
               = [file |-> f, code |-> 0, token |-> t, revokes |-> {}, forgets |-> {}]
  OBVIOUS
<1>5. \A R : [r EXCEPT !.revokes = R]
               = [file |-> f, code |-> 0, token |-> 0, revokes |-> R, forgets |-> {}]
  OBVIOUS
<1>6. \A G : [r EXCEPT !.forgets = G]
               = [file |-> f, code |-> 0, token |-> 0, revokes |-> {}, forgets |-> G]
  OBVIOUS
<1> QED
  BY <1>1, <1>2, <1>3, <1>4, <1>5, <1>6

\* A file in which a device is stored with a token.
Stored(f, d, t, R) == [f EXCEPT !.token[d] = t, !.revoked = R]

\* The fields of an edited file.
LEMMA FileEdits ==
  ASSUME NEW f \in Files
  PROVE  /\ \A c \in 0 .. MaxCodes :
              /\ [f EXCEPT !.code = c] \in Files
              /\ [f EXCEPT !.code = c] = [code |-> c, token |-> f.token, revoked |-> f.revoked]
         /\ \A d \in Devices, t \in 0 .. MaxTokens :
              /\ [f EXCEPT !.token[d] = t] \in Files
              /\ [f EXCEPT !.token[d] = t]
                   = [code |-> f.code, token |-> [f.token EXCEPT ![d] = t], revoked |-> f.revoked]
         /\ \A R \in SUBSET Devices :
              /\ [f EXCEPT !.revoked = R] \in Files
              /\ [f EXCEPT !.revoked = R] = [code |-> f.code, token |-> f.token, revoked |-> R]
         /\ \A d \in Devices, t \in 0 .. MaxTokens, R \in SUBSET Devices :
              /\ Stored(f, d, t, R) \in Files
              /\ Stored(f, d, t, R)
                   = [code |-> f.code, token |-> [f.token EXCEPT ![d] = t], revoked |-> R]
<1>1. f = [code |-> f.code, token |-> f.token, revoked |-> f.revoked]
  BY DEF Files
<1>2. f.code \in 0 .. MaxCodes /\ f.token \in [Devices -> 0 .. MaxTokens]
      /\ f.revoked \in SUBSET Devices
  BY DEF Files
<1>3. \A d \in Devices, t \in 0 .. MaxTokens :
        [f.token EXCEPT ![d] = t] \in [Devices -> 0 .. MaxTokens]
  BY <1>2
<1>4. \A c \in 0 .. MaxCodes, g \in [Devices -> 0 .. MaxTokens], R \in SUBSET Devices :
        [code |-> c, token |-> g, revoked |-> R] \in Files
  BY DEF Files
<1>5. ASSUME NEW c \in 0 .. MaxCodes
      PROVE  /\ [f EXCEPT !.code = c] \in Files
             /\ [f EXCEPT !.code = c] = [code |-> c, token |-> f.token, revoked |-> f.revoked]
  <2>1. [f EXCEPT !.code = c] = [code |-> c, token |-> f.token, revoked |-> f.revoked]
    BY <1>1
  <2>2. [code |-> c, token |-> f.token, revoked |-> f.revoked] \in Files
    BY <1>2, <1>3, <1>4
  <2> QED
    BY <2>1, <2>2
<1>6. ASSUME NEW d \in Devices, NEW t \in 0 .. MaxTokens
      PROVE  /\ [f EXCEPT !.token[d] = t] \in Files
             /\ [f EXCEPT !.token[d] = t]
               = [code |-> f.code, token |-> [f.token EXCEPT ![d] = t], revoked |-> f.revoked]
  <2>1. [f EXCEPT !.token[d] = t]
               = [code |-> f.code, token |-> [f.token EXCEPT ![d] = t], revoked |-> f.revoked]
    BY <1>1
  <2>2. [code |-> f.code, token |-> [f.token EXCEPT ![d] = t], revoked |-> f.revoked] \in Files
    BY <1>2, <1>3, <1>4
  <2> QED
    BY <2>1, <2>2
<1>7. ASSUME NEW R \in SUBSET Devices
      PROVE  /\ [f EXCEPT !.revoked = R] \in Files
             /\ [f EXCEPT !.revoked = R] = [code |-> f.code, token |-> f.token, revoked |-> R]
  <2>1. [f EXCEPT !.revoked = R] = [code |-> f.code, token |-> f.token, revoked |-> R]
    BY <1>1
  <2>2. [code |-> f.code, token |-> f.token, revoked |-> R] \in Files
    BY <1>2, <1>3, <1>4
  <2> QED
    BY <2>1, <2>2
<1>8. ASSUME NEW d \in Devices, NEW t \in 0 .. MaxTokens, NEW R \in SUBSET Devices
      PROVE  /\ Stored(f, d, t, R) \in Files
             /\ Stored(f, d, t, R) = [code |-> f.code, token |-> [f.token EXCEPT ![d] = t], revoked |-> R]
  <2> DEFINE g == [f.token EXCEPT ![d] = t]
  <2>3. Stored(f, d, t, R) = [f EXCEPT !.token = g, !.revoked = R]
    BY DEF Stored
  <2> HIDE DEF g
  <2>4. Stored(f, d, t, R) = [code |-> f.code, token |-> g, revoked |-> R]
    BY <1>1, <2>3
  <2>1. Stored(f, d, t, R) = [code |-> f.code, token |-> [f.token EXCEPT ![d] = t], revoked |-> R]
    BY <2>4 DEF g
  <2>2. [code |-> f.code, token |-> [f.token EXCEPT ![d] = t], revoked |-> R] \in Files
    BY <1>2, <1>3, <1>4
  <2> QED
    BY <2>1, <2>2
<1> QED
  BY <1>5, <1>6, <1>7, <1>8

-----------------------------------------------------------------------------
(* What the methods save fits                                              *)

Whole(F, c, t, R, G) == [file |-> F, code |-> c, token |-> t, revokes |-> R, forgets |-> G]

\* The conditions under which a save fits, in terms of its fields.
LEMMA FitsWhen ==
  ASSUME NEW h \in Histories, NEW drawn \in Drawn, NEW F \in Files,
         NEW c \in 0 .. MaxCodes, NEW t \in 0 .. MaxTokens,
         NEW R \in SUBSET Devices, NEW G \in SUBSET Devices,
         F.code \notin h.codes, F.code = c => c = 0,
         \A d \in Devices : F.token[d] \notin h.tokens /\ (F.token[d] = t => t = 0),
         (h.revoked \cup R) \ G \subseteq F.revoked,
         \A d, e \in Devices : F.token[d] = F.token[e] /\ F.token[d] # 0 => d = e,
         NumbersDrawn(F, drawn), c <= drawn.codes, t <= drawn.tokens
  PROVE  Whole(F, c, t, R, G) \in Saves /\ Fits(Whole(F, c, t, R, G), h, drawn)
<1> DEFINE s == Whole(F, c, t, R, G)
<1>1. s \in Saves
  BY DEF Saves, Whole
<1>2. s.file = F /\ s.code = c /\ s.token = t /\ s.revokes = R /\ s.forgets = G
  BY DEF Whole
<1> HIDE DEF s
<1>3. /\ After(h, s).codes = h.codes \cup ({c} \ {0})
      /\ After(h, s).tokens = h.tokens \cup ({t} \ {0})
      /\ After(h, s).revoked = (h.revoked \cup R) \ G
  BY <1>1, <1>2, AfterType
<1>4. Respects(s.file, After(h, s))
  BY <1>2, <1>3 DEF Respects
<1> QED
  BY <1>1, <1>2, <1>4 DEF Fits, s

\* A process can begin: nothing is torn, and the file respects the history.
Calm == TrustInv /\ trustFile # Torn /\ ~trustHistory.overlap

\* What is then known of the file and the history.
LEMMA CalmFacts ==
  ASSUME Calm
  PROVE  /\ trustFile \in Files /\ trustDrawn \in Drawn /\ trustHistory \in Histories
         /\ Respects(trustFile, trustHistory) /\ NumbersDrawn(trustFile, trustDrawn)
         /\ \A c \in trustHistory.codes : c \in 1 .. trustDrawn.codes
         /\ \A t \in trustHistory.tokens : t \in 1 .. trustDrawn.tokens
         /\ trustFile.code \in 0 .. MaxCodes
         /\ trustFile.token \in [Devices -> 0 .. MaxTokens]
         /\ trustFile.revoked \in SUBSET Devices
         /\ trustDrawn.codes \in 1 .. MaxCodes /\ trustDrawn.tokens \in 0 .. MaxTokens
         /\ 0 \notin trustHistory.codes /\ 0 \notin trustHistory.tokens
<1>1. trustFile \in Files /\ trustDrawn \in Drawn /\ trustHistory \in Histories
  BY DEF Calm, TrustInv, TrustTypes
<1>2. Orderly /\ trustFile # Torn
  BY DEF Calm, TrustInv
<1>3. /\ trustFile.code \in 0 .. MaxCodes
      /\ trustFile.token \in [Devices -> 0 .. MaxTokens]
      /\ trustFile.revoked \in SUBSET Devices
  BY <1>1 DEF Files
<1>4. trustDrawn.codes \in 1 .. MaxCodes /\ trustDrawn.tokens \in 0 .. MaxTokens
  BY <1>1 DEF Drawn
<1>5. 0 \notin trustHistory.codes /\ 0 \notin trustHistory.tokens
  BY <1>1 DEF Histories
<1> QED
  BY <1>1, <1>2, <1>3, <1>4, <1>5 DEF Orderly

\* What each method saves, in terms of fields; all of them are saves.
LEMMA ChallengeSave ==
  ASSUME trustFile \in Files, trustDrawn \in Drawn, NextCode <= MaxCodes
  PROVE  LET F == [code |-> NextCode, token |-> trustFile.token, revoked |-> trustFile.revoked]
         IN  /\ F \in Files
             /\ setPairingChallenge = Whole(F, 0, 0, {}, {})
             /\ consumePairingChallenge = Whole(F, trustFile.code, 0, {}, {})
             /\ setPairingChallenge \in Saves /\ consumePairingChallenge \in Saves
<1> DEFINE F == [code |-> NextCode, token |-> trustFile.token, revoked |-> trustFile.revoked]
<1>1. NextCode \in 0 .. MaxCodes /\ trustFile.code \in 0 .. MaxCodes
  BY TrustAssumption DEF Drawn, NextCode, Files
<1>2. F \in Files /\ [trustFile EXCEPT !.code = NextCode] = F
  BY <1>1, FileEdits
<1>3. setPairingChallenge = Save(F)
  BY <1>2 DEF setPairingChallenge
<1>4. consumePairingChallenge = [Save(F) EXCEPT !.code = trustFile.code]
  BY <1>3 DEF consumePairingChallenge
<1> HIDE DEF F
<1>5. setPairingChallenge = Whole(F, 0, 0, {}, {})
  BY <1>2, <1>3, SaveType DEF Whole
<1>6. consumePairingChallenge = Whole(F, trustFile.code, 0, {}, {})
  BY <1>1, <1>2, <1>4, SaveType DEF Whole
<1>7. Whole(F, trustFile.code, 0, {}, {}) \in Saves
  BY <1>1, <1>2, TrustAssumption DEF Whole, Saves
<1>8. setPairingChallenge \in Saves
  BY <1>2, <1>3, SaveType
<1> QED
  BY <1>2, <1>5, <1>6, <1>7, <1>8 DEF F

\* A new code replaces the old one, which may be spent.
LEMMA ChallengeFits ==
  ASSUME Calm, NextCode <= MaxCodes,
         NEW drawn \in Drawn, drawn.codes = NextCode, trustDrawn.tokens <= drawn.tokens
  PROVE  /\ Fits(setPairingChallenge, trustHistory, drawn)
         /\ Fits(consumePairingChallenge, trustHistory, drawn)
<1> DEFINE F == [code |-> NextCode, token |-> trustFile.token, revoked |-> trustFile.revoked]
<1>1. F \in Files
      /\ setPairingChallenge = Whole(F, 0, 0, {}, {})
      /\ consumePairingChallenge = Whole(F, trustFile.code, 0, {}, {})
  BY CalmFacts, ChallengeSave
<1>2. F.code = NextCode /\ F.token = trustFile.token /\ F.revoked = trustFile.revoked
  OBVIOUS
<1> HIDE DEF F
<1>3. /\ F.code \notin trustHistory.codes /\ F.code # trustFile.code /\ F.code # 0
      /\ trustFile.code <= drawn.codes
  BY <1>2, CalmFacts DEF NextCode, NumbersDrawn
<1>4. \A d \in Devices : F.token[d] \notin trustHistory.tokens
  BY <1>2, CalmFacts DEF Respects
<1>5. trustHistory.revoked \subseteq F.revoked
      /\ \A d, e \in Devices : F.token[d] = F.token[e] /\ F.token[d] # 0 => d = e
  BY <1>2, CalmFacts DEF Respects
<1>6. NumbersDrawn(F, drawn)
  <2>1. \A d \in Devices : F.token[d] <= drawn.tokens
    BY <1>2, CalmFacts DEF NumbersDrawn, Drawn
  <2>2. F.code <= drawn.codes
    BY <1>2, CalmFacts DEF Drawn, NextCode
  <2> QED
    BY <2>1, <2>2 DEF NumbersDrawn
<1>7. 0 \in 0 .. MaxTokens /\ 0 \in 0 .. MaxCodes /\ 0 <= drawn.tokens /\ 0 <= drawn.codes
  BY TrustAssumption DEF Drawn
<1>8. trustHistory \in Histories /\ trustFile.code \in 0 .. MaxCodes
  BY CalmFacts
<1>9. Fits(Whole(F, 0, 0, {}, {}), trustHistory, drawn)
  BY <1>1, <1>3, <1>4, <1>5, <1>6, <1>7, <1>8, FitsWhen
<1>10. Fits(Whole(F, trustFile.code, 0, {}, {}), trustHistory, drawn)
  BY <1>1, <1>3, <1>4, <1>5, <1>6, <1>7, <1>8, FitsWhen
<1> QED
  BY <1>1, <1>9, <1>10

\* A device that is stored gets a token of its own and is no longer revoked.
LEMMA DeviceSave ==
  ASSUME NEW f \in Files, trustDrawn \in Drawn, NextToken <= MaxTokens, NEW d \in Devices
  PROVE  LET F == [code |-> f.code, token |-> [f.token EXCEPT ![d] = NextToken],
                   revoked |-> f.revoked \ {d}]
         IN  /\ F \in Files
             /\ createTrustedDevice(f, d) = Whole(F, 0, 0, {}, {d})
             /\ createTrustedDevice(f, d) \in Saves
<1> DEFINE F == [code |-> f.code, token |-> [f.token EXCEPT ![d] = NextToken],
                 revoked |-> f.revoked \ {d}]
<1>1. NextToken \in 0 .. MaxTokens
  BY TrustAssumption DEF Drawn, NextToken
<1>2. f.revoked \ {d} \in SUBSET Devices
  BY DEF Files
<1>3. F \in Files /\ Stored(f, d, NextToken, f.revoked \ {d}) = F
  <2>1. ASSUME NEW t \in 0 .. MaxTokens, NEW R \in SUBSET Devices
        PROVE  /\ Stored(f, d, t, R) \in Files
               /\ Stored(f, d, t, R)
                    = [code |-> f.code, token |-> [f.token EXCEPT ![d] = t], revoked |-> R]
    BY FileEdits
  <2> QED
    BY <1>1, <1>2, <2>1
<1>4. createTrustedDevice(f, d) = [Save(F) EXCEPT !.forgets = {d}]
  BY <1>3 DEF createTrustedDevice, Stored
<1> HIDE DEF F
<1>5. createTrustedDevice(f, d) = Whole(F, 0, 0, {}, {d})
  <2>1. {d} \in SUBSET Devices
    OBVIOUS
  <2> QED
    BY <1>3, <1>4, <2>1, SaveType DEF Whole
<1>6. Whole(F, 0, 0, {}, {d}) \in Saves
  BY <1>3, TrustAssumption DEF Whole, Saves
<1> QED
  BY <1>3, <1>5, <1>6 DEF F

\* The new token is one that no device has and that was never spent.
LEMMA DeviceFits ==
  ASSUME NEW f \in Files, NEW h \in Histories, NEW drawn \in Drawn, NEW d \in Devices,
         trustDrawn \in Drawn, NextToken <= MaxTokens,
         Respects(f, h), f.code <= drawn.codes,
         \A e \in Devices : f.token[e] <= trustDrawn.tokens,
         \A t \in h.tokens : t <= trustDrawn.tokens,
         drawn.tokens = NextToken
  PROVE  Fits(createTrustedDevice(f, d), h, drawn)
<1> DEFINE F == [code |-> f.code, token |-> [f.token EXCEPT ![d] = NextToken],
                 revoked |-> f.revoked \ {d}]
<1>1. F \in Files /\ createTrustedDevice(f, d) = Whole(F, 0, 0, {}, {d})
  BY DeviceSave
<1>2. /\ F.code = f.code /\ F.revoked = f.revoked \ {d}
      /\ \A e \in Devices : F.token[e] = IF e = d THEN NextToken ELSE f.token[e]
  BY DEF Files
<1> HIDE DEF F
<1>3. NextToken \in Nat /\ NextToken > trustDrawn.tokens /\ trustDrawn.tokens \in Nat
  BY DEF NextToken, Drawn
<1>4. \A e \in Devices : f.token[e] \in Nat /\ f.token[e] # NextToken
  BY <1>3 DEF Files
<1>5. NextToken \notin h.tokens
  BY <1>3
<1>6. F.code \notin h.codes /\ (F.code = 0 => 0 = 0)
  BY <1>2 DEF Respects
<1>7. \A e \in Devices : F.token[e] \notin h.tokens
  BY <1>2, <1>5 DEF Respects
<1>8. (h.revoked \cup {}) \ {d} \subseteq F.revoked
  BY <1>2 DEF Respects
<1>9. \A e, g \in Devices : F.token[e] = F.token[g] /\ F.token[e] # 0 => e = g
  BY <1>2, <1>4 DEF Respects
<1>10. NumbersDrawn(F, drawn)
  BY <1>2, <1>3, <1>4 DEF NumbersDrawn
<1>11. 0 \in 0 .. MaxTokens /\ 0 \in 0 .. MaxCodes /\ 0 <= drawn.tokens /\ 0 <= drawn.codes
  BY TrustAssumption DEF Drawn
<1> QED
  BY <1>1, <1>6, <1>7, <1>8, <1>9, <1>10, <1>11, FitsWhen

\* A refresh spends the token that was presented.
LEMMA RotateSave ==
  ASSUME trustFile \in Files, trustDrawn \in Drawn, NextToken <= MaxTokens, NEW d \in Devices
  PROVE  LET F == [code |-> trustFile.code, token |-> [trustFile.token EXCEPT ![d] = NextToken],
                   revoked |-> trustFile.revoked]
         IN  /\ F \in Files
             /\ rotateRefreshToken(d) = Whole(F, 0, trustFile.token[d], {}, {})
             /\ rotateRefreshToken(d) \in Saves
<1> DEFINE F == [code |-> trustFile.code, token |-> [trustFile.token EXCEPT ![d] = NextToken],
                 revoked |-> trustFile.revoked]
<1>1. NextToken \in 0 .. MaxTokens /\ trustFile.token[d] \in 0 .. MaxTokens
  BY TrustAssumption DEF Drawn, NextToken, Files
<1>2. F \in Files /\ [trustFile EXCEPT !.token[d] = NextToken] = F
  BY <1>1, FileEdits
<1>3. rotateRefreshToken(d) = [Save(F) EXCEPT !.token = trustFile.token[d]]
  BY <1>2 DEF rotateRefreshToken
<1> HIDE DEF F
<1>4. rotateRefreshToken(d) = Whole(F, 0, trustFile.token[d], {}, {})
  BY <1>1, <1>2, <1>3, SaveType DEF Whole
<1>5. Whole(F, 0, trustFile.token[d], {}, {}) \in Saves
  BY <1>1, <1>2, TrustAssumption DEF Whole, Saves
<1> QED
  BY <1>2, <1>4, <1>5 DEF F

\* The token it spends is no other device's, and the new one is fresh.
LEMMA RotateFits ==
  ASSUME Calm, NextToken <= MaxTokens, NEW d \in Devices, trustFile.token[d] # 0,
         NEW drawn \in Drawn, drawn.tokens = NextToken, drawn.codes = trustDrawn.codes
  PROVE  Fits(rotateRefreshToken(d), trustHistory, drawn)
<1> DEFINE F == [code |-> trustFile.code, token |-> [trustFile.token EXCEPT ![d] = NextToken],
                 revoked |-> trustFile.revoked]
           t == trustFile.token[d]
<1>1. F \in Files /\ rotateRefreshToken(d) = Whole(F, 0, t, {}, {})
  BY CalmFacts, RotateSave
<1>2. /\ F.code = trustFile.code /\ F.revoked = trustFile.revoked
      /\ \A e \in Devices : F.token[e] = IF e = d THEN NextToken ELSE trustFile.token[e]
  BY CalmFacts
<1>3. NextToken \in Nat /\ NextToken > trustDrawn.tokens /\ trustDrawn.tokens \in Nat
  BY CalmFacts DEF NextToken
<1>4. \A e \in Devices : /\ trustFile.token[e] \in Nat
                         /\ trustFile.token[e] <= trustDrawn.tokens
                         /\ trustFile.token[e] # NextToken
  BY <1>3, CalmFacts DEF NumbersDrawn
<1>5. NextToken \notin trustHistory.tokens
  BY <1>3, CalmFacts
<1>6. t \in 0 .. MaxTokens /\ t # 0 /\ t <= drawn.tokens
  BY <1>3, <1>4, CalmFacts
<1>7. \A e \in Devices : e # d => trustFile.token[e] # t
  BY <1>6, CalmFacts DEF Respects
<1>8. \A e \in Devices : F.token[e] \notin trustHistory.tokens /\ F.token[e] # t
  BY <1>2, <1>4, <1>5, <1>7, CalmFacts DEF Respects
<1>9. \A e, g \in Devices : F.token[e] = F.token[g] /\ F.token[e] # 0 => e = g
  BY <1>2, <1>4, CalmFacts DEF Respects
<1>10. NumbersDrawn(F, drawn)
  <2>1. \A e \in Devices : F.token[e] <= drawn.tokens
    BY <1>2, <1>3, <1>4
  <2>2. F.code <= drawn.codes
    BY <1>2, CalmFacts DEF NumbersDrawn
  <2> QED
    BY <2>1, <2>2 DEF NumbersDrawn
<1>11. /\ F.code \notin trustHistory.codes
       /\ (trustHistory.revoked \cup {}) \ {} \subseteq F.revoked
  BY <1>2, CalmFacts DEF Respects
<1>12. 0 \in 0 .. MaxCodes /\ 0 <= drawn.codes
  BY TrustAssumption DEF Drawn
<1>13. trustHistory \in Histories
  BY CalmFacts
<1> HIDE DEF F, t
<1> QED
  BY <1>1, <1>6, <1>8, <1>9, <1>10, <1>11, <1>12, <1>13, FitsWhen

\* A file that is only revised in whom it revokes or forgets.
LEMMA RevisedFits ==
  ASSUME Calm, NEW F \in Files, NEW R \in SUBSET Devices, NEW G \in SUBSET Devices,
         F.code = trustFile.code,
         \A e \in Devices : F.token[e] = trustFile.token[e] \/ F.token[e] = 0,
         (trustFile.revoked \cup R) \ G \subseteq F.revoked
  PROVE  /\ Whole(F, 0, 0, R, G) \in Saves
         /\ Fits(Whole(F, 0, 0, R, G), trustHistory, trustDrawn)
<1>1. /\ F.code \notin trustHistory.codes
      /\ (trustHistory.revoked \cup R) \ G \subseteq F.revoked
  BY CalmFacts DEF Respects
<1>2. \A e \in Devices : F.token[e] \notin trustHistory.tokens
  BY CalmFacts DEF Respects
<1>3. \A e, g \in Devices : F.token[e] = F.token[g] /\ F.token[e] # 0 => e = g
  BY CalmFacts DEF Respects
<1>4. NumbersDrawn(F, trustDrawn)
  BY CalmFacts DEF NumbersDrawn
<1>5. 0 \in 0 .. MaxTokens /\ 0 \in 0 .. MaxCodes /\ 0 <= trustDrawn.tokens /\ 0 <= trustDrawn.codes
  BY TrustAssumption, CalmFacts
<1>6. trustHistory \in Histories /\ trustDrawn \in Drawn
  BY CalmFacts
<1> QED
  BY <1>1, <1>2, <1>3, <1>4, <1>5, <1>6, FitsWhen

\* The saves of an authenticated request, a revocation and a removal.
LEMMA RevisingSaves ==
  ASSUME trustFile \in Files, NEW d \in Devices
  PROVE  /\ markDeviceSeen \in Saves /\ revokeDevice(d) \in Saves /\ deleteDevice(d) \in Saves
         /\ markDeviceSeen = Whole(trustFile, 0, 0, {}, {})
         /\ LET F == [code |-> trustFile.code, token |-> trustFile.token,
                      revoked |-> trustFile.revoked \cup {d}]
            IN  F \in Files /\ revokeDevice(d) = Whole(F, 0, 0, {d}, {})
         /\ LET F == [code |-> trustFile.code, token |-> [trustFile.token EXCEPT ![d] = 0],
                      revoked |-> trustFile.revoked \ {d}]
            IN  F \in Files /\ deleteDevice(d) = Whole(F, 0, 0, {}, {d})
<1>1. {d} \in SUBSET Devices /\ trustFile.revoked \in SUBSET Devices /\ 0 \in 0 .. MaxTokens
  BY TrustAssumption DEF Files
<1>2. /\ markDeviceSeen \in Saves
      /\ markDeviceSeen = Whole(trustFile, 0, 0, {}, {})
  BY SaveType DEF markDeviceSeen, Whole
<1> DEFINE F == [code |-> trustFile.code, token |-> trustFile.token,
                 revoked |-> trustFile.revoked \cup {d}]
           E == [code |-> trustFile.code, token |-> [trustFile.token EXCEPT ![d] = 0],
                 revoked |-> trustFile.revoked \ {d}]
<1>3. F \in Files /\ [trustFile EXCEPT !.revoked = trustFile.revoked \cup {d}] = F
  <2>1. ASSUME NEW R \in SUBSET Devices
        PROVE  /\ [trustFile EXCEPT !.revoked = R] \in Files
               /\ [trustFile EXCEPT !.revoked = R]
                    = [code |-> trustFile.code, token |-> trustFile.token, revoked |-> R]
    BY FileEdits
  <2>2. trustFile.revoked \cup {d} \in SUBSET Devices
    BY <1>1
  <2> QED
    BY <2>1, <2>2
<1>4. E \in Files /\ Stored(trustFile, d, 0, trustFile.revoked \ {d}) = E
  <2>1. ASSUME NEW t \in 0 .. MaxTokens, NEW R \in SUBSET Devices
        PROVE  /\ Stored(trustFile, d, t, R) \in Files
               /\ Stored(trustFile, d, t, R)
                    = [code |-> trustFile.code, token |-> [trustFile.token EXCEPT ![d] = t],
                       revoked |-> R]
    BY FileEdits
  <2>2. trustFile.revoked \ {d} \in SUBSET Devices
    BY <1>1
  <2> QED
    BY <1>1, <2>1, <2>2
<1>5. revokeDevice(d) = [Save(F) EXCEPT !.revokes = {d}]
  BY <1>3 DEF revokeDevice
<1>6. deleteDevice(d) = [Save(E) EXCEPT !.forgets = {d}]
  BY <1>4 DEF deleteDevice, Stored
<1> HIDE DEF F, E
<1>7. revokeDevice(d) = Whole(F, 0, 0, {d}, {}) /\ deleteDevice(d) = Whole(E, 0, 0, {}, {d})
  BY <1>1, <1>3, <1>4, <1>5, <1>6, SaveType DEF Whole
<1>8. Whole(F, 0, 0, {d}, {}) \in Saves /\ Whole(E, 0, 0, {}, {d}) \in Saves
  BY <1>1, <1>3, <1>4, TrustAssumption DEF Whole, Saves
<1> QED
  BY <1>2, <1>3, <1>4, <1>7, <1>8 DEF F, E

\* Being seen, revoked or deleted brings back nothing that was spent.
LEMMA RevisingFits ==
  ASSUME Calm, NEW d \in Devices
  PROVE  /\ Fits(markDeviceSeen, trustHistory, trustDrawn)
         /\ Fits(revokeDevice(d), trustHistory, trustDrawn)
         /\ Fits(deleteDevice(d), trustHistory, trustDrawn)
<1> DEFINE F == [code |-> trustFile.code, token |-> trustFile.token,
                 revoked |-> trustFile.revoked \cup {d}]
           E == [code |-> trustFile.code, token |-> [trustFile.token EXCEPT ![d] = 0],
                 revoked |-> trustFile.revoked \ {d}]
<1>1. /\ F \in Files /\ E \in Files /\ trustFile \in Files
      /\ markDeviceSeen = Whole(trustFile, 0, 0, {}, {})
      /\ revokeDevice(d) = Whole(F, 0, 0, {d}, {})
      /\ deleteDevice(d) = Whole(E, 0, 0, {}, {d})
  BY CalmFacts, RevisingSaves
<1>2. /\ F.code = trustFile.code /\ F.token = trustFile.token
      /\ F.revoked = trustFile.revoked \cup {d}
      /\ E.code = trustFile.code /\ E.revoked = trustFile.revoked \ {d}
      /\ \A e \in Devices : E.token[e] = IF e = d THEN 0 ELSE trustFile.token[e]
  BY CalmFacts
<1>3. {d} \in SUBSET Devices /\ {} \in SUBSET Devices
  OBVIOUS
<1> HIDE DEF F, E
<1>4. Fits(Whole(trustFile, 0, 0, {}, {}), trustHistory, trustDrawn)
  BY <1>1, <1>3, RevisedFits
<1>5. Fits(Whole(F, 0, 0, {d}, {}), trustHistory, trustDrawn)
  BY <1>1, <1>2, <1>3, RevisedFits
<1>6. Fits(Whole(E, 0, 0, {}, {d}), trustHistory, trustDrawn)
  BY <1>1, <1>2, <1>3, RevisedFits
<1> QED
  BY <1>1, <1>4, <1>5, <1>6

-----------------------------------------------------------------------------
(* Every step keeps the invariant                                          *)

\* One save that fits, when no number or one is drawn.
LEMMA BeginOne ==
  ASSUME TrustInv, NEW p \in Processes, NEW s \in Saves, Begin(p, <<s>>),
         trustDrawn' \in Drawn,
         trustDrawn.codes <= trustDrawn'.codes, trustDrawn.tokens <= trustDrawn'.tokens,
         Calm => Fits(s, trustHistory, trustDrawn')
  PROVE  TrustInv'
<1>1. trustFile # Torn
  BY DEF Begin
<1>2. ~trustHistory.overlap => Fit(<<s>>, trustHistory, trustDrawn')
  BY <1>1, FitOne DEF Calm
<1> QED
  BY <1>2, AheadOne, BeginKeeps

\* A code is replaced, at the CLI or in the daemon.
LEMMA RotatePairingKeeps ==
  ASSUME TrustInv, NEW p \in Processes, RotatePairingChallenge(p)
  PROVE  TrustInv'
<1>1. DrawsCode /\ Begin(p, <<setPairingChallenge>>)
  BY DEF RotatePairingChallenge
<1>2. trustFile \in Files /\ trustDrawn \in Drawn /\ NextCode <= MaxCodes
  BY <1>1 DEF TrustInv, TrustTypes, DrawsCode
<1>3. /\ trustDrawn' \in Drawn /\ trustDrawn'.codes = NextCode
      /\ trustDrawn'.tokens = trustDrawn.tokens
  BY <1>1, <1>2, DrawsCodeType
<1>4. trustDrawn.codes <= trustDrawn'.codes /\ trustDrawn.tokens <= trustDrawn'.tokens
  BY <1>2, <1>3 DEF Drawn, NextCode
<1>5. setPairingChallenge \in Saves
  BY <1>2, ChallengeSave
<1>6. Calm => Fits(setPairingChallenge, trustHistory, trustDrawn')
  BY <1>2, <1>3, <1>4, ChallengeFits
<1> QED
  BY <1>1, <1>3, <1>4, <1>5, <1>6, BeginOne

\* A pairing writes twice: the second save fits once the first is written.
LEMMA CompletePairingKeeps ==
  ASSUME TrustInv, NEW d \in Devices, NEW code, CompletePairing(d, code)
  PROVE  TrustInv'
<1> DEFINE s == consumePairingChallenge
           t == createTrustedDevice(s.file, d)
           F == [code |-> NextCode, token |-> trustFile.token, revoked |-> trustFile.revoked]
<1>1. /\ NextCode <= MaxCodes /\ NextToken <= MaxTokens
      /\ trustDrawn' = [tokens |-> NextToken, codes |-> NextCode]
      /\ Begin("daemon", <<s, t>>)
  BY DEF CompletePairing
<1>2. trustFile \in Files /\ trustDrawn \in Drawn /\ trustHistory \in Histories
  BY DEF TrustInv, TrustTypes
<1>3. NextCode \in 1 .. MaxCodes /\ NextToken \in 1 .. MaxTokens
      /\ trustDrawn.codes <= NextCode /\ trustDrawn.tokens <= NextToken
      /\ NextCode = trustDrawn.codes + 1 /\ trustDrawn.codes \in 1 .. MaxCodes
  BY <1>1, <1>2, TrustAssumption DEF Drawn, NextCode, NextToken
<1>4. /\ trustDrawn' \in Drawn
      /\ trustDrawn'.codes = NextCode /\ trustDrawn'.tokens = NextToken
      /\ trustDrawn.codes <= trustDrawn'.codes /\ trustDrawn.tokens <= trustDrawn'.tokens
  BY <1>1, <1>3 DEF Drawn
<1>5. F \in Files /\ s = Whole(F, trustFile.code, 0, {}, {}) /\ s \in Saves
  BY <1>1, <1>2, ChallengeSave
<1>6. s.file = F /\ s.token = 0
  BY <1>5 DEF Whole
<1>7. t \in Saves
  BY <1>1, <1>2, <1>5, <1>6, DeviceSave
<1>8. ASSUME Calm
      PROVE  Fit(<<s, t>>, trustHistory, trustDrawn')
  <2>1. Fits(s, trustHistory, trustDrawn')
    BY <1>1, <1>4, <1>8, ChallengeFits
  <2>2. After(trustHistory, s) \in Histories
    BY <1>2, <1>5, AfterType
  <2>3. After(trustHistory, s).tokens = trustHistory.tokens
    <3> HIDE DEF s
    <3>1. After(trustHistory, s).tokens = trustHistory.tokens \cup ({s.token} \ {0})
      BY <1>2, <1>5, AfterType
    <3> QED
      BY <1>6, <3>1
  <2>4. Respects(F, After(trustHistory, s)) /\ F.code <= trustDrawn'.codes
    BY <1>6, <2>1 DEF Fits, NumbersDrawn
  <2>5. \A e \in Devices : F.token[e] <= trustDrawn.tokens
    BY <1>8, CalmFacts DEF NumbersDrawn
  <2>6. \A n \in After(trustHistory, s).tokens : n <= trustDrawn.tokens
    BY <1>8, <2>3, CalmFacts
  <2> HIDE DEF F, s
  <2>7. Fits(createTrustedDevice(F, d), After(trustHistory, s), trustDrawn')
    BY <1>1, <1>2, <1>4, <1>5, <2>2, <2>4, <2>5, <2>6, DeviceFits
  <2> QED
    BY <1>5, <1>6, <1>7, <2>1, <2>7, FitTwo
<1>9. ~trustHistory.overlap => Fit(<<s, t>>, trustHistory, trustDrawn')
  BY <1>1, <1>8 DEF Begin, Calm
<1>10. <<s, t>> \in Ahead /\ <<s, t>> # <<>>
  BY <1>5, <1>7, AheadTwo
<1>11. "daemon" \in Processes
  BY DEF Processes
<1> HIDE DEF s, t
<1> QED
  BY <1>1, <1>4, <1>9, <1>10, <1>11, BeginKeeps

\* A session is refreshed.
LEMMA RefreshKeeps ==
  ASSUME TrustInv, NEW d \in Devices, NEW token, RefreshSession(d, token)
  PROVE  TrustInv'
<1>1. DrawsToken /\ Begin("daemon", <<rotateRefreshToken(d)>>) /\ trustFile.token[d] # 0
  BY DEF RefreshSession, Known
<1>2. trustFile \in Files /\ trustDrawn \in Drawn /\ NextToken <= MaxTokens
  BY <1>1 DEF TrustInv, TrustTypes, DrawsToken
<1>3. /\ trustDrawn' \in Drawn /\ trustDrawn'.codes = trustDrawn.codes
      /\ trustDrawn'.tokens = NextToken
  BY <1>1, <1>2, DrawsTokenType
<1>4. trustDrawn.codes <= trustDrawn'.codes /\ trustDrawn.tokens <= trustDrawn'.tokens
  BY <1>2, <1>3 DEF Drawn, NextToken
<1>5. rotateRefreshToken(d) \in Saves
  BY <1>2, RotateSave
<1>6. Calm => Fits(rotateRefreshToken(d), trustHistory, trustDrawn')
  BY <1>1, <1>2, <1>3, RotateFits
<1> QED
  BY <1>1, <1>3, <1>4, <1>5, <1>6, BeginOne DEF Processes

\* Requests that revise the file without drawing a number.
LEMMA RevisingKeeps ==
  ASSUME TrustInv, NEW p \in Processes, NEW d \in Devices,
         \/ AuthenticateAccessToken(d) \/ RevokeDevice(p, d) \/ DeleteDevice(p, d)
  PROVE  TrustInv'
<1>1. /\ trustFile \in Files /\ trustDrawn \in Drawn /\ trustDrawn' = trustDrawn
      /\ \E q \in Processes, s \in {markDeviceSeen, revokeDevice(d), deleteDevice(d)} :
           Begin(q, <<s>>)
  BY DEF TrustInv, TrustTypes, AuthenticateAccessToken, RevokeDevice, DeleteDevice, Processes
<1>2. trustDrawn.codes <= trustDrawn'.codes /\ trustDrawn.tokens <= trustDrawn'.tokens
  BY <1>1 DEF Drawn
<1>3. PICK q \in Processes, s \in {markDeviceSeen, revokeDevice(d), deleteDevice(d)} :
        Begin(q, <<s>>)
  BY <1>1
<1>4. s \in Saves
  BY <1>1, <1>3, RevisingSaves
<1>5. Calm => Fits(s, trustHistory, trustDrawn')
  BY <1>1, <1>3, RevisingFits
<1> QED
  BY <1>1, <1>2, <1>3, <1>4, <1>5, BeginOne

\* While a process writes, the file is torn.
LEMMA TruncateKeeps ==
  ASSUME TrustInv, NEW p \in Processes, Truncate(p)
  PROVE  TrustInv'
<1>1. /\ trustFile' = Torn /\ trustCut' = trustCut \cup {p} /\ trustSaves[p] # <<>>
      /\ UNCHANGED <<trustSaves, trustDrawn, trustHistory>>
  BY DEF Truncate
<1>2. Torn \in Files
  BY TrustAssumption DEF Torn, Files
<1>3. TrustTypes'
  BY <1>1, <1>2 DEF TrustInv, TrustTypes
<1>4. ~trustHistory.overlap => Orderly'
  BY <1>1 DEF TrustInv, Orderly
<1> QED
  BY <1>1, <1>3, <1>4 DEF TrustInv

\* A write puts its save into the file and into the history, and leaves the
\* next save to be written.
LEMMA WriteKeeps ==
  ASSUME TrustInv, NEW p \in Processes, Write(p)
  PROVE  TrustInv'
<1> DEFINE s == Head(trustSaves[p])
           rest == Tail(trustSaves[p])
<1>1. /\ trustFile' = s.file
      /\ trustHistory' = After(trustHistory, s)
      /\ trustSaves' = [trustSaves EXCEPT ![p] = rest]
      /\ trustCut' = trustCut \ {p}
      /\ UNCHANGED trustDrawn
  BY DEF Write, After
<1>2. /\ trustSaves \in [Processes -> Ahead] /\ trustHistory \in Histories
      /\ trustDrawn \in Drawn /\ trustSaves[p] \in Ahead /\ trustSaves[p] # <<>>
  BY DEF TrustInv, TrustTypes, Write
<1>3. s \in Saves /\ rest \in Ahead /\ (rest # <<>> => Tail(rest) = <<>>)
  BY <1>2, AheadParts
<1> HIDE DEF s, rest
<1>4. \A q \in Processes : trustSaves'[q] = IF q = p THEN rest ELSE trustSaves[q]
  BY <1>1, <1>2
<1>5. /\ trustHistory' \in Histories
      /\ trustHistory'.codes = trustHistory.codes \cup ({s.code} \ {0})
      /\ trustHistory'.tokens = trustHistory.tokens \cup ({s.token} \ {0})
      /\ trustHistory'.overlap = trustHistory.overlap
  BY <1>1, <1>2, <1>3, AfterType
<1>6. TrustTypes'
  <2>1. trustFile' \in Files
    BY <1>1, <1>3 DEF Saves
  <2>2. trustSaves' \in [Processes -> Ahead]
    BY <1>1, <1>2, <1>3
  <2>3. trustCut' \subseteq {q \in Processes : trustSaves'[q] # <<>>}
    BY <1>1, <1>4 DEF TrustInv, TrustTypes
  <2> QED
    BY <1>1, <1>2, <1>5, <2>1, <2>2, <2>3 DEF TrustTypes
<1>7. ASSUME ~trustHistory.overlap
      PROVE  Orderly'
  <2>1. Orderly
    BY <1>7 DEF TrustInv
  <2>2. /\ Fits(s, trustHistory, trustDrawn)
        /\ rest # <<>> => Fits(Head(rest), After(trustHistory, s), trustDrawn)
    BY <1>2, <2>1 DEF Orderly, Fit, s, rest
  <2>3. \A q, r \in Processes : trustSaves'[q] # <<>> /\ trustSaves'[r] # <<>> => q = r
    BY <1>2, <1>4, <2>1 DEF Orderly
  <2>4. /\ trustHistory'.codes \subseteq 1 .. trustDrawn'.codes
        /\ trustHistory'.tokens \subseteq 1 .. trustDrawn'.tokens
    <3>1. s.code \in Nat /\ s.token \in Nat
      BY <1>3, TrustAssumption DEF Saves
    <3>2. s.code <= trustDrawn.codes /\ s.token <= trustDrawn.tokens
      BY <2>2 DEF Fits
    <3>3. trustHistory.codes \subseteq 1 .. trustDrawn.codes
          /\ trustHistory.tokens \subseteq 1 .. trustDrawn.tokens
      BY <2>1 DEF Orderly
    <3>4. (s.code # 0 => s.code \in 1 .. trustDrawn.codes)
          /\ (s.token # 0 => s.token \in 1 .. trustDrawn.tokens)
      BY <1>2, <3>1, <3>2 DEF Drawn
    <3> QED
      BY <1>1, <1>5, <3>3, <3>4
  <2>5. Respects(trustFile', trustHistory') /\ NumbersDrawn(trustFile', trustDrawn')
    BY <1>1, <2>2 DEF Fits
  <2>6. ASSUME NEW q \in Processes
        PROVE  Fit(trustSaves'[q], trustHistory', trustDrawn')
    <3>1. CASE q = p
      BY <1>1, <1>3, <1>4, <2>2, <3>1 DEF Fit
    <3>2. CASE q # p
      BY <1>2, <1>4, <2>1, <3>2 DEF Orderly, Fit
    <3> QED
      BY <3>1, <3>2
  <2> QED
    BY <2>3, <2>4, <2>5, <2>6 DEF Orderly
<1> QED
  BY <1>5, <1>6, <1>7 DEF TrustInv

\* A crash leaves the file as it is, torn or not, and nothing to be written.
LEMMA CrashKeeps ==
  ASSUME TrustInv, NEW p \in Processes, Crash(p)
  PROVE  TrustInv'
<1>1. /\ trustSaves[p] # <<>> /\ trustSaves' = [trustSaves EXCEPT ![p] = <<>>]
      /\ trustCut' = trustCut \ {p}
      /\ UNCHANGED <<trustFile, trustDrawn>>
  BY DEF Crash
<1>2. trustSaves \in [Processes -> Ahead] /\ <<>> \in Ahead
  BY DEF TrustInv, TrustTypes, Ahead
<1>3. \A q \in Processes : trustSaves'[q] = IF q = p THEN <<>> ELSE trustSaves[q]
  BY <1>1, <1>2
<1>4. /\ trustHistory' \in Histories
      /\ trustHistory'.codes = trustHistory.codes
      /\ trustHistory'.tokens = trustHistory.tokens
      /\ trustHistory'.revoked = trustHistory.revoked
      /\ trustHistory'.overlap = trustHistory.overlap
  <2>1. trustHistory \in Histories /\ trustHistory' = [trustHistory EXCEPT !.crashed = TRUE]
    BY DEF Crash, TrustInv, TrustTypes
  <2> QED
    BY <2>1 DEF Histories
<1>5. TrustTypes'
  <2>1. trustSaves' \in [Processes -> Ahead]
    BY <1>1, <1>2
  <2>2. trustCut' \subseteq {q \in Processes : trustSaves'[q] # <<>>}
    BY <1>1, <1>3 DEF TrustInv, TrustTypes
  <2> QED
    BY <1>1, <1>4, <2>1, <2>2 DEF TrustInv, TrustTypes
<1>6. ASSUME ~trustHistory.overlap
      PROVE  Orderly'
  <2>1. Orderly
    BY <1>6 DEF TrustInv
  <2>2. \A q \in Processes : trustSaves'[q] = <<>>
    BY <1>1, <1>3, <2>1 DEF Orderly
  <2>3. trustFile' # Torn
          => Respects(trustFile', trustHistory') /\ NumbersDrawn(trustFile', trustDrawn')
    BY <1>1, <1>4, <2>1 DEF Orderly, Respects
  <2> QED
    BY <1>1, <1>4, <2>1, <2>2, <2>3 DEF Orderly, Fit
<1> QED
  BY <1>4, <1>5, <1>6 DEF TrustInv

-----------------------------------------------------------------------------
(* The theorem                                                             *)

\* The file starts with a code and no devices.
LEMMA InitKeeps == TrustInit => TrustInv
<1> SUFFICES ASSUME TrustInit PROVE TrustInv
  OBVIOUS
<1>1. trustHistory = [codes |-> {}, tokens |-> {}, revoked |-> {}, overlap |-> FALSE,
                      crashed |-> FALSE]
      /\ trustDrawn = [tokens |-> 0, codes |-> 1] /\ trustCut = {}
      /\ trustSaves = [p \in Processes |-> <<>>]
  BY DEF TrustInit
<1>2. trustFile = [code |-> 1, token |-> [d \in Devices |-> 0], revoked |-> {}]
  BY DEF TrustInit, Torn
<1>3. 1 \in 1 .. MaxCodes /\ 1 \in 0 .. MaxCodes /\ 0 \in 0 .. MaxTokens
  BY TrustAssumption
<1>4. TrustTypes
  <2>1. trustFile \in Files
    BY <1>2, <1>3 DEF Files
  <2>2. trustSaves \in [Processes -> Ahead]
    BY <1>1 DEF Ahead
  <2>3. trustDrawn \in Drawn /\ trustHistory \in Histories
    BY <1>1, <1>3 DEF Drawn, Histories
  <2> QED
    BY <1>1, <2>1, <2>2, <2>3 DEF TrustTypes
<1>5. Orderly
  BY <1>1, <1>2 DEF Orderly, Respects, NumbersDrawn, Fit
<1> QED
  BY <1>4, <1>5 DEF TrustInv

\* Every operation, write and crash keeps the invariant.
LEMMA StepKeeps == TrustInv /\ [TrustNext]_trustVars => TrustInv'
<1> SUFFICES ASSUME TrustInv, [TrustNext]_trustVars PROVE TrustInv'
  OBVIOUS
<1>1. "cli" \in Processes /\ "daemon" \in Processes
  BY DEF Processes
<1>2. CASE handlePair \/ handleDevices
  BY <1>1, <1>2, RotatePairingKeeps, RevisingKeeps DEF handlePair, handleDevices
<1>3. CASE PublicRoutes
  BY <1>1, <1>3, RotatePairingKeeps, CompletePairingKeeps, RefreshKeeps DEF PublicRoutes
<1>4. CASE authenticateBridgeRequest \/ DeviceRoutes
  BY <1>1, <1>4, RevisingKeeps DEF authenticateBridgeRequest, DeviceRoutes
<1>5. CASE \E p \in Processes : Truncate(p) \/ Write(p) \/ Crash(p)
  BY <1>5, TruncateKeeps, WriteKeeps, CrashKeeps
<1>6. CASE UNCHANGED trustVars
  BY <1>6 DEF trustVars, TrustInv, TrustTypes, Orderly
<1> QED
  BY <1>2, <1>3, <1>4, <1>5, <1>6 DEF TrustNext

\* As long as the daemon and the CLI do not change the file at a time, and
\* wherever a crash cuts an operation short, a pairing code pairs once, a
\* refresh token refreshes once, and a revoked device stays revoked until it is
\* deleted, for any devices and any numbers of codes and tokens.
THEOREM TrustIsKept == TrustSpec => []SpentStaysSpent
<1>1. TrustInv => SpentStaysSpent
  <2> SUFFICES ASSUME TrustInv, ~trustHistory.overlap
               PROVE  /\ trustFile.code \notin trustHistory.codes
                      /\ \A d \in Devices : trustFile.token[d] \notin trustHistory.tokens
                      /\ \A d \in trustHistory.revoked :
                           trustFile # Torn => d \in trustFile.revoked
    BY DEF SpentStaysSpent
  <2>1. CASE trustFile # Torn
    BY <2>1 DEF TrustInv, Orderly, Respects
  <2>2. CASE trustFile = Torn
    <3>1. 0 \notin trustHistory.codes /\ 0 \notin trustHistory.tokens
      BY DEF TrustInv, TrustTypes, Histories
    <3> QED
      BY <2>2, <3>1 DEF Torn
  <2> QED
    BY <2>1, <2>2
<1> QED
  BY InitKeeps, StepKeeps, <1>1, PTL DEF TrustSpec
=============================================================================
