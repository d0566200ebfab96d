----------------------------- MODULE DeviceTrust -----------------------------
(***************************************************************************)
(* The trust file of the bridge: the pairing code, and for every device    *)
(* its refresh token and whether it is revoked.  Each operation of the     *)
(* auth service reads the whole file, changes its copy, and writes it back *)
(* with writeFileSync, which truncates first.  The daemon serves requests  *)
(* one at a time, and the CLI does the same to the same file from another  *)
(* process.  Codes and tokens are numbers, drawn in order.                 *)
(***************************************************************************)
EXTENDS Naturals, Sequences, FiniteSets

CONSTANTS
  Devices,    \* ids of devices
  MaxTokens,  \* bound on the refresh tokens drawn
  MaxCodes    \* bound on the pairing codes drawn

ASSUME TrustAssumption == MaxTokens \in Nat /\ MaxCodes \in Nat \ {0}

VARIABLES
  trustFile,     \* the file, Torn while a process writes it
  trustSaves,    \* what each process has still to write
  trustCut,      \* processes that have truncated the file
  trustDrawn,    \* number of tokens and codes drawn so far
  trustHistory   \* codes and tokens that were used, devices that were revoked,
                 \* and whether two processes changed the file at a time

trustVars == <<trustFile, trustSaves, trustCut, trustDrawn, trustHistory>>

Processes == {"daemon", "cli"}
Torn == [code |-> 0, token |-> [d \in Devices |-> 0], revoked |-> {}]

\* A device whose token is 0 is not in the file.
Files == [code : 0 .. MaxCodes, token : [Devices -> 0 .. MaxTokens], revoked : SUBSET Devices]
Known(d) == trustFile.token[d] # 0

\* What a write makes final: the code or the token that it spends, the device
\* that it revokes or forgets.
Saves == [file : Files, code : 0 .. MaxCodes, token : 0 .. MaxTokens,
          revokes : SUBSET Devices, forgets : SUBSET Devices]
Save(file) == [file |-> file, code |-> 0, token |-> 0, revokes |-> {}, forgets |-> {}]

TrustTypeOK ==
  /\ trustFile \in Files
  /\ \A p \in Processes : trustSaves[p] \in Seq(Saves) /\ Len(trustSaves[p]) <= 2
  /\ trustCut \subseteq Processes
  /\ trustDrawn \in [tokens : 0 .. MaxTokens, codes : 1 .. MaxCodes]
  /\ trustHistory \in [codes : SUBSET (1 .. MaxCodes), tokens : SUBSET (1 .. MaxTokens),
                       revoked : SUBSET Devices, overlap : BOOLEAN, crashed : BOOLEAN]

TrustInit ==
  /\ trustFile = [Torn EXCEPT !.code = 1]
  /\ trustSaves = [p \in Processes |-> <<>>]
  /\ trustCut = {}
  /\ trustDrawn = [tokens |-> 0, codes |-> 1]
  /\ trustHistory = [codes |-> {}, tokens |-> {}, revoked |-> {}, overlap |-> FALSE,
                     crashed |-> FALSE]

-----------------------------------------------------------------------------
(* An operation of process p, up to its first write                        *)

Begin(p, saves) ==
  /\ trustFile # Torn
  /\ trustSaves[p] = <<>>
  /\ trustSaves' = [trustSaves EXCEPT ![p] = saves]
  /\ trustHistory' = [trustHistory EXCEPT !.overlap =
                        @ \/ \E q \in Processes \ {p} : trustSaves[q] # <<>>]
  /\ UNCHANGED <<trustFile, trustCut>>

NextCode == trustDrawn.codes + 1
NextToken == trustDrawn.tokens + 1
DrawsCode == NextCode <= MaxCodes /\ trustDrawn' = [trustDrawn EXCEPT !.codes = @ + 1]
DrawsToken == NextToken <= MaxTokens /\ trustDrawn' = [trustDrawn EXCEPT !.tokens = @ + 1]

\* What the methods of the store save.
setPairingChallenge == Save([trustFile EXCEPT !.code = NextCode])
consumePairingChallenge == [setPairingChallenge EXCEPT !.code = trustFile.code]
createTrustedDevice(file, d) ==
  [Save([file EXCEPT !.token[d] = NextToken, !.revoked = @ \ {d}]) EXCEPT !.forgets = {d}]

\* Faulty: the token that was presented stays valid.
rotateRefreshTokenKept(d) == [Save(trustFile) EXCEPT !.token = trustFile.token[d]]

rotateRefreshToken(d) ==
  [Save([trustFile EXCEPT !.token[d] = NextToken]) EXCEPT !.token = trustFile.token[d]]

markDeviceSeen == Save(trustFile)
revokeDevice(d) ==
  [Save([trustFile EXCEPT !.revoked = @ \cup {d}]) EXCEPT !.revokes = {d}]
deleteDevice(d) ==
  [Save([trustFile EXCEPT !.token[d] = 0, !.revoked = @ \ {d}]) EXCEPT !.forgets = {d}]

\* pair refresh at the CLI, or a code that expired when its status is read
RotatePairingChallenge(p) == DrawsCode /\ Begin(p, <<setPairingChallenge>>)

\* The device is stored by a second write, after the one that takes the code.
CompletePairing(d, code) ==
  /\ ~Known(d)
  /\ code = trustFile.code
  /\ NextCode <= MaxCodes /\ NextToken <= MaxTokens
  /\ trustDrawn' = [tokens |-> NextToken, codes |-> NextCode]
  /\ Begin("daemon", <<consumePairingChallenge, createTrustedDevice(consumePairingChallenge.file, d)>>)

RefreshSession(d, token) ==
  /\ Known(d) /\ d \notin trustFile.revoked
  /\ token = trustFile.token[d]
  /\ DrawsToken
  /\ Begin("daemon", <<rotateRefreshToken(d)>>)

\* Every request that is authenticated marks its device as seen, and so
\* writes the file.
AuthenticateAccessToken(d) ==
  /\ Known(d) /\ d \notin trustFile.revoked
  /\ Begin("daemon", <<markDeviceSeen>>)
  /\ UNCHANGED trustDrawn

RevokeDevice(p, d) ==
  /\ Known(d)
  /\ Begin(p, <<revokeDevice(d)>>)
  /\ UNCHANGED trustDrawn

DeleteDevice(p, d) ==
  /\ Known(d) /\ d \in trustFile.revoked
  /\ Begin(p, <<deleteDevice(d)>>)
  /\ UNCHANGED trustDrawn

-----------------------------------------------------------------------------
(* writeFileSync                                                           *)

Truncate(p) ==
  /\ trustSaves[p] # <<>>
  /\ p \notin trustCut
  /\ trustFile' = Torn
  /\ trustCut' = trustCut \cup {p}
  /\ UNCHANGED <<trustSaves, trustDrawn, trustHistory>>

Write(p) ==
  /\ p \in trustCut
  /\ LET s == Head(trustSaves[p])
     IN  /\ trustFile' = s.file
         /\ trustHistory' = [trustHistory EXCEPT
              !.codes = @ \cup ({s.code} \ {0}), !.tokens = @ \cup ({s.token} \ {0}),
              !.revoked = (@ \cup s.revokes) \ s.forgets]
  /\ trustSaves' = [trustSaves EXCEPT ![p] = Tail(@)]
  /\ trustCut' = trustCut \ {p}
  /\ UNCHANGED trustDrawn

\* The process dies, at any moment of its operation.
Crash(p) ==
  /\ trustSaves[p] # <<>>
  /\ ~trustHistory.crashed
  /\ trustSaves' = [trustSaves EXCEPT ![p] = <<>>]
  /\ trustCut' = trustCut \ {p}
  /\ trustHistory' = [trustHistory EXCEPT !.crashed = TRUE]
  /\ UNCHANGED <<trustFile, trustDrawn>>

\* The commands pair and devices at a terminal
handlePair == RotatePairingChallenge("cli")
handleDevices == \E d \in Devices : RevokeDevice("cli", d) \/ DeleteDevice("cli", d)

\* The routes of the daemon: those that need no session, the session of a
\* request that does, and those of the devices
PublicRoutes ==
  \/ RotatePairingChallenge("daemon")
  \/ \E d \in Devices : \/ \E code \in 1 .. MaxCodes : CompletePairing(d, code)
                        \/ \E token \in 1 .. MaxTokens : RefreshSession(d, token)

authenticateBridgeRequest == \E d \in Devices : AuthenticateAccessToken(d)
DeviceRoutes == \E d \in Devices : RevokeDevice("daemon", d) \/ DeleteDevice("daemon", d)

TrustNext ==
  \/ handlePair \/ handleDevices
  \/ PublicRoutes \/ authenticateBridgeRequest \/ DeviceRoutes
  \/ \E p \in Processes : Truncate(p) \/ Write(p) \/ Crash(p)

TrustSpec == TrustInit /\ [][TrustNext]_trustVars

-----------------------------------------------------------------------------
(* Properties                                                              *)

\* As long as no two processes change the file at a time, and whichever
\* operation a crash cuts short: a pairing code pairs once, a refresh token
\* refreshes once, and a revoked device stays revoked until it is deleted.
SpentStaysSpent ==
  ~trustHistory.overlap =>
    /\ trustFile.code \notin trustHistory.codes
    /\ \A d \in Devices : trustFile.token[d] \notin trustHistory.tokens
    /\ \A d \in trustHistory.revoked :
         trustFile # Torn => d \in trustFile.revoked
=============================================================================
