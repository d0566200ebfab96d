---------------------- MODULE AppServerTransportProofs ----------------------
(***************************************************************************)
(* Every call gets the answer to itself, and none waits for a child that   *)
(* has exited; and a call is settled once, for any number of calls.        *)
(***************************************************************************)
EXTENDS AppServerTransport, TLAPS

\* Used wherever calls are counted.
USE RpcAssumption

-----------------------------------------------------------------------------
(* The invariant                                                           *)

Entries == [method : Methods, id : RpcCalls, by : RpcCalls \cup {0},
            end : Answers \cup {"waits", "exit"}, late : BOOLEAN]

\* A call waits under its own number until something settles it, and no longer.
Filed(calls, pending) ==
  \A c \in 1 .. Len(calls) :
    /\ calls[c].id = c
    /\ calls[c].by \in {0, c}
    /\ calls[c].end = "waits" <=> pending[c] = c

Table(calls, pending) ==
  /\ calls \in Seq(Entries) /\ Len(calls) <= MaxCalls
  /\ pending \in [RpcCalls -> RpcCalls \cup {0}]
  /\ \A i \in RpcCalls : pending[i] = 0 \/ (pending[i] = i /\ i <= Len(calls))
  /\ Filed(calls, pending)

\* Only calls that were made are read and answered, and those that an exit
\* found waiting were told.
Pipes ==
  /\ rpcUnread \subseteq Made
  /\ rpcLines \in Seq([call : RpcCalls, answer : Answers])
  /\ \A n \in 1 .. Len(rpcLines) : rpcLines[n].call \in Made

Told == rpcChild = "exited" => \A c \in Made : ~rpcCalls[c].late => rpcCalls[c].end # "waits"

RpcInv == Table(rpcCalls, rpcPending) /\ Pipes /\ Told

-----------------------------------------------------------------------------
(* The table                                                               *)

\* A settled call, with the answer that came.
Settled(calls, c, answer, by) == [calls EXCEPT ![c].end = answer, ![c].by = by]

\* Nothing but the end of that call and its answer changes.
LEMMA SettledIs ==
  ASSUME NEW calls \in Seq(Entries), NEW c \in 1 .. Len(calls),
         NEW answer \in Answers, NEW by \in RpcCalls
  PROVE  /\ Settled(calls, c, answer, by) \in Seq(Entries)
         /\ Len(Settled(calls, c, answer, by)) = Len(calls)
         /\ \A k \in 1 .. Len(calls) : k # c => Settled(calls, c, answer, by)[k] = calls[k]
         /\ Settled(calls, c, answer, by)[c].id = calls[c].id
         /\ Settled(calls, c, answer, by)[c].method = calls[c].method
         /\ Settled(calls, c, answer, by)[c].late = calls[c].late
         /\ Settled(calls, c, answer, by)[c].end = answer
         /\ Settled(calls, c, answer, by)[c].by = by
<1> DEFINE old == calls[c]
           new == [old EXCEPT !.end = answer, !.by = by]
<1>1. Settled(calls, c, answer, by) = [calls EXCEPT ![c] = new]
  BY DEF Settled
<1>2. old \in Entries
  OBVIOUS
<1> HIDE DEF old
<1>3. new = [method |-> old.method, id |-> old.id, by |-> by, end |-> answer, late |-> old.late]
  <2>1. old = [method |-> old.method, id |-> old.id, by |-> old.by, end |-> old.end,
               late |-> old.late]
    BY <1>2 DEF Entries
  <2> DEFINE e == new
  <2>2. e = [old EXCEPT !.end = answer, !.by = by]
    OBVIOUS
  <2> HIDE DEF e
  <2>3. e = [method |-> old.method, id |-> old.id, by |-> by, end |-> answer, late |-> old.late]
    BY <2>1, <2>2
  <2> QED
    BY <2>3 DEF e
<1>4. new \in Entries
  BY <1>2, <1>3 DEF Entries
<1>5. new.id = old.id /\ new.method = old.method /\ new.late = old.late /\ new.end = answer
      /\ new.by = by
  BY <1>3
<1> HIDE DEF new
<1>6. /\ [calls EXCEPT ![c] = new] \in Seq(Entries)
      /\ Len([calls EXCEPT ![c] = new]) = Len(calls)
      /\ [calls EXCEPT ![c] = new][c] = new
      /\ \A k \in 1 .. Len(calls) : k # c => [calls EXCEPT ![c] = new][k] = calls[k]
  BY <1>4
<1> QED
  BY <1>1, <1>5, <1>6 DEF old

\* Settling a call that waits under its number keeps the table.
LEMMA SettledTable ==
  ASSUME NEW calls, NEW pending, Table(calls, pending),
         NEW c \in 1 .. Len(calls), NEW answer \in Answers
  PROVE  Table(Settled(calls, c, answer, c), [pending EXCEPT ![c] = 0])
<1> DEFINE S == Settled(calls, c, answer, c)
           P == [pending EXCEPT ![c] = 0]
<1>1. /\ calls \in Seq(Entries) /\ Len(calls) <= MaxCalls
      /\ pending \in [RpcCalls -> RpcCalls \cup {0}]
      /\ Filed(calls, pending)
      /\ \A i \in RpcCalls : pending[i] = 0 \/ (pending[i] = i /\ i <= Len(calls))
  BY DEF Table
<1>2. c \in RpcCalls /\ \A k \in 1 .. Len(calls) : k \in RpcCalls
  BY <1>1 DEF RpcCalls
<1>3. /\ S \in Seq(Entries) /\ Len(S) = Len(calls)
      /\ \A k \in 1 .. Len(calls) : k # c => S[k] = calls[k]
      /\ S[c].id = calls[c].id /\ S[c].end = answer /\ S[c].by = c
  <2>1. ASSUME NEW by \in RpcCalls
        PROVE  LET T == Settled(calls, c, answer, by)
               IN  /\ T \in Seq(Entries) /\ Len(T) = Len(calls)
                   /\ \A k \in 1 .. Len(calls) : k # c => T[k] = calls[k]
                   /\ T[c].id = calls[c].id /\ T[c].end = answer /\ T[c].by = by
    BY <1>1, SettledIs
  <2> QED
    BY <1>2, <2>1
<1> HIDE DEF S
<1>4. P \in [RpcCalls -> RpcCalls \cup {0}]
      /\ \A i \in RpcCalls : P[i] = IF i = c THEN 0 ELSE pending[i]
  BY <1>1
<1> HIDE DEF P
<1>5. answer # "waits"
  BY DEF Answers
<1>6. Filed(S, P)
  <2> SUFFICES ASSUME NEW k \in 1 .. Len(S)
               PROVE  /\ S[k].id = k /\ S[k].by \in {0, k}
                      /\ S[k].end = "waits" <=> P[k] = k
    BY DEF Filed
  <2>1. k \in 1 .. Len(calls) /\ k \in RpcCalls
    BY <1>2, <1>3
  <2>2. calls[k].id = k /\ calls[k].by \in {0, k} /\ (calls[k].end = "waits" <=> pending[k] = k)
    BY <1>1, <2>1 DEF Filed
  <2>3. CASE k = c
    <3>1. P[k] # k
      BY <1>4, <2>1, <2>3 DEF RpcCalls
    <3> QED
      BY <1>3, <1>5, <2>2, <2>3, <3>1
  <2>4. CASE k # c
    BY <1>3, <1>4, <2>1, <2>2, <2>4
  <2> QED
    BY <2>3, <2>4
<1>7. \A i \in RpcCalls : P[i] = 0 \/ (P[i] = i /\ i <= Len(S))
  BY <1>1, <1>3, <1>4
<1> QED
  BY <1>1, <1>3, <1>4, <1>6, <1>7 DEF Table, S, P

\* One more call is filed under its number, and at most it is read.
LEMMA SendKeeps ==
  ASSUME NEW calls, NEW pending, Table(calls, pending),
         Len(calls) = Len(rpcCalls), Len(calls) < MaxCalls,
         NEW method \in Methods, SendRequest(calls, pending, method)
  PROVE  /\ Table(rpcCalls, rpcPending)'
         /\ Len(rpcCalls') = Len(calls) + 1
         /\ \A k \in 1 .. Len(calls) : rpcCalls'[k] = calls[k]
         /\ rpcCalls'[Len(calls) + 1].late = (rpcChild = "exited")
         /\ rpcUnread' \subseteq rpcUnread \cup {Len(calls) + 1}
<1> DEFINE n == Len(calls) + 1
           e == [method |-> method, id |-> n, by |-> 0, end |-> "waits",
                 late |-> rpcChild = "exited"]
<1>1. /\ rpcCalls' = Append(calls, e)
      /\ rpcPending' = [pending EXCEPT ![n] = n]
      /\ WriteCall(n)
  BY DEF SendRequest, NextId
<1>2. /\ calls \in Seq(Entries) /\ Filed(calls, pending)
      /\ pending \in [RpcCalls -> RpcCalls \cup {0}]
      /\ \A i \in RpcCalls : pending[i] = 0 \/ (pending[i] = i /\ i <= Len(calls))
  BY DEF Table
<1>3. n \in RpcCalls /\ n \in Nat /\ Len(calls) \in Nat /\ n = Len(calls) + 1
  BY <1>2 DEF RpcCalls
<1>4. e \in Entries
  BY <1>3 DEF Entries
<1>5. e.id = n /\ e.by = 0 /\ e.end = "waits" /\ e.late = (rpcChild = "exited")
  OBVIOUS
<1> HIDE DEF e, n
<1>6. /\ rpcCalls' \in Seq(Entries) /\ Len(rpcCalls') = n /\ rpcCalls'[n] = e
      /\ \A k \in 1 .. Len(calls) : rpcCalls'[k] = calls[k]
  BY <1>1, <1>2, <1>3, <1>4
<1>7. /\ rpcPending' \in [RpcCalls -> RpcCalls \cup {0}]
      /\ \A i \in RpcCalls : rpcPending'[i] = IF i = n THEN n ELSE pending[i]
  BY <1>1, <1>2, <1>3
<1>8. Filed(rpcCalls', rpcPending')
  <2> SUFFICES ASSUME NEW k \in 1 .. n
               PROVE  /\ rpcCalls'[k].id = k /\ rpcCalls'[k].by \in {0, k}
                      /\ rpcCalls'[k].end = "waits" <=> rpcPending'[k] = k
    BY <1>6 DEF Filed
  <2>1. CASE k = n
    BY <1>3, <1>5, <1>6, <1>7, <2>1
  <2>2. CASE k # n
    <3>1. k \in 1 .. Len(calls) /\ k \in RpcCalls
      BY <1>3, <2>2 DEF RpcCalls
    <3>2. calls[k].id = k /\ calls[k].by \in {0, k}
          /\ (calls[k].end = "waits" <=> pending[k] = k)
      BY <1>2, <3>1 DEF Filed
    <3> QED
      BY <1>6, <1>7, <2>2, <3>1, <3>2
  <2> QED
    BY <2>1, <2>2
<1>9. \A i \in RpcCalls : rpcPending'[i] = 0 \/ (rpcPending'[i] = i /\ i <= n)
  BY <1>2, <1>3, <1>7 DEF RpcCalls
<1>10. rpcUnread' \subseteq rpcUnread \cup {n}
  BY <1>1 DEF WriteCall
<1>11. n <= MaxCalls
  BY <1>3 DEF RpcCalls
<1> QED
  BY <1>3, <1>5, <1>6, <1>7, <1>8, <1>9, <1>10, <1>11 DEF Table, n

-----------------------------------------------------------------------------
(* Every step keeps the invariant                                          *)

\* A call that is made waits, unless the child is gone.
LEMMA CallKeeps ==
  ASSUME RpcInv, NEW method \in Methods, Call(method)
  PROVE  RpcInv' /\ SettledStay
<1>1. /\ Len(rpcCalls) < MaxCalls /\ SendRequest(rpcCalls, rpcPending, method)
      /\ UNCHANGED <<rpcLines, rpcChild>>
  BY DEF Call
<1>2. /\ Table(rpcCalls, rpcPending)' /\ Len(rpcCalls') = Len(rpcCalls) + 1
      /\ \A k \in 1 .. Len(rpcCalls) : rpcCalls'[k] = rpcCalls[k]
      /\ rpcCalls'[Len(rpcCalls) + 1].late = (rpcChild = "exited")
      /\ rpcUnread' \subseteq rpcUnread \cup {Len(rpcCalls) + 1}
  BY <1>1, SendKeeps DEF RpcInv
<1>3. Len(rpcCalls) \in Nat
  BY DEF RpcInv, Table
<1>4. Made' = Made \cup {Len(rpcCalls) + 1}
  BY <1>2, <1>3 DEF Made
<1>5. Pipes'
  BY <1>1, <1>2, <1>4 DEF RpcInv, Pipes
<1>6. Told'
  BY <1>1, <1>2, <1>4 DEF RpcInv, Told, Made
<1>7. SettledStay
  BY <1>2 DEF SettledStay, Made
<1> QED
  BY <1>2, <1>5, <1>6, <1>7 DEF RpcInv

\* The child answers what it has read, or dies.
LEMMA ChildKeeps ==
  ASSUME RpcInv,
         (\E call \in RpcCalls, answer \in Answers : ChildAnswers(call, answer)) \/ ChildDies
  PROVE  RpcInv' /\ SettledStay
<1>1. UNCHANGED <<rpcCalls, rpcPending>>
  BY DEF ChildAnswers, ChildDies
<1>2. rpcChild' # "exited" \/ rpcChild' = rpcChild
  BY DEF ChildAnswers, ChildDies
<1>3. Pipes'
  <2>1. CASE ChildDies
    BY <1>1, <2>1 DEF ChildDies, RpcInv, Pipes, Made
  <2>2. ASSUME NEW call \in RpcCalls, NEW answer \in Answers, ChildAnswers(call, answer)
        PROVE  Pipes'
    <3>1. /\ call \in Made /\ rpcUnread' = rpcUnread \ {call} /\ Made' = Made
          /\ rpcLines' = Append(rpcLines, [call |-> call, answer |-> answer])
      BY <1>1, <2>2 DEF ChildAnswers, RpcInv, Pipes, Made
    <3>2. /\ rpcLines \in Seq([call : RpcCalls, answer : Answers])
          /\ [call |-> call, answer |-> answer] \in [call : RpcCalls, answer : Answers]
          /\ [call |-> call, answer |-> answer].call = call
      BY DEF RpcInv, Pipes
    <3>3. \A m \in 1 .. Len(rpcLines') : rpcLines'[m].call \in Made
      BY <3>1, <3>2 DEF RpcInv, Pipes
    <3>4. rpcLines' \in Seq([call : RpcCalls, answer : Answers])
      BY <3>1, <3>2
    <3> QED
      BY <3>1, <3>3, <3>4 DEF RpcInv, Pipes
  <2> QED
    BY <2>1, <2>2
<1>4. Told'
  BY <1>1, <1>2 DEF RpcInv, Told, Made
<1> QED
  BY <1>1, <1>3, <1>4 DEF RpcInv, SettledStay

\* An answer settles the call it is to, if that waits, or nothing.
LEMMA LineKeeps ==
  ASSUME RpcInv, HandleLine
  PROVE  RpcInv' /\ SettledStay
<1> DEFINE line == Head(rpcLines)
           id == rpcCalls[line.call].id
           waiting == rpcPending[id]
           c == line.call
           settled == Settled(rpcCalls, c, line.answer, c)
           freed == [rpcPending EXCEPT ![c] = 0]
<1>1. /\ rpcLines \in Seq([call : RpcCalls, answer : Answers]) /\ rpcLines # <<>>
      /\ rpcLines' = Tail(rpcLines) /\ rpcChild' = rpcChild
  BY DEF HandleLine, RpcInv, Pipes
<1>2. /\ c \in Made /\ c \in RpcCalls /\ line.answer \in Answers
      /\ rpcLines' \in Seq([call : RpcCalls, answer : Answers])
      /\ \A m \in 1 .. Len(rpcLines') : rpcLines'[m].call \in Made
  <2>1. \A m \in 1 .. Len(rpcLines) : rpcLines[m].call \in Made
    BY DEF RpcInv, Pipes
  <2>2. 1 \in 1 .. Len(rpcLines) /\ line = rpcLines[1]
        /\ line \in [call : RpcCalls, answer : Answers]
    <3> DEFINE L == [call : RpcCalls, answer : Answers]
    <3>1. rpcLines \in Seq(L) /\ rpcLines # <<>>
      BY <1>1
    <3> HIDE DEF L
    <3>2. Len(rpcLines) \in Nat /\ Len(rpcLines) # 0
      BY <3>1
    <3>3. Head(rpcLines) = rpcLines[1]
      BY <3>1
    <3>4. 1 \in 1 .. Len(rpcLines)
      BY <3>2
    <3>5. rpcLines[1] \in L
      BY <3>1, <3>4
    <3> QED
      BY <3>3, <3>4, <3>5 DEF L
  <2>3. \A m \in 1 .. Len(rpcLines') : m + 1 \in 1 .. Len(rpcLines) /\ rpcLines'[m] = rpcLines[m + 1]
    BY <1>1
  <2>4. rpcLines' \in Seq([call : RpcCalls, answer : Answers])
    BY <1>1
  <2>5. c \in Made /\ c \in RpcCalls /\ line.answer \in Answers
    BY <2>1, <2>2
  <2> QED
    BY <2>1, <2>3, <2>4, <2>5
<1>3. id = c /\ Table(rpcCalls, rpcPending) /\ rpcCalls \in Seq(Entries)
      /\ c \in 1 .. Len(rpcCalls)
  BY <1>2 DEF RpcInv, Table, Filed, Made
<1>4. waiting = 0 \/ waiting = c
  BY <1>2, <1>3 DEF Table
<1>5. CASE UNCHANGED <<rpcCalls, rpcPending, rpcUnread>>
  BY <1>1, <1>2, <1>5 DEF RpcInv, Pipes, Told, Made, SettledStay
<1>6. Table(settled, freed)
  BY <1>2, <1>3, SettledTable
<1>7. /\ Len(settled) = Len(rpcCalls)
      /\ \A k \in 1 .. Len(rpcCalls) : k # c => settled[k] = rpcCalls[k]
      /\ settled[c].late = rpcCalls[c].late /\ settled[c].end = line.answer
  <2>1. ASSUME NEW k \in 1 .. Len(rpcCalls), NEW answer \in Answers, NEW by \in RpcCalls
        PROVE  LET T == Settled(rpcCalls, k, answer, by)
               IN  /\ Len(T) = Len(rpcCalls)
                   /\ \A j \in 1 .. Len(rpcCalls) : j # k => T[j] = rpcCalls[j]
                   /\ T[k].late = rpcCalls[k].late /\ T[k].end = answer
    BY <1>3, SettledIs
  <2> HIDE DEF line
  <2> QED
    BY <1>2, <1>3, <2>1
<1>8. line.answer # "waits"
  BY <1>2 DEF Answers
<1>9. \A k \in Made : rpcCalls[k].end # "waits" => settled[k].end # "waits"
  BY <1>7, <1>8 DEF Made
<1>10. \A k \in Made : settled[k].late = rpcCalls[k].late
  BY <1>7 DEF Made
<1>11. \/ UNCHANGED <<rpcCalls, rpcPending, rpcUnread>>
       \/ /\ waiting = c /\ Len(rpcCalls) < MaxCalls
          /\ SendRequest(settled, freed, "summary")
       \/ /\ waiting = c
          /\ rpcCalls' = settled /\ rpcPending' = freed /\ rpcUnread' = rpcUnread
  <2>1. CASE waiting = 0
    BY <2>1 DEF HandleLine
  <2>2. CASE waiting = c
    BY <1>3, <2>2 DEF HandleLine, Settled
  <2> QED
    BY <1>4, <2>1, <2>2
<1>12. ASSUME waiting = c, NEW k \in Made, rpcCalls[k].end # "waits"
       PROVE  settled[k] = rpcCalls[k]
  <2>1. rpcPending[c] = c
    BY <1>3, <1>12
  <2>2. rpcCalls[c].end = "waits"
    BY <1>3, <2>1 DEF Table, Filed
  <2> QED
    BY <1>7, <1>12, <2>2 DEF Made
<1> HIDE DEF settled, freed
<1>13. CASE waiting = c /\ rpcCalls' = settled /\ rpcPending' = freed /\ rpcUnread' = rpcUnread
  <2>1. Made' = Made
    BY <1>7, <1>13 DEF Made
  <2>2. Pipes'
    BY <1>2, <1>13, <2>1 DEF RpcInv, Pipes
  <2>3. Told'
    BY <1>1, <1>9, <1>10, <1>13, <2>1 DEF RpcInv, Told
  <2>4. SettledStay
    BY <1>13, <1>12 DEF SettledStay
  <2> QED
    BY <1>6, <1>13, <2>2, <2>3, <2>4 DEF RpcInv
<1>14. CASE waiting = c /\ Len(rpcCalls) < MaxCalls /\ SendRequest(settled, freed, "summary")
  <2>1. "summary" \in Methods
    BY DEF Methods
  <2>2. /\ Table(rpcCalls, rpcPending)' /\ Len(rpcCalls') = Len(rpcCalls) + 1
        /\ \A k \in 1 .. Len(rpcCalls) : rpcCalls'[k] = settled[k]
        /\ rpcCalls'[Len(rpcCalls) + 1].late = (rpcChild = "exited")
        /\ rpcUnread' \subseteq rpcUnread \cup {Len(rpcCalls) + 1}
    BY <1>6, <1>7, <1>14, <2>1, SendKeeps
  <2>3. Len(rpcCalls) \in Nat
    BY <1>3
  <2>4. Made' = Made \cup {Len(rpcCalls) + 1}
    BY <2>2, <2>3 DEF Made
  <2>5. Pipes'
    BY <1>2, <2>2, <2>4 DEF RpcInv, Pipes
  <2>6. Told'
    BY <1>1, <1>9, <1>10, <2>2, <2>4 DEF RpcInv, Told, Made
  <2>7. SettledStay
    BY <1>14, <1>12, <2>2 DEF SettledStay, Made
  <2> QED
    BY <2>2, <2>5, <2>6, <2>7 DEF RpcInv
<1> QED
  BY <1>5, <1>11, <1>13, <1>14

\* When the exit is handled, every call that waits is told.
LEMMA ExitKeeps ==
  ASSUME RpcInv, HandleExit
  PROVE  RpcInv' /\ SettledStay
<1> DEFINE new(c) == IF \E i \in RpcCalls : rpcPending[i] = c
                     THEN [rpcCalls[c] EXCEPT !.end = "exit"] ELSE rpcCalls[c]
<1>1. /\ rpcCalls' = [c \in Made |-> new(c)]
      /\ rpcPending' = [i \in RpcCalls |-> 0]
      /\ UNCHANGED <<rpcUnread, rpcLines>>
  BY DEF HandleExit
<1>2. rpcCalls \in Seq(Entries) /\ Len(rpcCalls) <= MaxCalls /\ Filed(rpcCalls, rpcPending)
      /\ Len(rpcCalls) \in Nat
  BY DEF RpcInv, Table
<1>3. ASSUME NEW c \in Made
      PROVE  /\ new(c) \in Entries /\ new(c).id = rpcCalls[c].id /\ new(c).by = rpcCalls[c].by
             /\ new(c).end # "waits"
             /\ rpcCalls[c].end # "waits" => new(c) = rpcCalls[c]
  <2>1. rpcCalls[c] \in Entries /\ c \in RpcCalls
    BY <1>2 DEF Made, RpcCalls
  <2>2. rpcCalls[c].end = "waits" <=> rpcPending[c] = c
    BY <1>2 DEF Filed, Made
  <2>3. /\ [rpcCalls[c] EXCEPT !.end = "exit"] \in Entries
        /\ [rpcCalls[c] EXCEPT !.end = "exit"].id = rpcCalls[c].id
        /\ [rpcCalls[c] EXCEPT !.end = "exit"].by = rpcCalls[c].by
        /\ [rpcCalls[c] EXCEPT !.end = "exit"].end = "exit"
    BY <2>1 DEF Entries
  <2>4. ASSUME NEW i \in RpcCalls, rpcPending[i] = c
        PROVE  rpcPending[c] = c
    BY <2>1, <2>4 DEF RpcInv, Table, RpcCalls
  <2> QED
    BY <2>1, <2>2, <2>3, <2>4
<1> HIDE DEF new
<1>4. /\ rpcCalls' \in Seq(Entries) /\ Len(rpcCalls') = Len(rpcCalls)
      /\ \A c \in Made : rpcCalls'[c] = new(c)
  BY <1>1, <1>2, <1>3 DEF Made
<1>5. Made' = Made
  BY <1>4 DEF Made
<1>6. \A c \in 1 .. Len(rpcCalls) : rpcCalls[c].id = c /\ rpcCalls[c].by \in {0, c}
  BY <1>2 DEF Filed
<1>7. Filed(rpcCalls', rpcPending')
  BY <1>1, <1>2, <1>3, <1>4, <1>6 DEF Filed, Made, RpcCalls
<1>8. Table(rpcCalls, rpcPending)'
  <2>1. /\ rpcPending' \in [RpcCalls -> RpcCalls \cup {0}]
        /\ \A i \in RpcCalls : rpcPending'[i] = 0
    BY <1>1
  <2> QED
    BY <1>2, <1>4, <1>7, <2>1 DEF Table
<1>9. Pipes'
  BY <1>1, <1>5 DEF RpcInv, Pipes
<1>10. Told'
  BY <1>3, <1>4, <1>5 DEF Told
<1>11. SettledStay
  BY <1>3, <1>4 DEF SettledStay
<1> QED
  BY <1>8, <1>9, <1>10, <1>11 DEF RpcInv

-----------------------------------------------------------------------------
(* The theorem                                                             *)

\* Nothing was called yet.
LEMMA RpcInitKeeps == RpcInit => RpcInv
<1> SUFFICES ASSUME RpcInit PROVE RpcInv
  OBVIOUS
<1>1. Table(rpcCalls, rpcPending)
  BY DEF RpcInit, Table, Filed
<1>2. Pipes /\ Told
  BY DEF RpcInit, Pipes, Told, Made
<1> QED
  BY <1>1, <1>2 DEF RpcInv

\* Every step of the client and of the child keeps the invariant, and leaves
\* settled calls alone.
LEMMA RpcStepKeeps == RpcInv /\ [RpcNext]_rpcVars => RpcInv' /\ SettledStay
<1> SUFFICES ASSUME RpcInv, [RpcNext]_rpcVars PROVE RpcInv' /\ SettledStay
  OBVIOUS
<1>1. CASE CloseTransport \/ Kill \/ UNCHANGED rpcVars
  BY <1>1 DEF CloseTransport, Kill, rpcVars, RpcInv, Table, Pipes, Told, Made, SettledStay
<1> QED
  BY <1>1, CallKeeps, ChildKeeps, LineKeeps, ExitKeeps DEF RpcNext

\* Whatever order the child answers in, and whenever it dies or is closed: a
\* call gets the answer to itself and no other, and once the exit was handled
\* no call waits that was made before it, for any number of calls.
THEOREM CallsSettle == RpcSpec => []CallsSettleRight
<1>1. RpcInv => CallsSettleRight
  BY DEF RpcInv, Table, Filed, Told, Made, CallsSettleRight
<1> QED
  BY <1>1, RpcInitKeeps, RpcStepKeeps, PTL DEF RpcSpec

\* A promise is settled at most once: whatever comes after a call was answered
\* or told of the exit, more lines, the exit event, close() or calls that are
\* made again, changes nothing of it, for any number of calls.
THEOREM SettledOnce == RpcSpec => CallsSettleOnce
<1> QED
  BY RpcInitKeeps, RpcStepKeeps, PTL DEF RpcSpec, CallsSettleOnce
=============================================================================
