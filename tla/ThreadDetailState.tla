-------------------------- MODULE ThreadDetailState --------------------------
(***************************************************************************)
(* A turn as the SDK shows it: the read of the thread, and the events of   *)
(* its stream applied to it.  A selection opens the stream and reads at    *)
(* the same time, so either may be first; a resync reads and then opens.   *)
(* Events wait until the answer is there: those sent before it are in the  *)
(* detail already, and those sent between it and the opening of the stream *)
(* are in neither.  The turn has one item of each type; a text is the      *)
(* sequence of the deltas it was streamed as.                              *)
(***************************************************************************)
EXTENDS Naturals, Sequences, FiniteSets

CONSTANTS
  ItemTypes,  \* among agentMessage, reasoning and commandExecution
  Deltas,     \* what a delta can add
  MaxDeltas   \* bound on the deltas of an item

VARIABLES
  turnServer,  \* the turn at the app-server
  turnEvents,  \* the events sent on the stream
  turnNext,    \* the next of them that the client applies, 0 before the stream opens
  turnMissed,  \* history: the places of events sent after the thread was read and
               \* before the stream opened
  turnRead,    \* the answer to the read
  turnClient   \* the detail of the client

turnVars == <<turnServer, turnEvents, turnNext, turnMissed, turnRead, turnClient>>

Status == {"none", "inProgress", "completed", "failed"}
Items == [id : ItemTypes, text : Seq(Deltas), done : BOOLEAN]
Details == [active : BOOLEAN, turn : Status, items : Seq(Items)]
Unloaded == [active |-> FALSE, turn |-> "unloaded", items |-> <<>>]
Begun(id) == [id |-> id, text |-> <<>>, done |-> FALSE]
Piece(id, delta) == [id |-> id, text |-> <<delta>>, done |-> FALSE]
Extended(item, delta) == [item EXCEPT !.text = Append(@, delta)]

TurnTypeOK ==
  /\ turnServer \in Details
  /\ turnNext \in 0 .. Len(turnEvents) + 1
  /\ turnMissed \subseteq 1 .. Len(turnEvents)
  /\ {turnRead, turnClient} \subseteq Details \cup {Unloaded}

TurnInit ==
  /\ turnServer = [Unloaded EXCEPT !.turn = "none"]
  /\ turnEvents = <<>> /\ turnNext = 0 /\ turnMissed = {}
  /\ turnRead = Unloaded /\ turnClient = Unloaded

-----------------------------------------------------------------------------
(* The reducer, applyThreadEvent                                           *)

Has(items, id) == \E k \in DOMAIN items : items[k].id = id
Replace(items, item) == [k \in DOMAIN items |-> IF items[k].id = item.id THEN item ELSE items[k]]
ItemOf(items, id) == items[CHOOSE k \in DOMAIN items : items[k].id = id]

\* Reasoning that is completed without a text keeps the one it was streamed as.
mergeThreadItem(old, item) ==
  IF old.id = "reasoning" /\ item.text = <<>> THEN [item EXCEPT !.text = old.text] ELSE item

\* Faulty: an item that is there already stays as it is.
upsertItemOnce(items, item) == IF Has(items, item.id) THEN items ELSE Append(items, item)

upsertItem(items, item) ==
  IF Has(items, item.id) THEN Replace(items, mergeThreadItem(ItemOf(items, item.id), item))
  ELSE Append(items, item)

\* A delta that repeats the end of a reasoning text is taken for a duplicate.
appendDelta(items, id, delta) ==
  LET item == IF Has(items, id) THEN ItemOf(items, id) ELSE Begun(id)
      repeats == id = "reasoning" /\ item.text # <<>> /\ item.text[Len(item.text)] = delta
      next == IF repeats THEN item ELSE Extended(item, delta)
  IN  IF Has(items, id) THEN Replace(items, next) ELSE Append(items, next)

\* Faulty: a turn is replaced, with the items of the event.
upsertTurnWhole(detail, status) == [detail EXCEPT !.turn = status, !.items = <<>>]

\* Turns come without items in events.
upsertTurn(detail, status) == [detail EXCEPT !.turn = status]

\* Items of a turn that is not there are dropped.
applyThreadEvent(detail, event) ==
  CASE event.type = "statusChanged" -> [detail EXCEPT !.active = FALSE]
    [] event.type = "turnStarted" -> [upsertTurn(detail, "inProgress") EXCEPT !.active = TRUE]
    [] event.type = "turnCompleted" -> upsertTurn(detail, event.status)
    [] event.type = "turnError" -> IF detail.turn = "none" THEN detail
                                   ELSE [detail EXCEPT !.turn = event.status]
    [] event.type = "item" -> IF detail.turn = "none" THEN detail
                              ELSE [detail EXCEPT !.items = upsertItem(@, event.item)]
    [] event.type = "delta" -> IF detail.turn = "none" THEN detail
                               ELSE [detail EXCEPT !.items =
                                       appendDelta(@, event.item.id, event.item.text[1])]

-----------------------------------------------------------------------------
(* The app-server                                                          *)

Emits(event, server) ==
  /\ turnServer' = server
  /\ turnEvents' = Append(turnEvents, event)
  /\ turnMissed' = IF turnNext = 0 /\ turnRead # Unloaded
                   THEN turnMissed \cup {Len(turnEvents) + 1} ELSE turnMissed
  /\ UNCHANGED <<turnNext, turnRead, turnClient>>

Event(type, status, item) == [type |-> type, status |-> status, item |-> item]
NoItem == Begun("none")

TurnStarts ==
  /\ turnServer.turn = "none"
  /\ Emits(Event("turnStarted", "inProgress", NoItem),
           [turnServer EXCEPT !.turn = "inProgress", !.active = TRUE])

ItemStarts(id) ==
  /\ turnServer.turn = "inProgress" /\ ~Has(turnServer.items, id)
  /\ Emits(Event("item", "none", Begun(id)), [turnServer EXCEPT !.items = Append(@, Begun(id))])

Running(id) ==
  /\ turnServer.turn = "inProgress" /\ Has(turnServer.items, id)
  /\ ~ItemOf(turnServer.items, id).done

DeltaArrives(id, delta) ==
  /\ id # "commandExecution" /\ Running(id)
  /\ Len(ItemOf(turnServer.items, id).text) < MaxDeltas
  /\ Emits(Event("delta", "none", Piece(id, delta)),
           [turnServer EXCEPT !.items = Replace(@, Extended(ItemOf(@, id), delta))])

\* Reasoning may be completed without its text.
ItemCompletes(id, withText) ==
  /\ Running(id) /\ (withText \/ id = "reasoning")
  /\ LET item == [ItemOf(turnServer.items, id) EXCEPT !.done = TRUE]
     IN  Emits(Event("item", "none", IF withText THEN item ELSE [item EXCEPT !.text = <<>>]),
               [turnServer EXCEPT !.items = Replace(@, item)])

\* An error that is retried leaves the turn in progress.
TurnErrs ==
  /\ turnServer.turn = "inProgress" /\ turnServer.active
  /\ \A k \in DOMAIN turnEvents : turnEvents[k].type # "turnError"
  /\ \E status \in {"inProgress", "failed"} : Emits(Event("turnError", status, NoItem), turnServer)

TurnCompletes(status) ==
  /\ turnServer.turn = "inProgress"
  /\ \A k \in DOMAIN turnServer.items : turnServer.items[k].done
  /\ Emits(Event("turnCompleted", status, NoItem), [turnServer EXCEPT !.turn = status])

GoesIdle ==
  /\ turnServer.turn # "none" /\ turnServer.active
  /\ Emits(Event("statusChanged", "none", NoItem), [turnServer EXCEPT !.active = FALSE])

-----------------------------------------------------------------------------
(* The bridge and the client                                               *)

\* Some items of a sequence, in their order.
Sifted(items, places) ==
  [n \in 1 .. Cardinality(places) |->
     items[CHOOSE k \in places : Cardinality({j \in places : j <= k}) = n]]
Commands(items) == {k \in DOMAIN items : items[k].id = "commandExecution"}

\* The app-server's answer has the completed items, commands excepted.
ReadItems ==
  Sifted(turnServer.items,
         {k \in DOMAIN turnServer.items : turnServer.items[k].done} \ Commands(turnServer.items))

\* Commands come from the cache of the bridge, behind the items of the turn.
mergeCachedCommandItems(items) ==
  items \o Sifted(turnServer.items, Commands(turnServer.items))

OpenStream ==
  /\ turnNext = 0
  /\ turnNext' = Len(turnEvents) + 1
  /\ UNCHANGED <<turnServer, turnEvents, turnMissed, turnRead, turnClient>>

ReadThread ==
  /\ turnRead = Unloaded
  /\ turnRead' = [turnServer EXCEPT !.items =
                    IF turnServer.turn = "none" THEN <<>> ELSE mergeCachedCommandItems(ReadItems)]
  /\ UNCHANGED <<turnServer, turnEvents, turnNext, turnMissed, turnClient>>

LoadReturns ==
  /\ turnRead # Unloaded /\ turnClient = Unloaded
  /\ turnClient' = turnRead
  /\ UNCHANGED <<turnServer, turnEvents, turnNext, turnMissed, turnRead>>

\* Those that waited, and those that come.
ApplyEvent ==
  /\ turnClient # Unloaded /\ turnNext # 0 /\ turnNext <= Len(turnEvents)
  /\ turnClient' = applyThreadEvent(turnClient, turnEvents[turnNext])
  /\ turnNext' = turnNext + 1
  /\ UNCHANGED <<turnServer, turnEvents, turnMissed, turnRead>>

TurnNext ==
  \/ TurnStarts \/ TurnErrs \/ GoesIdle
  \/ \E status \in {"completed", "failed"} : TurnCompletes(status)
  \/ \E id \in ItemTypes : \/ ItemStarts(id)
                           \/ \E delta \in Deltas : DeltaArrives(id, delta)
                           \/ \E withText \in BOOLEAN : ItemCompletes(id, withText)
  \/ OpenStream \/ ReadThread \/ LoadReturns \/ ApplyEvent

-----------------------------------------------------------------------------
(* Properties                                                              *)

CaughtUp == turnClient # Unloaded /\ turnNext = Len(turnEvents) + 1
WithText(id) == \E k \in DOMAIN turnEvents :
  turnEvents[k].type = "item" /\ turnEvents[k].item.id = id /\ turnEvents[k].item.text # <<>>

\* What neither the answer to the read nor the stream tells.
Missed(type) == \E k \in turnMissed : turnEvents[k].type = type
MissedEndOf(id) == \E k \in turnMissed :
  turnEvents[k].type = "item" /\ turnEvents[k].item.id = id /\ turnEvents[k].item.done

\* Whenever the stream was opened and the thread was read, in either order, and
\* whichever events were applied twice over: a client that has applied all that
\* its stream carried shows the turn's status, and once the turn has ended its
\* items, each once and with the text it was completed with, unless that came
\* empty.  What an event between the read and the opening of the stream would
\* have told, and nothing after it tells, is not claimed: the last change of
\* the thread's status, the end of the turn, the end of an item, and the items
\* of a turn whose start was missed.
TurnConverges ==
  CaughtUp =>
    /\ Missed(IF turnServer.active THEN "turnStarted" ELSE "statusChanged")
         \/ turnClient.active = turnServer.active
    /\ \A j, k \in DOMAIN turnClient.items :
         turnClient.items[j].id = turnClient.items[k].id => j = k
    /\ turnServer.turn \in {"completed", "failed"} =>
         /\ Missed("turnCompleted") \/ turnClient.turn = turnServer.turn
         /\ \A j \in DOMAIN turnClient.items : Has(turnServer.items, turnClient.items[j].id)
         /\ \A k \in DOMAIN turnServer.items :
              LET item == turnServer.items[k]
              IN  \/ Missed("turnStarted") \/ MissedEndOf(item.id)
                  \/ \E j \in DOMAIN turnClient.items :
                       /\ turnClient.items[j].id = item.id /\ turnClient.items[j].done
                       /\ WithText(item.id) => turnClient.items[j].text = item.text
=============================================================================
