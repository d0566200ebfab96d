--------------------------- MODULE MessageDelivery ---------------------------
(***************************************************************************)
(* What the queue of a thread promises for each message the user sends:    *)
(* it is posted at once or waits; a waiting message is posted, one at a    *)
(* time, or taken back; a posted one is accepted or fails, once, and never *)
(* waits again.  A waiting message is dropped only after a compaction, or  *)
(* when the session ends: then all that wait are, and none is sent after.  *)
(***************************************************************************)
CONSTANTS Messages, None

VARIABLES
  stage,     \* where each message is
  drained,   \* the message taken from those that waited and not yet settled, or None
  compacted, \* has the thread been compacted?
  signedOut  \* has the session ended?

deliveryVars == <<stage, drained, compacted, signedOut>>

Stages == {"unsent", "waiting", "posted", "accepted", "failed", "removed", "dropped"}

Init ==
  /\ stage = [m \in Messages |-> "unsent"]
  /\ drained = None
  /\ compacted = FALSE
  /\ signedOut = FALSE

Moves(m, from, to) ==
  /\ stage[m] = from
  /\ stage' = [stage EXCEPT ![m] = to]
  /\ UNCHANGED <<compacted, signedOut>>

Send(m) ==
  /\ ~signedOut
  /\ Moves(m, "unsent", "posted") \/ Moves(m, "unsent", "waiting")
  /\ UNCHANGED drained

Post(m) ==
  /\ drained = None
  /\ Moves(m, "waiting", "posted")
  /\ drained' = m

Handle(m) ==
  /\ Moves(m, "posted", "accepted") \/ Moves(m, "posted", "failed")
  /\ UNCHANGED drained

\* The reply to the message that was drained lets the next be.
Settle ==
  /\ drained # None
  /\ stage[drained] \in {"accepted", "failed"}
  /\ drained' = None
  /\ UNCHANGED <<stage, compacted, signedOut>>

Remove(m) ==
  /\ Moves(m, "waiting", "removed")
  /\ UNCHANGED drained

Compact ==
  /\ compacted' = TRUE
  /\ UNCHANGED <<stage, drained, signedOut>>

Drop(m) ==
  /\ compacted
  /\ Moves(m, "waiting", "dropped")
  /\ UNCHANGED drained

LoseSession ==
  /\ ~signedOut
  /\ signedOut' = TRUE
  /\ stage' = [m \in Messages |-> IF stage[m] = "waiting" THEN "dropped" ELSE stage[m]]
  /\ drained' \in {drained, None}
  /\ UNCHANGED compacted

Next ==
  \/ Settle \/ Compact \/ LoseSession
  \/ \E m \in Messages : Send(m) \/ Post(m) \/ Handle(m) \/ Remove(m) \/ Drop(m)

Spec == Init /\ [][Next]_deliveryVars
=============================================================================
