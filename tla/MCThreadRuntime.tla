------------------------- MODULE MCThreadRuntime -------------------------
(* Two threads to select or to leave, with one event each.                 *)
EXTENDS ThreadRuntime

CONSTANT Untroubled  \* threads used only while nothing has failed or expired

Unused(t) ==
  /\ upstream[t] = 0
  /\ t \notin {rt.selected, rt.events.thread, rt.read.thread} \cup rt.orphans
  /\ \A l \in Loads : rt.loads[l].thread # t

\* Bound: only steps that no fairness is about are left out.
Bounded == failures + agings > 0 => \A t \in Untroubled : Unused(t)

BoundedSpec == Init /\ [][Next /\ Bounded']_vars /\ Fairness
=============================================================================
