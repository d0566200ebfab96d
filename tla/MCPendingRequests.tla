------------------------- MODULE MCPendingRequests -------------------------
(* Small instances: a known thread ta with two requests, one of which has  *)
(* a method the bridge does not know, and a thread tb the detector has yet *)
(* to find, with one.                                                      *)
EXTENDS PendingRequests

CONSTANTS a1, a2, b1, ta, tb, c1, c2

MCRequests == {a1, a2, b1}
MCThreads == {ta, tb}
MCThreadOf == [r \in Requests |-> IF r = b1 THEN tb ELSE ta]
MCSupported == Requests \ {a2}
MCUndetected == {tb}
MCOneClient == {c1}
=============================================================================
