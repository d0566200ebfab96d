------------------------- MODULE MCGlobalEventStreams -------------------------
(* A small instance: a few global streams over one sessions directory.     *)
EXTENDS GlobalEventStreams

CONSTANTS s1, s2, s3, f1, f2, n1, n2

MCTwoStreams == {s1, s2}
MCOneStream == {s1}
MCOneFile == {f1}
MCNames == {n1, n2}
MCOneName == {n1}
=============================================================================
