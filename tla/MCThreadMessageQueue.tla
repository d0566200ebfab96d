------------------------ MODULE MCThreadMessageQueue ------------------------
(* Small instances: two messages, with turns for them and one more.        *)
EXTENDS ThreadMessageQueue, TLC

CONSTANTS m1, m2

MCTwoMessages == {m1, m2}

MessageSymmetry == Permutations(Messages)
=============================================================================
