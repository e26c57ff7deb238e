--------------------------- MODULE MCRecoveryTurns ---------------------------
(* Instances of RecoveryTurns for TLC: two or three chat requests against a   *)
(* session and the one that replaces it.                                      *)
EXTENDS RecoveryTurns, TLC

CONSTANTS t1, t2, t3

MCTwoTurns   == {t1, t2}
MCThreeTurns == {t1, t2, t3}

\* Turns are interchangeable.
MCSymmetry == Permutations(Turns)
==============================================================================
