--------------------------- MODULE MCCommandBroker ---------------------------
(* Instances of CommandBroker for TLC: three overlapping mobius-ssh calls, or *)
(* two where liveness is checked.                                             *)
EXTENDS CommandBroker, TLC

CONSTANTS c1, c2, c3

MCTwoClients   == {c1, c2}
MCThreeClients == {c1, c2, c3}

\* Clients are interchangeable.
MCSymmetry == Permutations(Clients)
==============================================================================
