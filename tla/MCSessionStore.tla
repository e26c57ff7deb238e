--------------------------- MODULE MCSessionStore ---------------------------
(* Instances of SessionStore for TLC: a session and the one that replaces it, *)
(* two concurrent requests, a timer thread.                         *)
EXTENDS SessionStore

CONSTANTS c1, c2, r1, r2, e1

MCTwoCodes    == {c1, c2}
MCOneRequest  == {r1}
MCTwoRequests == {r1, r2}
MCOneReaper   == {e1}
=============================================================================
