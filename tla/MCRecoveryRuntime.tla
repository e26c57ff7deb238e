-------------------------- MODULE MCRecoveryRuntime --------------------------
(* Instances of RecoveryRuntime for TLC: a session and its replacement, two   *)
(* concurrent requests, one expiry thread.                                    *)
EXTENDS RecoveryRuntime

CONSTANTS c1, c2, r1, r2, e1

MCTwoCodes    == {c1, c2}
MCOneRequest  == {r1}
MCTwoRequests == {r1, r2}
MCOneReaper   == {e1}
=============================================================================
