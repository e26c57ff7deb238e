---------------------------- MODULE MCRecoveryPage ----------------------------
(* RecoveryPage on two launch codes: a second session may replace the first  *)
(* one, or follow it, under a page that does not know.                       *)
EXTENDS RecoveryPage

CONSTANTS c1, c2

MCCodes == {c1, c2}
=============================================================================
