----------------------------- MODULE SessionSlot -----------------------------
(***************************************************************************)
(* What the worker promises about recovery sessions, without threads,      *)
(* timers or the launcher: one launch code buys at most one session, at    *)
(* most one session is reachable at a time, and a session dies in order -  *)
(* it leaves the store first and only then loses its capability.           *)
(*                                                                         *)
(* SessionStore, RecoveryRuntime and RecoveryTurns implement it.           *)
(***************************************************************************)
EXTENDS Naturals

CONSTANT Codes      \* the launch codes; a code names the session it buys

VARIABLE state      \* [Codes -> States]: where each session is in its life

States    == {"unused", "open", "closing", "removed", "revoked"}
Reachable == {"open", "closing"}

TypeOK == state \in [Codes -> States]

Init == state = [c \in Codes |-> "unused"]

(***************************************************************************)
(* Exchanging code c opens its session; the one it replaces, if any, stops *)
(* being reachable in the same step.                                       *)
(***************************************************************************)
Open(c) ==
  /\ state[c] = "unused"
  /\ state' = [d \in Codes |-> CASE d = c                  -> "open"
                                 [] state[d] \in Reachable -> "removed"
                                 [] OTHER                  -> state[d]]

Move(c, from, to) ==
  /\ state[c] \in from
  /\ state' = [state EXCEPT ![c] = to]

Accept(c) == Move(c, {"open"}, "closing")       \* the owner ends the session
Remove(c) == Move(c, Reachable, "removed")      \* finish, expiry or shutdown
Revoke(c) == Move(c, {"removed"}, "revoked")    \* the capability is cleared

Next == \E c \in Codes : Open(c) \/ Accept(c) \/ Remove(c) \/ Revoke(c)

SafeSpec == Init /\ [][Next]_state
Spec     == SafeSpec /\ \A c \in Codes : WF_state(Revoke(c))

\* Two sessions are never reachable at once.
OneReachable ==
  \A c, d \in Codes : state[c] \in Reachable /\ state[d] \in Reachable => c = d
==============================================================================
