--------------------------- MODULE MCProviderAuth ---------------------------
(* Instances of ProviderAuth for TLC: two request threads or turns over two   *)
(* sessions (each takes a clear() and an enable()).                           *)
EXTENDS ProviderAuth, TLC

CONSTANTS t1, t2

MCTwoThreads == {t1, t2}

\* Threads are interchangeable.
MCSymmetry == Permutations(Threads)
=============================================================================
