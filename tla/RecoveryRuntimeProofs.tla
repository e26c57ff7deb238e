------------------------- MODULE RecoveryRuntimeProofs -------------------------
(***************************************************************************)
(* The safety properties of RecoveryRuntime for any codes and threads, by  *)
(* the inductive invariant IInv; and that the runtime implements           *)
(* SessionSlot, which promises one reachable session.                      *)
(***************************************************************************)
EXTENDS RecoveryRuntime, TLAPS

\* The part of IInv that is about what the lock guards.
OwnerInv == LockInv /\ BrokerOwned /\ OwnerAgrees /\ QuiescedIsDown /\ SocketServed

(* The worker starts with nothing active and nobody at work.                *)
LEMMA InitIInv == ASSUME RuntimeInit PROVE IInv
<1> USE RuntimeAssumption DEF RuntimeInit, Init
<1>1. RuntimeTypeOK
  BY DEF RuntimeTypeOK, TypeOK, States, BrokerStates, Labels
<1>2. LockInv /\ ThreadInv /\ ActivateInv
  BY DEF LockInv, Inside, ThreadInv, ActivateInv, Activating, Threads
<1>3. BrokerOwned /\ OwnerAgrees /\ QuiescedIsDown /\ SocketServed
  BY DEF BrokerOwned, OwnerAgrees, QuiescedIsDown, SocketServed
<1> QED
  BY <1>1, <1>2, <1>3 DEF IInv

(* Types: what a thread takes out of about and target is a session by then. *)
LEMMA TypeKept == ASSUME IInv, RuntimeNext PROVE RuntimeTypeOK'
<1> USE RuntimeAssumption
    DEF Threads, Goto, Set, Idle, Leave, Owe, Proceed, ExpireSession, Move, Open, Accept, Remove,
            Revoke, Reachable, Live, Interactive, sessionVars, brokerVars, ownedVars, threadVars,
            ghostVars, IInv, RuntimeTypeOK, TypeOK, States, BrokerStates, Labels, ThreadInv,
            ActivateInv, Activating
<1>1. ASSUME NEW t \in Requests, NEW c \in Codes, Start(t, c) PROVE RuntimeTypeOK'
  BY <1>1 DEF Start
<1>2. ASSUME NEW t \in Requests, NEW c \in Codes, FinishRequest(t, c) PROVE RuntimeTypeOK'
  BY <1>2 DEF FinishRequest
<1>3. ASSUME NEW t \in Requests, NEW c \in Codes, PollRequest(t, c) PROVE RuntimeTypeOK'
  BY <1>3 DEF PollRequest
<1>4. ASSUME NEW t \in Requests, NEW c \in Codes, GetDead(t, c) PROVE RuntimeTypeOK'
  BY <1>4 DEF GetDead
<1>5. ASSUME NEW t \in Reapers, NEW c \in Codes, TimerExpire(t, c) PROVE RuntimeTypeOK'
  BY <1>5 DEF TimerExpire
<1>6. ASSUME NEW t \in Reapers, NEW c \in Codes, BrokerExpire(t, c) PROVE RuntimeTypeOK'
  BY <1>6 DEF BrokerExpire
<1>7. ASSUME NEW t \in Reapers, Shutdown(t) PROVE RuntimeTypeOK'
  BY <1>7 DEF Shutdown
<1>8. ASSUME NEW t \in Threads, ActivateCheck(t) PROVE RuntimeTypeOK'
  BY <1>8 DEF ActivateCheck
<1>9. ASSUME NEW t \in Threads, ActivateEnter(t) PROVE RuntimeTypeOK'
  BY <1>9 DEF ActivateEnter
<1>10. ASSUME NEW t \in Threads, BuildOk(t) PROVE RuntimeTypeOK'
  <2>1. about[t] \in Codes /\ gate' = FALSE
    BY <1>10 DEF BuildOk
  <2>2. /\ TypeOK' /\ pc' \in [Threads -> Labels] /\ broker' \in [Codes -> BrokerStates]
        /\ about' \in [Threads -> Codes \cup {None}] /\ target' \in [Threads -> Codes \cup {None}]
        /\ then' \in [Threads -> {"idle", "check", "send", "report", "build", "expire", "close"}]
    BY <1>10, <2>1 DEF BuildOk
  <2>3. /\ served' \subseteq Codes /\ prepared' \subseteq Codes /\ lock' \in Threads \cup {None}
        /\ {active', socket', enabled', creds', workspace'} \subseteq Codes \cup {None}
        /\ past' \subseteq Codes /\ finishing' \subseteq Codes /\ closed' \in BOOLEAN
        /\ {quiesced', reported', stolen'} \subseteq SUBSET Codes
    BY <1>10, <2>1 DEF BuildOk
  <2>4. gate' \in BOOLEAN
    BY <2>1
  <2> QED
    BY <2>2, <2>3, <2>4
<1>11. ASSUME NEW t \in Threads, BuildFail(t) PROVE RuntimeTypeOK'
  BY <1>11 DEF BuildFail
<1>12. ASSUME NEW t \in Threads, Mark(t) PROVE RuntimeTypeOK'
  BY <1>12 DEF Mark
<1>13. ASSUME NEW t \in Threads, RevokeOther(t) PROVE RuntimeTypeOK'
  BY <1>13 DEF RevokeOther
<1>14. ASSUME NEW t \in Threads, RevokeEnter(t) PROVE RuntimeTypeOK'
  BY <1>14 DEF RevokeEnter
<1>15. ASSUME NEW t \in Threads, StopBegin(t) PROVE RuntimeTypeOK'
  BY <1>15 DEF StopBegin
<1>16. ASSUME NEW t \in Threads, StopEnd(t) PROVE RuntimeTypeOK'
  BY <1>16 DEF StopEnd
<1>17. ASSUME NEW t \in Threads, ClearOk(t) PROVE RuntimeTypeOK'
  <2>1. CASE then[t] = "build"
    BY <1>17, <2>1 DEF ClearOk
  <2>2. CASE then[t] # "build"
    <3>1. then[t] \in {"send", "report"} => about[t] \in Codes
      BY <1>17 DEF ClearOk
    <3>2. /\ TypeOK' /\ pc' \in [Threads -> Labels] /\ broker' \in [Codes -> BrokerStates]
          /\ about' \in [Threads -> Codes \cup {None}] /\ target' \in [Threads -> Codes \cup {None}]
          /\ then' \in [Threads -> {"idle", "check", "send", "report", "build", "expire", "close"}]
      BY <1>17, <2>2 DEF ClearOk
    <3>3. /\ served' \subseteq Codes /\ prepared' \subseteq Codes /\ lock' \in Threads \cup {None}
          /\ {active', socket', enabled', creds', workspace'} \subseteq Codes \cup {None}
          /\ past' \subseteq Codes /\ finishing' \subseteq Codes /\ closed' \in BOOLEAN
      BY <1>17, <2>2 DEF ClearOk
    <3>4. {quiesced', reported', stolen'} \subseteq SUBSET Codes
      BY <1>17, <2>2, <3>1 DEF ClearOk
    <3>5. gate' = FALSE
      BY <1>17, <2>2 DEF ClearOk
    <3>6. gate' \in BOOLEAN
      BY <3>5
    <3> QED
      BY <3>2, <3>3, <3>4, <3>6
  <2> QED
    BY <2>1, <2>2
<1>18. ASSUME NEW t \in Threads, ClearRaise(t) PROVE RuntimeTypeOK'
  BY <1>18 DEF ClearRaise
<1>19. ASSUME NEW t \in Threads, FinishGate(t) PROVE RuntimeTypeOK'
  <2>1. CASE gate' = gate
    BY <1>19, <2>1 DEF FinishGate
  <2>2. CASE gate' # gate
    <3>1. gate' = TRUE /\ Goto(t, "accept") /\ UNCHANGED <<about, target, then>>
      BY <1>19, <2>2 DEF FinishGate
    <3>2. gate' \in BOOLEAN
      BY <3>1
    <3> QED
      BY <1>19, <3>1, <3>2 DEF FinishGate
  <2> QED
    BY <2>1, <2>2
<1>20. ASSUME NEW t \in Threads, FinishAccept(t) PROVE RuntimeTypeOK'
  BY <1>20 DEF FinishAccept
<1>21. ASSUME NEW t \in Threads, FinishSend(t) PROVE RuntimeTypeOK'
  BY <1>21 DEF FinishSend
<1>22. ASSUME NEW t \in Threads, FinishError(t) PROVE RuntimeTypeOK'
  BY <1>22 DEF FinishError
<1>23. ASSUME NEW t \in Threads, Pop(t) PROVE RuntimeTypeOK'
  BY <1>23 DEF Pop
<1>24. ASSUME NEW t \in Threads, OnExpire(t) PROVE RuntimeTypeOK'
  BY <1>24 DEF OnExpire
<1>25. ASSUME NEW t \in Threads, CloseEnter(t) PROVE RuntimeTypeOK'
  BY <1>25 DEF CloseEnter
<1>26. ASSUME NEW c \in Codes, Connect(c) PROVE RuntimeTypeOK'
  BY <1>26 DEF Connect
<1>27. ASSUME NEW c \in Codes, Deadline(c) PROVE RuntimeTypeOK'
  BY <1>27 DEF Deadline
<1> QED
  BY <1>1, <1>2, <1>3, <1>4, <1>5, <1>6, <1>7, <1>8, <1>9, <1>10, <1>11, <1>12, <1>13,
     <1>14, <1>15, <1>16, <1>17, <1>18, <1>19, <1>20, <1>21, <1>22, <1>23, <1>24,
     <1>25, <1>26, <1>27
  DEF RuntimeNext, Continue

(* What a thread has in hand, and that a session is activated once: a code  *)
(* that opens is unused, so no other thread activates it.                   *)
LEMMA ThreadsKept == ASSUME IInv, RuntimeNext PROVE ThreadInv' /\ ActivateInv'
<1> USE RuntimeAssumption
    DEF Threads, Goto, Set, Idle, Leave, Owe, Proceed, ExpireSession, Move, Open, Accept, Remove,
            Revoke, Reachable, Live, Interactive, sessionVars, brokerVars, ownedVars, threadVars,
            ghostVars, IInv, RuntimeTypeOK, TypeOK, Labels, ThreadInv, ActivateInv, Activating
<1>1. ASSUME NEW t \in Requests, NEW c \in Codes, Start(t, c) PROVE ThreadInv' /\ ActivateInv'
  BY <1>1 DEF Start
<1>2. ASSUME NEW t \in Requests, NEW c \in Codes, FinishRequest(t, c) PROVE ThreadInv' /\ ActivateInv'
  BY <1>2 DEF FinishRequest
<1>3. ASSUME NEW t \in Requests, NEW c \in Codes, PollRequest(t, c) PROVE ThreadInv' /\ ActivateInv'
  BY <1>3 DEF PollRequest
<1>4. ASSUME NEW t \in Requests, NEW c \in Codes, GetDead(t, c) PROVE ThreadInv' /\ ActivateInv'
  BY <1>4 DEF GetDead
<1>5. ASSUME NEW t \in Reapers, NEW c \in Codes, TimerExpire(t, c) PROVE ThreadInv' /\ ActivateInv'
  BY <1>5 DEF TimerExpire
<1>6. ASSUME NEW t \in Reapers, NEW c \in Codes, BrokerExpire(t, c) PROVE ThreadInv' /\ ActivateInv'
  BY <1>6 DEF BrokerExpire
<1>7. ASSUME NEW t \in Reapers, Shutdown(t) PROVE ThreadInv' /\ ActivateInv'
  BY <1>7 DEF Shutdown
<1>8. ASSUME NEW t \in Threads, ActivateCheck(t) PROVE ThreadInv' /\ ActivateInv'
  BY <1>8 DEF ActivateCheck
<1>9. ASSUME NEW t \in Threads, ActivateEnter(t) PROVE ThreadInv' /\ ActivateInv'
  BY <1>9 DEF ActivateEnter
<1>10. ASSUME NEW t \in Threads, BuildOk(t) PROVE ThreadInv' /\ ActivateInv'
  BY <1>10 DEF BuildOk
<1>11. ASSUME NEW t \in Threads, BuildFail(t) PROVE ThreadInv' /\ ActivateInv'
  BY <1>11 DEF BuildFail
<1>12. ASSUME NEW t \in Threads, Mark(t) PROVE ThreadInv' /\ ActivateInv'
  BY <1>12 DEF Mark
<1>13. ASSUME NEW t \in Threads, RevokeOther(t) PROVE ThreadInv' /\ ActivateInv'
  BY <1>13 DEF RevokeOther
<1>14. ASSUME NEW t \in Threads, RevokeEnter(t) PROVE ThreadInv' /\ ActivateInv'
  BY <1>14 DEF RevokeEnter
<1>15. ASSUME NEW t \in Threads, StopBegin(t) PROVE ThreadInv' /\ ActivateInv'
  BY <1>15 DEF StopBegin
<1>16. ASSUME NEW t \in Threads, StopEnd(t) PROVE ThreadInv' /\ ActivateInv'
  BY <1>16 DEF StopEnd
<1>17. ASSUME NEW t \in Threads, ClearOk(t) PROVE ThreadInv' /\ ActivateInv'
  BY <1>17 DEF ClearOk
<1>18. ASSUME NEW t \in Threads, ClearRaise(t) PROVE ThreadInv' /\ ActivateInv'
  BY <1>18 DEF ClearRaise
<1>19. ASSUME NEW t \in Threads, FinishGate(t) PROVE ThreadInv' /\ ActivateInv'
  BY <1>19 DEF FinishGate
<1>20. ASSUME NEW t \in Threads, FinishAccept(t) PROVE ThreadInv' /\ ActivateInv'
  BY <1>20 DEF FinishAccept
<1>21. ASSUME NEW t \in Threads, FinishSend(t) PROVE ThreadInv' /\ ActivateInv'
  BY <1>21 DEF FinishSend
<1>22. ASSUME NEW t \in Threads, FinishError(t) PROVE ThreadInv' /\ ActivateInv'
  BY <1>22 DEF FinishError
<1>23. ASSUME NEW t \in Threads, Pop(t) PROVE ThreadInv' /\ ActivateInv'
  BY <1>23 DEF Pop
<1>24. ASSUME NEW t \in Threads, OnExpire(t) PROVE ThreadInv' /\ ActivateInv'
  BY <1>24 DEF OnExpire
<1>25. ASSUME NEW t \in Threads, CloseEnter(t) PROVE ThreadInv' /\ ActivateInv'
  BY <1>25 DEF CloseEnter
<1>26. ASSUME NEW c \in Codes, Connect(c) PROVE ThreadInv' /\ ActivateInv'
  BY <1>26 DEF Connect
<1>27. ASSUME NEW c \in Codes, Deadline(c) PROVE ThreadInv' /\ ActivateInv'
  BY <1>27 DEF Deadline
<1> QED
  BY <1>1, <1>2, <1>3, <1>4, <1>5, <1>6, <1>7, <1>8, <1>9, <1>10, <1>11, <1>12, <1>13,
     <1>14, <1>15, <1>16, <1>17, <1>18, <1>19, <1>20, <1>21, <1>22, <1>23, <1>24,
     <1>25, <1>26, <1>27
  DEF RuntimeNext, Continue

(* Who owns what: nothing is active inside the lock, so whoever lets it go  *)
(* leaves the broker, the generation and the workspace of the active        *)
(* session; and an activation, which alone could bring a session back, is   *)
(* of one whose page was not served and which is not quiesced therefore.    *)
LEMMA OwnerKept == ASSUME IInv, RuntimeNext PROVE OwnerInv'
<1> USE RuntimeAssumption
    DEF Threads, Goto, Set, Idle, Leave, Owe, Proceed, ExpireSession, Move, Open, Accept, Remove,
            Revoke, Reachable, Live, Interactive, sessionVars, brokerVars, ownedVars, threadVars,
            ghostVars, IInv, RuntimeTypeOK, TypeOK, BrokerStates, Labels, ThreadInv, ActivateInv,
            Activating, OwnerInv, LockInv, Inside, BrokerOwned, OwnerAgrees, QuiescedIsDown,
            SocketServed
<1>1. ASSUME NEW t \in Requests, NEW c \in Codes, Start(t, c) PROVE OwnerInv'
  BY <1>1 DEF Start
<1>2. ASSUME NEW t \in Requests, NEW c \in Codes, FinishRequest(t, c) PROVE OwnerInv'
  BY <1>2 DEF FinishRequest
<1>3. ASSUME NEW t \in Requests, NEW c \in Codes, PollRequest(t, c) PROVE OwnerInv'
  BY <1>3 DEF PollRequest
<1>4. ASSUME NEW t \in Requests, NEW c \in Codes, GetDead(t, c) PROVE OwnerInv'
  BY <1>4 DEF GetDead
<1>5. ASSUME NEW t \in Reapers, NEW c \in Codes, TimerExpire(t, c) PROVE OwnerInv'
  BY <1>5 DEF TimerExpire
<1>6. ASSUME NEW t \in Reapers, NEW c \in Codes, BrokerExpire(t, c) PROVE OwnerInv'
  BY <1>6 DEF BrokerExpire
<1>7. ASSUME NEW t \in Reapers, Shutdown(t) PROVE OwnerInv'
  BY <1>7 DEF Shutdown
<1>8. ASSUME NEW t \in Threads, ActivateCheck(t) PROVE OwnerInv'
  BY <1>8 DEF ActivateCheck
<1>9. ASSUME NEW t \in Threads, ActivateEnter(t) PROVE OwnerInv'
  BY <1>9 DEF ActivateEnter
<1>10. ASSUME NEW t \in Threads, BuildOk(t) PROVE OwnerInv'
  BY <1>10 DEF BuildOk
<1>11. ASSUME NEW t \in Threads, BuildFail(t) PROVE OwnerInv'
  BY <1>11 DEF BuildFail
<1>12. ASSUME NEW t \in Threads, Mark(t) PROVE OwnerInv'
  BY <1>12 DEF Mark
<1>13. ASSUME NEW t \in Threads, RevokeOther(t) PROVE OwnerInv'
  BY <1>13 DEF RevokeOther
<1>14. ASSUME NEW t \in Threads, RevokeEnter(t) PROVE OwnerInv'
  BY <1>14 DEF RevokeEnter
<1>15. ASSUME NEW t \in Threads, StopBegin(t) PROVE OwnerInv'
  BY <1>15 DEF StopBegin
<1>16. ASSUME NEW t \in Threads, StopEnd(t) PROVE OwnerInv'
  BY <1>16 DEF StopEnd
<1>17. ASSUME NEW t \in Threads, ClearOk(t) PROVE OwnerInv'
  BY <1>17 DEF ClearOk
<1>18. ASSUME NEW t \in Threads, ClearRaise(t) PROVE OwnerInv'
  BY <1>18 DEF ClearRaise
<1>19. ASSUME NEW t \in Threads, FinishGate(t) PROVE OwnerInv'
  BY <1>19 DEF FinishGate
<1>20. ASSUME NEW t \in Threads, FinishAccept(t) PROVE OwnerInv'
  BY <1>20 DEF FinishAccept
<1>21. ASSUME NEW t \in Threads, FinishSend(t) PROVE OwnerInv'
  BY <1>21 DEF FinishSend
<1>22. ASSUME NEW t \in Threads, FinishError(t) PROVE OwnerInv'
  BY <1>22 DEF FinishError
<1>23. ASSUME NEW t \in Threads, Pop(t) PROVE OwnerInv'
  BY <1>23 DEF Pop
<1>24. ASSUME NEW t \in Threads, OnExpire(t) PROVE OwnerInv'
  BY <1>24 DEF OnExpire
<1>25. ASSUME NEW t \in Threads, CloseEnter(t) PROVE OwnerInv'
  BY <1>25 DEF CloseEnter
<1>26. ASSUME NEW c \in Codes, Connect(c) PROVE OwnerInv'
  BY <1>26 DEF Connect
<1>27. ASSUME NEW c \in Codes, Deadline(c) PROVE OwnerInv'
  BY <1>27 DEF Deadline
<1> QED
  BY <1>1, <1>2, <1>3, <1>4, <1>5, <1>6, <1>7, <1>8, <1>9, <1>10, <1>11, <1>12, <1>13,
     <1>14, <1>15, <1>16, <1>17, <1>18, <1>19, <1>20, <1>21, <1>22, <1>23, <1>24,
     <1>25, <1>26, <1>27
  DEF RuntimeNext, Continue

-----------------------------------------------------------------------------
(* The theorems.                                                            *)

(* The inductive invariant holds in every state of every behaviour.         *)
THEOREM Invariance == RuntimeSafeSpec => []IInv
<1>1. RuntimeInit => IInv
  BY InitIInv
<1>2. IInv /\ [RuntimeNext]_vars => IInv'
  <2>1. ASSUME IInv, RuntimeNext PROVE IInv'
    BY <2>1, TypeKept, ThreadsKept, OwnerKept DEF IInv, OwnerInv
  <2>2. ASSUME IInv, UNCHANGED vars PROVE IInv'
    BY <2>2 DEF vars, sessionVars, brokerVars, ownedVars, threadVars, ghostVars, IInv,
                RuntimeTypeOK, TypeOK, LockInv, Inside, ThreadInv, ActivateInv, Activating,
                BrokerOwned, OwnerAgrees, QuiescedIsDown, SocketServed
  <2> QED
    BY <2>1, <2>2
<1> QED
  BY <1>1, <1>2, PTL DEF RuntimeSafeSpec

(* Type correctness.                                                        *)
THEOREM TypeCorrect == RuntimeSafeSpec => []RuntimeTypeOK
<1>1. IInv => RuntimeTypeOK
  BY DEF IInv
<1> QED
  BY <1>1, Invariance, PTL

(* A broker that runs belongs to the active session, or the thread that     *)
(* holds the lock is about to stop it: one at most runs.                    *)
THEOREM BrokerOwnedAlways == RuntimeSafeSpec => []BrokerOwned
<1>1. IInv => BrokerOwned
  BY DEF IInv
<1> QED
  BY <1>1, Invariance, PTL

(* Whenever the lock is free, the provider generation and the workspace are *)
(* the active session's.                                                    *)
THEOREM OwnerAgreesAlways == RuntimeSafeSpec => []OwnerAgrees
<1>1. IInv => OwnerAgrees
  BY DEF IInv
<1> QED
  BY <1>1, Invariance, PTL

(* A session that was quiesced, or reported finished, stays down.           *)
THEOREM QuiescedIsDownAlways == RuntimeSafeSpec => []QuiescedIsDown
<1>1. IInv => QuiescedIsDown
  BY DEF IInv
<1> QED
  BY <1>1, Invariance, PTL

(* The socket reaches the broker of the active session, unless an earlier   *)
(* broker's late stop() unlinked it.                                        *)
THEOREM SocketServedAlways == RuntimeSafeSpec => []SocketServed
<1>1. IInv => SocketServed
  BY DEF IInv
<1> QED
  BY <1>1, Invariance, PTL

-----------------------------------------------------------------------------
(* The abstract specification.                                              *)

(* Every step of the runtime opens, accepts, removes or revokes a session   *)
(* as SessionSlot does, or leaves all of them as they are.                  *)
LEMMA SlotStep == ASSUME IInv, [RuntimeNext]_vars PROVE [Next]_state
<1> USE DEF IInv, RuntimeTypeOK, ThreadInv, ActivateInv, Activating, Next, Threads
<1>1. ASSUME NEW t \in Requests, NEW c \in Codes, Start(t, c) PROVE Next
  BY <1>1 DEF Start
<1>2. ASSUME NEW t \in Threads, NEW c \in Codes, ExpireSession(t, c) PROVE Next
  BY <1>2 DEF ExpireSession
<1>3. ASSUME NEW t \in Threads, Mark(t) PROVE [Next]_state
  BY <1>3 DEF Mark
<1>4. ASSUME NEW t \in Threads, FinishAccept(t) PROVE [Next]_state
  BY <1>4 DEF FinishAccept, RuntimeTypeOK
<1>5. ASSUME NEW t \in Threads, Pop(t) PROVE [Next]_state
  BY <1>5 DEF Pop
<1>6. ASSUME NEW t \in Reapers, Shutdown(t) PROVE [Next]_state
  BY <1>6 DEF Shutdown
<1>7. ASSUME NEW t \in Threads, OnExpire(t) PROVE [Next]_state
  BY <1>2, <1>7 DEF OnExpire, sessionVars
<1>8. ASSUME NEW t \in Threads,
             \/ ActivateCheck(t) \/ ActivateEnter(t) \/ BuildOk(t) \/ BuildFail(t)
             \/ RevokeOther(t) \/ RevokeEnter(t) \/ StopBegin(t) \/ StopEnd(t) \/ ClearOk(t)
             \/ ClearRaise(t) \/ FinishGate(t) \/ FinishSend(t) \/ FinishError(t) \/ CloseEnter(t)
      PROVE  UNCHANGED state
  BY <1>8 DEF ActivateCheck, ActivateEnter, BuildOk, BuildFail, RevokeOther, RevokeEnter,
              StopBegin, StopEnd, ClearOk, ClearRaise, FinishGate, FinishSend, FinishError,
              CloseEnter, sessionVars
<1>9. ASSUME NEW t \in Threads, NEW c \in Codes,
             FinishRequest(t, c) \/ PollRequest(t, c) \/ BrokerExpire(t, c)
      PROVE  UNCHANGED state
  BY <1>9 DEF FinishRequest, PollRequest, BrokerExpire, sessionVars
<1>10. ASSUME NEW c \in Codes, Connect(c) \/ Deadline(c) PROVE UNCHANGED state
  BY <1>10 DEF Connect, Deadline, sessionVars
<1>11. CASE UNCHANGED vars
  BY <1>11 DEF vars, sessionVars
<1>12. ASSUME NEW t \in Threads, Continue(t) PROVE [Next]_state
  BY <1>3, <1>4, <1>5, <1>7, <1>8, <1>12 DEF Continue
<1>13. ASSUME RuntimeNext PROVE [Next]_state
  BY <1>1, <1>2, <1>6, <1>9, <1>10, <1>12, <1>13 DEF RuntimeNext, GetDead, TimerExpire
<1> QED
  BY <1>11, <1>13

(* The runtime implements SessionSlot: whatever its threads do, sessions    *)
(* are opened once, replaced, closed and revoked in that order.             *)
THEOREM RuntimeImplementsSlot == RuntimeSafeSpec => SafeSpec
<1>1. RuntimeInit => Init
  BY DEF RuntimeInit
<1>2. IInv /\ [RuntimeNext]_vars => [Next]_state
  BY SlotStep
<1> QED
  BY <1>1, <1>2, Invariance, PTL DEF RuntimeSafeSpec, SafeSpec

(* Two sessions are never reachable at once: a start takes the earlier one  *)
(* out of the store in the step that puts its own there.                    *)
THEOREM OneReachableAlways == RuntimeSafeSpec => []OneReachable
<1>1. Init => OneReachable
  BY DEF Init, OneReachable, Reachable
<1>2. TypeOK /\ OneReachable /\ [Next]_state => OneReachable'
  <2> USE DEF TypeOK, OneReachable, Reachable, States
  <2>1. ASSUME TypeOK, OneReachable, NEW c \in Codes, Open(c) PROVE OneReachable'
    BY <2>1 DEF Open
  <2>2. ASSUME TypeOK, OneReachable, NEW c \in Codes, Accept(c) \/ Remove(c) \/ Revoke(c)
        PROVE  OneReachable'
    BY <2>2 DEF Accept, Remove, Revoke, Move
  <2> QED
    BY <2>1, <2>2 DEF Next
<1>3. IInv => TypeOK
  BY DEF IInv, RuntimeTypeOK
<1> QED
  BY <1>1, <1>2, <1>3, Invariance, RuntimeImplementsSlot, PTL DEF SafeSpec
================================================================================
