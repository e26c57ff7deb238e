------------------------- MODULE SessionStoreProofs -------------------------
(***************************************************************************)
(* The safety properties of SessionStore for every set of codes, request   *)
(* threads and reaper threads and every burst, by the inductive invariant  *)
(* IInv; and the safety half of its refinement of SessionSlot.             *)
(***************************************************************************)
EXTENDS SessionStore, TLAPS

(* The state a worker starts in is well-typed.                              *)
LEMMA InitTypeOK == ASSUME Init PROVE TypeOK
<1>1. StartBurst \in 0 .. StartBurst
  BY StoreAssumption
<1> QED
  BY <1>1 DEF Init, TypeOK, Threads, Labels, Continuations

(* Every step keeps every variable in its type.  A thread that writes its   *)
(* session into a set needs ThreadInv: that it has one.                     *)
LEMMA NextTypeOK == ASSUME TypeOK, ThreadInv, [Next]_vars PROVE TypeOK'
<1> USE StoreAssumption
    DEF TypeOK, ThreadInv, Finishing, Revoking, Threads, Labels, Continuations,
        Goto, Idle, Leave, Schedule, Remove, OweRevoke, storeVars, threadVars, ghostVars
<1>1. ASSUME NEW t \in Requests, NEW c \in Codes, Start(t, c) PROVE TypeOK'
  BY <1>1 DEF Start
<1>2. ASSUME NEW t \in Requests, NEW c \in Codes, GetDead(t, c) PROVE TypeOK'
  BY <1>2 DEF GetDead, Live
<1>3. ASSUME NEW t \in Requests, NEW c \in Codes, BeginFinish(t, c) PROVE TypeOK'
  BY <1>3 DEF BeginFinish, FinishLookup
<1>4. ASSUME NEW t \in Requests, NEW c \in Codes, PollFinish(t, c) PROVE TypeOK'
  BY <1>4 DEF PollFinish, Live
<1>5. ASSUME NEW t \in Requests, ExchangeFail(t) PROVE TypeOK'
  BY <1>5 DEF ExchangeFail
<1>6. ASSUME NEW t \in Requests, Install(t) PROVE TypeOK'
  BY <1>6 DEF Install
<1>7. ASSUME NEW t \in Requests, StartReturn(t) PROVE TypeOK'
  BY <1>7 DEF StartReturn
<1>8. ASSUME NEW t \in Requests, PollLookup(t) PROVE TypeOK'
  BY <1>8 DEF PollLookup, FinishLookup
<1>9. ASSUME NEW t \in Requests, Flag(t) PROVE TypeOK'
  BY <1>9 DEF Flag
<1>10. ASSUME NEW t \in Requests, QuiesceReturn(t) PROVE TypeOK'
  BY <1>10 DEF QuiesceReturn
<1>11. ASSUME NEW t \in Requests, QuiesceRaise(t) PROVE TypeOK'
  BY <1>11 DEF QuiesceRaise
<1>12. ASSUME NEW t \in Requests, FinishSend(t) PROVE TypeOK'
  BY <1>12 DEF FinishSend
<1>13. ASSUME NEW t \in Requests, FinishError(t) PROVE TypeOK'
  BY <1>13 DEF FinishError
<1>14. ASSUME NEW t \in Requests, FinishReply(t) PROVE TypeOK'
  BY <1>14 DEF FinishReply
<1>15. ASSUME NEW t \in Requests, Pop(t) PROVE TypeOK'
  BY <1>15 DEF Pop
<1>16. ASSUME NEW t \in Reapers, TimerFire(t) PROVE TypeOK'
  BY <1>16 DEF TimerFire
<1>17. ASSUME NEW t \in Reapers, StrayExpire(t) PROVE TypeOK'
  BY <1>17 DEF StrayExpire
<1>18. ASSUME NEW t \in Reapers, Expire(t) PROVE TypeOK'
  <2>1. CASE sessions \in past
    <3>1. sessions \in Codes
      BY <2>1
    <3> QED
      BY <1>18, <2>1, <3>1 DEF Expire
  <2>2. CASE sessions \notin past
    BY <1>18, <2>2 DEF Expire
  <2> QED
    BY <2>1, <2>2
<1>19. ASSUME NEW t \in Reapers, Close(t) PROVE TypeOK'
  BY <1>19 DEF Close
<1>20. ASSUME NEW t \in Threads, Mark(t) PROVE TypeOK'
  BY <1>20 DEF Mark
<1>21. ASSUME NEW t \in Threads, CallbackReturn(t) PROVE TypeOK'
  BY <1>21 DEF CallbackReturn
<1>22. ASSUME NEW t \in Threads, CallbackRaise(t) PROVE TypeOK'
  BY <1>22 DEF CallbackRaise
<1>23. CASE Refill
  BY <1>23 DEF Refill
<1>24. ASSUME NEW c \in Codes, Deadline(c) PROVE TypeOK'
  BY <1>24 DEF Deadline
<1>25. CASE UNCHANGED vars
  BY <1>25 DEF vars
<1> QED
  BY <1>1, <1>2, <1>3, <1>4, <1>5, <1>6, <1>7, <1>8, <1>9, <1>10, <1>11, <1>12, <1>13, <1>14, <1>15, <1>16, <1>17, <1>18, <1>19, <1>20, <1>21, <1>22, <1>23, <1>24, <1>25
  DEF Next, RequestStep, ReaperStep, RevokeStep, Threads

(* Every step keeps the inductive invariant, one action at a time.          *)
LEMMA NextIInv == ASSUME IInv, [Next]_vars PROVE IInv'
<1>0. TypeOK'
  BY NextTypeOK DEF IInv
<1> USE <1>0, StoreAssumption
    DEF IInv, TypeOK, ThreadInv, SetsInv, NoOrphan, StoredSessionIsLive, TimerCovers,
        StartGate, QuiesceOnce, Finishing, Revoking, Owes, Threads, Labels,
        Goto, Idle, Leave, Schedule, Remove, OweRevoke, storeVars, threadVars, ghostVars
<1>1. ASSUME NEW t \in Requests, NEW c \in Codes, Start(t, c) PROVE IInv'
  <2>1. ThreadInv'
    BY <1>1 DEF Start
  <2>2. SetsInv'
    BY <1>1 DEF Start
  <2>3. NoOrphan'
    BY <1>1 DEF Start
  <2>4. StoredSessionIsLive'
    BY <1>1 DEF Start
  <2>5. TimerCovers'
    BY <1>1 DEF Start
  <2>6. StartGate'
    <3>1. ASSUME NEW u \in Threads, pc[u] = "exchange" PROVE FALSE
      <4>1. subject[u] \in startingCodes
        BY <3>1
      <4> QED
        BY <4>1, <1>1 DEF Start
    <3>2. \A u \in Threads : pc'[u] = "exchange" <=> u = t
      BY <1>1, <3>1 DEF Start
    <3>3. startingCodes' = {c} /\ subject'[t] = c /\ t \in Threads
      BY <1>1 DEF Start
    <3>4. c \notin usedCodes'
      BY <1>1 DEF Start
    <3>5. {subject'[u] : u \in {v \in Threads : pc'[v] = "exchange"}} = {c}
      BY <3>2, <3>3
    <3> QED
      BY <3>2, <3>3, <3>4, <3>5
  <2>7. QuiesceOnce'
    BY <1>1 DEF Start
  <2> QED
    BY <2>1, <2>2, <2>3, <2>4, <2>5, <2>6, <2>7
<1>2. ASSUME NEW t \in Requests, NEW c \in Codes, GetDead(t, c) PROVE IInv'
  BY <1>2 DEF GetDead, Live
<1>3. ASSUME NEW t \in Requests, NEW c \in Codes, BeginFinish(t, c) PROVE IInv'
  BY <1>3 DEF BeginFinish, FinishLookup
<1>4. ASSUME NEW t \in Requests, NEW c \in Codes, PollFinish(t, c) PROVE IInv'
  BY <1>4 DEF PollFinish, Live
<1>5. ASSUME NEW t \in Requests, ExchangeFail(t) PROVE IInv'
  BY <1>5 DEF ExchangeFail
<1>6. ASSUME NEW t \in Requests, Install(t) PROVE IInv'
  <2>1. ThreadInv'
    BY <1>6 DEF Install
  <2>2. SetsInv'
    BY <1>6 DEF Install
  <2>3. NoOrphan'
    BY <1>6 DEF Install
  <2>4. StoredSessionIsLive'
    BY <1>6 DEF Install
  <2>5. TimerCovers'
    BY <1>6 DEF Install
  <2>6. StartGate'
    BY <1>6 DEF Install
  <2>7. QuiesceOnce'
    BY <1>6 DEF Install
  <2> QED
    BY <2>1, <2>2, <2>3, <2>4, <2>5, <2>6, <2>7
<1>7. ASSUME NEW t \in Requests, StartReturn(t) PROVE IInv'
  BY <1>7 DEF StartReturn
<1>8. ASSUME NEW t \in Requests, PollLookup(t) PROVE IInv'
  BY <1>8 DEF PollLookup, FinishLookup
<1>9. ASSUME NEW t \in Requests, Flag(t) PROVE IInv'
  BY <1>9 DEF Flag
<1>10. ASSUME NEW t \in Requests, QuiesceReturn(t) PROVE IInv'
  BY <1>10 DEF QuiesceReturn
<1>11. ASSUME NEW t \in Requests, QuiesceRaise(t) PROVE IInv'
  BY <1>11 DEF QuiesceRaise
<1>12. ASSUME NEW t \in Requests, FinishSend(t) PROVE IInv'
  BY <1>12 DEF FinishSend
<1>13. ASSUME NEW t \in Requests, FinishError(t) PROVE IInv'
  BY <1>13 DEF FinishError
<1>14. ASSUME NEW t \in Requests, FinishReply(t) PROVE IInv'
  BY <1>14 DEF FinishReply
<1>15. ASSUME NEW t \in Requests, Pop(t) PROVE IInv'
  BY <1>15 DEF Pop
<1>16. ASSUME NEW t \in Reapers, TimerFire(t) PROVE IInv'
  BY <1>16 DEF TimerFire
<1>17. ASSUME NEW t \in Reapers, StrayExpire(t) PROVE IInv'
  BY <1>17 DEF StrayExpire
<1>18. ASSUME NEW t \in Reapers, Expire(t) PROVE IInv'
  BY <1>18 DEF Expire
<1>19. ASSUME NEW t \in Reapers, Close(t) PROVE IInv'
  BY <1>19 DEF Close
<1>20. ASSUME NEW t \in Threads, Mark(t) PROVE IInv'
  BY <1>20 DEF Mark
<1>21. ASSUME NEW t \in Threads, CallbackReturn(t) PROVE IInv'
  BY <1>21 DEF CallbackReturn
<1>22. ASSUME NEW t \in Threads, CallbackRaise(t) PROVE IInv'
  BY <1>22 DEF CallbackRaise
<1>23. CASE Refill
  BY <1>23 DEF Refill
<1>24. ASSUME NEW c \in Codes, Deadline(c) PROVE IInv'
  BY <1>24 DEF Deadline
<1>25. CASE UNCHANGED vars
  BY <1>25 DEF vars
<1> QED
  BY <1>1, <1>2, <1>3, <1>4, <1>5, <1>6, <1>7, <1>8, <1>9, <1>10, <1>11, <1>12, <1>13, <1>14, <1>15, <1>16, <1>17, <1>18, <1>19, <1>20, <1>21, <1>22, <1>23, <1>24, <1>25
  DEF Next, RequestStep, ReaperStep, RevokeStep, Threads

(* A worker starts with no session, no thread inside the store, no timer.   *)
LEMMA InitIInv == ASSUME Init PROVE IInv
<1>1. TypeOK
  BY InitTypeOK
<1>2. ThreadInv /\ SetsInv /\ NoOrphan /\ StoredSessionIsLive /\ TimerCovers
  BY DEF Init, ThreadInv, SetsInv, NoOrphan, StoredSessionIsLive, TimerCovers,
         Finishing, Revoking
<1>3. StartGate /\ QuiesceOnce
  BY DEF Init, StartGate, QuiesceOnce
<1> QED
  BY <1>1, <1>2, <1>3 DEF IInv

(* The inductive invariant holds in every reachable state.                  *)
THEOREM Invariance == SafeSpec => []IInv
<1>1. Init => IInv
  BY InitIInv
<1>2. IInv /\ [Next]_vars => IInv'
  BY NextIInv
<1> QED
  BY <1>1, <1>2, PTL DEF SafeSpec

(* Type correctness of the store.                                           *)
THEOREM TypeCorrect == SafeSpec => []TypeOK
<1>1. IInv => TypeOK
  BY DEF IInv
<1> QED
  BY <1>1, Invariance, PTL

(* No session a code bought is ever lost with its capability still set.     *)
THEOREM NoOrphanAlways == SafeSpec => []NoOrphan
<1>1. IInv => NoOrphan
  BY DEF IInv
<1> QED
  BY <1>1, Invariance, PTL

(* What can be looked up has its capability, its code is spent, and no      *)
(* thread is about to clear it.                                             *)
THEOREM StoredIsLiveAlways == SafeSpec => []StoredSessionIsLive
<1>1. IInv => StoredSessionIsLive
  BY DEF IInv
<1> QED
  BY <1>1, Invariance, PTL

(* A stored session has its timer armed, or a thread about to expire it,    *)
(* whichever calls armed and cancelled timers before.                       *)
THEOREM TimerCoversAlways == SafeSpec => []TimerCovers
<1>1. IInv => TimerCovers
  BY DEF IInv
<1> QED
  BY <1>1, Invariance, PTL

(* start() admits one exchange of a code at a time, and on_finish_accepted  *)
(* runs once per session.                                                   *)
THEOREM OnceEach == SafeSpec => [](StartGate /\ QuiesceOnce)
<1>1. IInv => StartGate /\ QuiesceOnce
  BY DEF IInv
<1> QED
  BY <1>1, Invariance, PTL

(* "finished" is reported only for a session that is over everywhere.       *)
THEOREM FinishIsHonest == SafeSpec => []ReportedIsOver
<1>1. IInv => ReportedIsOver
  BY StoreAssumption DEF IInv, TypeOK, SetsInv, StoredSessionIsLive, ReportedIsOver
<1> QED
  BY <1>1, Invariance, PTL

(* A spent code never opens a session again, and a session never returns.   *)
THEOREM NoComebackAlways == SafeSpec => NoComeback
<1> DEFINE Stays == \A c \in Codes : c \in usedCodes /\ sessions # c => sessions' # c
<1>1. ASSUME IInv, [Next]_vars PROVE Stays
  <2> USE StoreAssumption DEF Schedule, Remove, FinishLookup, storeVars, vars
  <2>1. ASSUME NEW t \in Requests, Install(t) PROVE Stays
    <3>1. subject[t] \in startingCodes
      BY <1>1, <2>1 DEF Install, IInv, StartGate, Threads
    <3>2. subject[t] \notin usedCodes
      BY <1>1, <3>1 DEF IInv, StartGate
    <3> QED
      BY <2>1, <3>2 DEF Install
  <2>2. ASSUME NEW t \in Requests, NEW c \in Codes,
               Start(t, c) \/ GetDead(t, c) \/ BeginFinish(t, c) \/ PollFinish(t, c)
        PROVE  Stays
    BY <2>2 DEF Start, GetDead, BeginFinish, PollFinish
  <2>3. ASSUME NEW t \in Requests,
               ExchangeFail(t) \/ StartReturn(t) \/ PollLookup(t) \/ Flag(t)
                 \/ QuiesceReturn(t) \/ QuiesceRaise(t) \/ FinishSend(t)
                 \/ FinishError(t) \/ FinishReply(t) \/ Pop(t)
        PROVE  Stays
    BY <2>3 DEF ExchangeFail, StartReturn, PollLookup, Flag, QuiesceReturn, QuiesceRaise,
                FinishSend, FinishError, FinishReply, Pop
  <2>4. ASSUME NEW t \in Reapers, ReaperStep(t) PROVE Stays
    BY <2>4 DEF ReaperStep, TimerFire, StrayExpire, Expire, Close
  <2>5. ASSUME NEW t \in Threads, RevokeStep(t) PROVE Stays
    BY <2>5 DEF RevokeStep, Mark, CallbackReturn, CallbackRaise
  <2>6. CASE Refill
    BY <2>6 DEF Refill
  <2>7. ASSUME NEW c \in Codes, Deadline(c) PROVE Stays
    BY <2>7 DEF Deadline
  <2>8. CASE UNCHANGED vars
    BY <2>8
  <2> QED
    BY <1>1, <2>1, <2>2, <2>3, <2>4, <2>5, <2>6, <2>7, <2>8 DEF Next, RequestStep
<1> QED
  BY <1>1, Invariance, PTL DEF SafeSpec, NoComeback

-----------------------------------------------------------------------------
(* The refinement of SessionSlot.                                           *)

(* The slot depends on these four variables only.                           *)
LEMMA SlotUnchanged ==
  ASSUME UNCHANGED <<sessions, usedCodes, finishing, revoked>>
  PROVE  UNCHANGED slotState
BY DEF slotState

(* Taking the stored session out of the store is the slot's Remove.         *)
LEMMA SlotRemove ==
  ASSUME IInv, NEW c \in Codes, sessions = c, sessions' = None,
         UNCHANGED <<usedCodes, finishing, revoked>>
  PROVE  Slot!Remove(c)
<1>1. c \in usedCodes \ revoked
  BY StoreAssumption DEF IInv, StoredSessionIsLive
<1>2. slotState[c] \in Slot!Reachable
  BY DEF slotState, Slot!Reachable
<1>3. slotState'[c] = "removed"
  BY <1>1, StoreAssumption DEF slotState
<1>4. ASSUME NEW d \in Codes, d # c PROVE slotState'[d] = slotState[d]
  BY <1>4, StoreAssumption DEF slotState
<1>5. slotState' = [slotState EXCEPT ![c] = "removed"]
  <2>1. slotState = [d \in Codes |-> slotState[d]] /\ slotState' = [d \in Codes |-> slotState'[d]]
    BY DEF slotState
  <2> QED
    BY <1>3, <1>4, <2>1
<1> QED
  BY <1>2, <1>5 DEF Slot!Remove, Slot!Move

(* The step that installs an exchanged session is the slot's Open.          *)
LEMMA SlotOpen ==
  ASSUME IInv, NEW t \in Requests, Install(t)
  PROVE  Slot!Open(subject[t])
<1> DEFINE c == subject[t]
<1>1. c \in Codes /\ c \notin usedCodes /\ c \notin revoked /\ sessions # c
  BY StoreAssumption
  DEF Install, IInv, ThreadInv, StartGate, SetsInv, StoredSessionIsLive, Threads
<1>2. c \notin finishing
  BY <1>1, StoreAssumption DEF IInv, SetsInv
<1>3. slotState[c] = "unused" /\ slotState'[c] = "open"
  BY <1>1, <1>2 DEF slotState, Install
<1>4. ASSUME NEW d \in Codes, d # c
      PROVE  slotState'[d] = IF slotState[d] \in Slot!Reachable THEN "removed"
                                                               ELSE slotState[d]
  <2>1. sessions = d => d \in usedCodes \ revoked
    BY StoreAssumption DEF IInv, StoredSessionIsLive
  <2> QED
    BY <1>1, <1>4, <2>1 DEF slotState, Install, Slot!Reachable
<1>5. \A d \in Codes :
        slotState'[d] = CASE d = c -> "open"
                          [] slotState[d] \in Slot!Reachable -> "removed"
                          [] OTHER -> slotState[d]
  <2>1. slotState[c] \notin Slot!Reachable
    BY <1>3 DEF Slot!Reachable
  <2> QED
    BY <1>3, <1>4, <2>1
<1>6. slotState' = [d \in Codes |-> slotState'[d]]
  BY DEF slotState
<1> QED
  BY <1>3, <1>5, <1>6 DEF Slot!Open

(* Raising the finishing flag is the slot's Accept, or changes nothing.     *)
LEMMA SlotAccept ==
  ASSUME IInv, NEW t \in Requests, Flag(t)
  PROVE  Slot!Accept(subject[t]) \/ UNCHANGED slotState
<1> DEFINE c == subject[t]
<1>1. c \in usedCodes
  BY DEF Flag, IInv, ThreadInv, Finishing, Threads
<1>2. c \in Codes
  BY <1>1 DEF IInv, TypeOK
<1>3. ASSUME NEW d \in Codes, d # c PROVE slotState'[d] = slotState[d]
  BY <1>3 DEF slotState, Flag
<1>4. slotState = [d \in Codes |-> slotState[d]] /\ slotState' = [d \in Codes |-> slotState'[d]]
  BY DEF slotState
<1>5. CASE sessions = c /\ c \notin finishing
  <2>1. slotState[c] = "open" /\ slotState'[c] = "closing"
    BY <1>2, <1>5 DEF slotState, Flag
  <2> QED
    BY <1>3, <1>4, <2>1, <1>2 DEF Slot!Accept, Slot!Move
<1>6. CASE ~(sessions = c /\ c \notin finishing)
  <2>1. slotState'[c] = slotState[c]
    BY <1>1, <1>2, <1>6 DEF slotState, Flag
  <2> QED
    BY <1>3, <1>4, <2>1
<1> QED
  BY <1>5, <1>6

(* RecoverySession.revoke is the slot's Revoke, or finds it done.           *)
LEMMA SlotRevoke ==
  ASSUME IInv, NEW t \in Threads, Mark(t)
  PROVE  Slot!Revoke(victim[t]) \/ UNCHANGED slotState
<1> DEFINE c == victim[t]
<1>1. c \in usedCodes /\ sessions # c
  BY DEF Mark, IInv, ThreadInv, Revoking
<1>2. c \in Codes
  BY <1>1 DEF IInv, TypeOK
<1>3. ASSUME NEW d \in Codes, d # c PROVE slotState'[d] = slotState[d]
  BY <1>3 DEF slotState, Mark
<1>4. slotState = [d \in Codes |-> slotState[d]] /\ slotState' = [d \in Codes |-> slotState'[d]]
  BY DEF slotState
<1>5. slotState'[c] = "revoked"
  BY <1>1, <1>2 DEF slotState, Mark
<1>6. slotState[c] = "removed" \/ slotState[c] = "revoked"
  BY <1>1, <1>2 DEF slotState
<1>7. CASE slotState[c] = "removed"
  BY <1>2, <1>3, <1>4, <1>5, <1>7 DEF Slot!Revoke, Slot!Move
<1>8. CASE slotState[c] = "revoked"
  BY <1>3, <1>4, <1>5, <1>8
<1> QED
  BY <1>6, <1>7, <1>8

(* Every step of the store is a step of the slot or changes nothing there.  *)
LEMMA SlotStep ==
  ASSUME IInv, [Next]_vars PROVE [Slot!Next]_slotState
<1> USE DEF Schedule, storeVars
<1>0. TypeOK
  BY DEF IInv
<1>1. ASSUME NEW t \in Requests, Install(t) PROVE Slot!Next
  <2>1. subject[t] \in Codes
    BY <1>1 DEF Install, IInv, ThreadInv, Threads
  <2> QED
    BY <1>1, <2>1, SlotOpen DEF Slot!Next
<1>2. ASSUME NEW t \in Requests, Flag(t) PROVE [Slot!Next]_slotState
  <2>1. subject[t] \in Codes
    BY <1>0, <1>2 DEF Flag, IInv, ThreadInv, Threads, TypeOK, Finishing
  <2> QED
    BY <1>2, <2>1, SlotAccept DEF Slot!Next
<1>3. ASSUME NEW t \in Threads, Mark(t) PROVE [Slot!Next]_slotState
  <2>1. victim[t] \in Codes
    BY <1>0, <1>3 DEF Mark, IInv, ThreadInv, TypeOK, Revoking
  <2> QED
    BY <1>3, <2>1, SlotRevoke DEF Slot!Next
<1>4. ASSUME sessions' = None, UNCHANGED <<usedCodes, finishing, revoked>>
      PROVE  [Slot!Next]_slotState
  <2>1. CASE sessions = None
    BY <1>4, <2>1, SlotUnchanged
  <2>2. CASE sessions # None
    <3>1. sessions \in Codes
      BY <1>0, <2>2 DEF TypeOK
    <3> QED
      BY <1>4, <3>1, SlotRemove DEF Slot!Next
  <2> QED
    BY <2>1, <2>2
<1>5. ASSUME NEW t \in Requests, NEW c \in Codes,
             Start(t, c) \/ BeginFinish(t, c) \/ PollFinish(t, c)
      PROVE  UNCHANGED slotState
  BY <1>5, SlotUnchanged DEF Start, BeginFinish, PollFinish, FinishLookup
<1>6. ASSUME NEW t \in Requests, NEW c \in Codes, GetDead(t, c)
      PROVE  [Slot!Next]_slotState
  BY <1>4, <1>6 DEF GetDead, Remove
<1>7. ASSUME NEW t \in Requests,
             ExchangeFail(t) \/ StartReturn(t) \/ PollLookup(t) \/ QuiesceReturn(t)
               \/ QuiesceRaise(t) \/ FinishSend(t) \/ FinishError(t) \/ FinishReply(t)
      PROVE  UNCHANGED slotState
  BY <1>7, SlotUnchanged DEF ExchangeFail, StartReturn, PollLookup, QuiesceReturn,
     QuiesceRaise, FinishSend, FinishError, FinishReply, FinishLookup
<1>8. ASSUME NEW t \in Requests, Pop(t) PROVE [Slot!Next]_slotState
  <2>1. UNCHANGED <<usedCodes, finishing, revoked>> /\ sessions' \in {None, sessions}
    BY <1>8 DEF Pop, Remove
  <2> QED
    BY <2>1, <1>4, SlotUnchanged
<1>9. ASSUME NEW t \in Reapers, ReaperStep(t) PROVE [Slot!Next]_slotState
  <2>1. UNCHANGED <<usedCodes, finishing, revoked>> /\ sessions' \in {None, sessions}
    BY <1>9 DEF ReaperStep, TimerFire, StrayExpire, Expire, Close, Remove
  <2> QED
    BY <2>1, <1>4, SlotUnchanged
<1>10. ASSUME NEW t \in Threads, CallbackReturn(t) \/ CallbackRaise(t)
       PROVE  UNCHANGED slotState
  BY <1>10, SlotUnchanged DEF CallbackReturn, CallbackRaise
<1>11. ASSUME Refill \/ \E c \in Codes : Deadline(c) PROVE UNCHANGED slotState
  BY <1>11, SlotUnchanged DEF Refill, Deadline
<1>12. CASE UNCHANGED vars
  BY <1>12, SlotUnchanged DEF vars
<1> QED
  BY <1>1, <1>2, <1>3, <1>5, <1>6, <1>7, <1>8, <1>9, <1>10, <1>11, <1>12
  DEF Next, RequestStep, RevokeStep

(* The store implements the safety part of SessionSlot: one session is      *)
(* reachable at a time, and it leaves the store before its capability goes. *)
THEOREM StoreImplementsSlot == SafeSpec => SlotSafeSpec
<1>1. Init => Slot!Init
  BY StoreAssumption DEF Init, Slot!Init, slotState
<1>2. IInv /\ [Next]_vars => [Slot!Next]_slotState
  BY SlotStep
<1> QED
  BY <1>1, <1>2, Invariance, PTL DEF SafeSpec, SlotSafeSpec, Slot!SafeSpec
=============================================================================
