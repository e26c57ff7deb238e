-------------------------- MODULE ProviderAuthProofs --------------------------
(***************************************************************************)
(* The safety properties of ProviderAuth for every finite set of threads   *)
(* and every bound on the generations, by the inductive invariant IInv.    *)
(***************************************************************************)
EXTENDS ProviderAuth, FiniteSetTheorems, TLAPS

(* The threads inside a guard are finitely many: they can be counted.       *)
LEMMA InGuardFinite == IsFiniteSet(InGuard) /\ Cardinality(InGuard) \in Nat
<1>1. InGuard \subseteq Threads
  BY DEF InGuard
<1> QED
  BY <1>1, ProviderAssumption, FS_Subset, FS_CardinalityType

(* clear() finds no launch exactly when no thread is inside a guard.        *)
LEMMA NoLaunch == ASSUME LaunchesCounted, launches = 0 PROVE InGuard = {}
  BY InGuardFinite, FS_EmptySet DEF LaunchesCounted

(* The worker starts with nothing to fence.                                 *)
LEMMA InitIInv == ASSUME Init PROVE IInv
<1>1. TypeOK
  <2>1. 0 \in Generations
    BY ProviderAssumption DEF Generations
  <2> QED
    BY <2>1 DEF Init, TypeOK, OwnerLabels, Labels
<1>2. InGuard = {}
  BY DEF Init, InGuard
<1>3. LaunchesCounted
  BY <1>2, FS_EmptySet DEF Init, LaunchesCounted
<1> QED
  BY <1>1, <1>2, <1>3
  DEF Init, IInv, GuardInv, RemoveInv, NoChildAfterClear, Killed, ForgottenAfterClear,
      ChildIsCurrent, CredentialIsCurrent

(* Every step counts the launches it takes into a guard and out of it.      *)
LEMMA NextLaunches ==
  ASSUME TypeOK, LaunchesCounted, [Next]_vars
  PROVE  LaunchesCounted' /\ launches' \in Nat
<1> USE ProviderAssumption, InGuardFinite DEF TypeOK, LaunchesCounted
<1>1. ASSUME NEW t \in Threads, NEW g \in Generations, GuardEnter(t, g)
      PROVE LaunchesCounted' /\ launches' \in Nat
  <2>1. t \notin InGuard /\ InGuard' = InGuard \cup {t}
    BY <1>1 DEF GuardEnter, Step, Goto, InGuard, Labels
  <2>2. Cardinality(InGuard \cup {t}) = Cardinality(InGuard) + 1
    BY <2>1, FS_AddElement
  <2> QED
    BY <1>1, <2>1, <2>2 DEF GuardEnter
<1>2. ASSUME NEW t \in Threads, GuardLeave(t)
      PROVE LaunchesCounted' /\ launches' \in Nat
  <2>1. t \in InGuard /\ InGuard' = InGuard \ {t}
    BY <1>2 DEF GuardLeave, Step, Goto, InGuard, Labels
  <2>2. Cardinality(InGuard \ {t}) = Cardinality(InGuard) - 1
    BY <2>1, FS_RemoveElement
  <2>3. IsFiniteSet(InGuard \ {t})
    BY FS_RemoveElement
  <2>4. Cardinality(InGuard \ {t}) \in Nat
    BY <2>3, FS_CardinalityType
  <2> QED
    BY <1>2, <2>1, <2>2, <2>4 DEF GuardLeave
<1>3. ASSUME NEW t \in Threads, Spawn(t) \/ SpawnRefused(t)
      PROVE LaunchesCounted' /\ launches' \in Nat
  <2>1. InGuard' = InGuard /\ launches' = launches
    BY <1>3 DEF Spawn, SpawnRefused, Step, Goto, InGuard, Labels
  <2> QED
    BY <2>1
<1>4. ASSUME NEW t \in Threads,
             \/ Claude(t) \/ Codex(t)
             \/ AgentRejected(t) \/ TurnInvalidate(t) \/ TurnEnd(t)
      PROVE LaunchesCounted' /\ launches' \in Nat
  <2>1. InGuard' = InGuard /\ launches' = launches
    <3> USE DEF Step, Goto, InGuard
    <3>1. CASE Claude(t)
      BY <1>4, <3>1 DEF Claude, ExchangeBegin, ExchangePop, ExchangeFail, TokenOk, WriteTemp,
        Commit, Unlink, RefreshBegin, Invalidate, RefreshFail
    <3>2. CASE Codex(t)
      BY <1>4, <3>2 DEF Codex, CodexStart, CodexSpawn, CodexBanner
    <3>3. CASE AgentRejected(t) \/ TurnInvalidate(t) \/ TurnEnd(t)
      BY <1>4, <3>3 DEF AgentRejected, TurnInvalidate, TurnEnd
    <3> QED
      BY <1>4, <3>1, <3>2, <3>3
  <2> QED
    BY <2>1
<1>5. CASE \/ Enable \/ Clear \/ ClaudeStart \/ UNCHANGED vars
           \/ \E p \in procs : LoginDone(p) \/ Exit(p)
  <2>1. pc' = pc /\ launches' = launches
    BY <1>5 DEF Enable, Clear, ClearBegin, ClearDrained, ClearKill, ClearForget, ClearList,
      ClearRemove, ClearVanished, ClearDone, ClearFail, ClaudeStart, LoginDone, Exit, vars
  <2>2. InGuard' = InGuard
    BY <2>1 DEF InGuard
  <2> QED
    BY <2>1, <2>2
<1> QED
  BY <1>1, <1>2, <1>3, <1>4, <1>5 DEF Next, Turn

(* Every step keeps every variable in its type.                             *)
LEMMA NextTypeOK == ASSUME TypeOK, LaunchesCounted, [Next]_vars PROVE TypeOK'
<1>0. launches' \in Nat
  BY NextLaunches
<1> USE <1>0, ProviderAssumption
    DEF TypeOK, Labels, OwnerLabels, Files, Present, Generations, Goto, Step, Serving,
        ReadGeneration, Current, fenceVars, fileVars, ownerVars
<1>1. CASE Enable
  BY <1>1 DEF Enable
<1>2. CASE ClearBegin
  <2>1. generation + 1 \in Generations
    BY <1>2 DEF ClearBegin
  <2> QED
    BY <1>2, <2>1 DEF ClearBegin
<1>3. CASE ClearDrained
  BY <1>3 DEF ClearDrained
<1>4. CASE ClearKill
  BY <1>4 DEF ClearKill, Logins, Agents, Process
<1>5. CASE ClearForget
  BY <1>5 DEF ClearForget
<1>6. CASE ClearList
  BY <1>6 DEF ClearList
<1>7. CASE ClearVanished
  BY <1>7 DEF ClearVanished
<1>8. CASE ClearDone
  BY <1>8 DEF ClearDone
<1>9. CASE ClearFail
  BY <1>9 DEF ClearFail
<1>10. CASE ClaudeStart
  BY <1>10 DEF ClaudeStart
<1>11. ASSUME NEW f \in Files, ClearRemove(f) PROVE TypeOK'
  BY <1>11 DEF ClearRemove
<1>12. ASSUME NEW p \in procs, LoginDone(p) PROVE TypeOK'
  BY <1>12 DEF LoginDone, Logins, Agents, Process
<1>13. ASSUME NEW p \in procs, Exit(p) PROVE TypeOK'
  BY <1>13 DEF Exit, Logins, Agents, Process
<1>14. ASSUME NEW t \in Threads, ExchangeBegin(t) PROVE TypeOK'
  BY <1>14 DEF ExchangeBegin
<1>15. ASSUME NEW t \in Threads, ExchangePop(t) PROVE TypeOK'
  BY <1>15 DEF ExchangePop
<1>16. ASSUME NEW t \in Threads, ExchangeFail(t) PROVE TypeOK'
  BY <1>16 DEF ExchangeFail
<1>17. ASSUME NEW t \in Threads, TokenOk(t) PROVE TypeOK'
  BY <1>17 DEF TokenOk
<1>18. ASSUME NEW t \in Threads, WriteTemp(t) PROVE TypeOK'
  BY <1>18 DEF WriteTemp
<1>19. ASSUME NEW t \in Threads, Commit(t) PROVE TypeOK'
  BY <1>19 DEF Commit
<1>20. ASSUME NEW t \in Threads, Unlink(t) PROVE TypeOK'
  BY <1>20 DEF Unlink
<1>21. ASSUME NEW t \in Threads, RefreshBegin(t) PROVE TypeOK'
  BY <1>21 DEF RefreshBegin
<1>22. ASSUME NEW t \in Threads, Invalidate(t) PROVE TypeOK'
  BY <1>22 DEF Invalidate
<1>23. ASSUME NEW t \in Threads, RefreshFail(t) PROVE TypeOK'
  BY <1>23 DEF RefreshFail
<1>24. ASSUME NEW t \in Threads, Spawn(t) PROVE TypeOK'
  BY <1>24 DEF Spawn, Logins, Agents, Process
<1>25. ASSUME NEW t \in Threads, SpawnRefused(t) PROVE TypeOK'
  BY <1>25 DEF SpawnRefused
<1>26. ASSUME NEW t \in Threads, GuardLeave(t) PROVE TypeOK'
  BY <1>26 DEF GuardLeave
<1>27. ASSUME NEW t \in Threads, AgentRejected(t) PROVE TypeOK'
  BY <1>27 DEF AgentRejected, Logins, Agents, Process
<1>28. ASSUME NEW t \in Threads, TurnInvalidate(t) PROVE TypeOK'
  BY <1>28 DEF TurnInvalidate
<1>29. ASSUME NEW t \in Threads, TurnEnd(t) PROVE TypeOK'
  BY <1>29 DEF TurnEnd, Logins, Agents, Process
<1>30. ASSUME NEW t \in Threads, CodexStart(t) PROVE TypeOK'
  BY <1>30 DEF CodexStart, Logins, Agents, Process
<1>31. ASSUME NEW t \in Threads, CodexSpawn(t) PROVE TypeOK'
  BY <1>31 DEF CodexSpawn, Logins, Agents, Process
<1>32. ASSUME NEW t \in Threads, CodexBanner(t) PROVE TypeOK'
  BY <1>32 DEF CodexBanner, Logins, Agents, Process
<1>33. ASSUME NEW t \in Threads, NEW g \in Generations, GuardEnter(t, g) PROVE TypeOK'
  BY <1>33 DEF GuardEnter
<1>34. CASE UNCHANGED vars
  BY <1>34 DEF vars
<1> QED
  BY <1>1, <1>2, <1>3, <1>4, <1>5, <1>6, <1>7, <1>8, <1>9, <1>10, <1>11, <1>12, <1>13,
     <1>14, <1>15, <1>16, <1>17, <1>18, <1>19, <1>20, <1>21, <1>22, <1>23, <1>24, <1>25,
     <1>26, <1>27, <1>28, <1>29, <1>30, <1>31, <1>32, <1>33, <1>34
  DEF Next, Clear, Claude, Turn, Codex

(* Every step keeps the inductive invariant, one action at a time.          *)
LEMMA NextIInv == ASSUME IInv, [Next]_vars PROVE IInv'
<1>0. TypeOK' /\ LaunchesCounted'
  BY NextTypeOK, NextLaunches DEF IInv
<1> USE <1>0, ProviderAssumption
    DEF IInv, TypeOK, GuardInv, RemoveInv, InGuard, NoChildAfterClear, Killed,
        ForgottenAfterClear, ChildIsCurrent, CredentialIsCurrent, Generations, Present,
        Goto, Step, Serving, ReadGeneration, Current, fenceVars, fileVars, ownerVars
<1>1. CASE Enable
  BY <1>1 DEF Enable
<1>2. CASE ClearBegin
  BY <1>2 DEF ClearBegin
<1>3. CASE ClearDrained
  BY <1>3, NoLaunch DEF ClearDrained
<1>4. CASE ClearKill
  BY <1>4 DEF ClearKill, Logins, Agents, Process
<1>5. CASE ClearForget
  BY <1>5 DEF ClearForget
<1>6. CASE ClearList
  BY <1>6 DEF ClearList
<1>7. CASE ClearVanished
  BY <1>7 DEF ClearVanished
<1>8. CASE ClearDone
  BY <1>8 DEF ClearDone
<1>9. CASE ClearFail
  BY <1>9 DEF ClearFail
<1>10. CASE ClaudeStart
  BY <1>10 DEF ClaudeStart
<1>11. ASSUME NEW f \in Files, ClearRemove(f) PROVE IInv'
  BY <1>11 DEF ClearRemove
<1>12. ASSUME NEW p \in procs, LoginDone(p) PROVE IInv'
  BY <1>12 DEF LoginDone, Logins, Agents, Process
<1>13. ASSUME NEW p \in procs, Exit(p) PROVE IInv'
  BY <1>13 DEF Exit, Logins, Agents, Process
<1>14. ASSUME NEW t \in Threads, ExchangeBegin(t) PROVE IInv'
  BY <1>14 DEF ExchangeBegin
<1>15. ASSUME NEW t \in Threads, ExchangePop(t) PROVE IInv'
  BY <1>15 DEF ExchangePop
<1>16. ASSUME NEW t \in Threads, ExchangeFail(t) PROVE IInv'
  BY <1>16 DEF ExchangeFail
<1>17. ASSUME NEW t \in Threads, TokenOk(t) PROVE IInv'
  BY <1>17 DEF TokenOk
<1>18. ASSUME NEW t \in Threads, WriteTemp(t) PROVE IInv'
  BY <1>18 DEF WriteTemp
<1>19. ASSUME NEW t \in Threads, Commit(t) PROVE IInv'
  BY <1>19 DEF Commit
<1>20. ASSUME NEW t \in Threads, Unlink(t) PROVE IInv'
  BY <1>20 DEF Unlink
<1>21. ASSUME NEW t \in Threads, RefreshBegin(t) PROVE IInv'
  BY <1>21 DEF RefreshBegin
<1>22. ASSUME NEW t \in Threads, Invalidate(t) PROVE IInv'
  BY <1>22 DEF Invalidate
<1>23. ASSUME NEW t \in Threads, RefreshFail(t) PROVE IInv'
  BY <1>23 DEF RefreshFail
<1>24. ASSUME NEW t \in Threads, Spawn(t) PROVE IInv'
  BY <1>24 DEF Spawn, Logins, Agents, Process
<1>25. ASSUME NEW t \in Threads, SpawnRefused(t) PROVE IInv'
  BY <1>25 DEF SpawnRefused
<1>26. ASSUME NEW t \in Threads, GuardLeave(t) PROVE IInv'
  BY <1>26 DEF GuardLeave
<1>27. ASSUME NEW t \in Threads, AgentRejected(t) PROVE IInv'
  BY <1>27 DEF AgentRejected, Logins, Agents, Process
<1>28. ASSUME NEW t \in Threads, TurnInvalidate(t) PROVE IInv'
  BY <1>28 DEF TurnInvalidate
<1>29. ASSUME NEW t \in Threads, TurnEnd(t) PROVE IInv'
  BY <1>29 DEF TurnEnd, Logins, Agents, Process
<1>30. ASSUME NEW t \in Threads, CodexStart(t) PROVE IInv'
  BY <1>30 DEF CodexStart, Logins, Agents, Process
<1>31. ASSUME NEW t \in Threads, CodexSpawn(t) PROVE IInv'
  BY <1>31 DEF CodexSpawn, Logins, Agents, Process
<1>32. ASSUME NEW t \in Threads, CodexBanner(t) PROVE IInv'
  BY <1>32 DEF CodexBanner, Logins, Agents, Process
<1>33. ASSUME NEW t \in Threads, NEW g \in Generations, GuardEnter(t, g) PROVE IInv'
  BY <1>33 DEF GuardEnter
<1>34. CASE UNCHANGED vars
  BY <1>34 DEF vars
<1> QED
  BY <1>1, <1>2, <1>3, <1>4, <1>5, <1>6, <1>7, <1>8, <1>9, <1>10, <1>11, <1>12, <1>13,
     <1>14, <1>15, <1>16, <1>17, <1>18, <1>19, <1>20, <1>21, <1>22, <1>23, <1>24, <1>25,
     <1>26, <1>27, <1>28, <1>29, <1>30, <1>31, <1>32, <1>33, <1>34
  DEF Next, Clear, Claude, Turn, Codex

(* The inductive invariant holds in every state.                            *)
THEOREM Invariance == SafeSpec => []IInv
  BY InitIInv, NextIInv, PTL DEF SafeSpec

(* Every variable keeps its type.                                           *)
THEOREM TypeCorrect == SafeSpec => []TypeOK
<1>1. IInv => TypeOK
  BY DEF IInv
<1> QED
  BY <1>1, Invariance, PTL

(* "If revocation wins, no child starts; if launch wins, cleanup observes   *)
(* and kills" (chat.py, _spawn): from the kill of clear() to the next       *)
(* enable() no child process is alive and none can start.                   *)
THEOREM NoChildAfterClearAlways == SafeSpec => []NoChildAfterClear
<1>1. IInv => NoChildAfterClear
  BY DEF IInv
<1> QED
  BY <1>1, Invariance, PTL

(* What clear() waits for is the number of launches inside launch_guard.    *)
THEOREM LaunchesCountedAlways == SafeSpec => []LaunchesCounted
<1>1. IInv => LaunchesCounted
  BY DEF IInv
<1> QED
  BY <1>1, Invariance, PTL

(* The started logins clear() forgot stay forgotten until enable().         *)
THEOREM ForgottenAlways == SafeSpec => []ForgottenAfterClear
<1>1. IInv => ForgottenAfterClear
  BY DEF IInv
<1> QED
  BY <1>1, Invariance, PTL

(* No child process outlives the generation it was launched under, but for  *)
(* the time clear() takes to reach it.                                      *)
THEOREM ChildIsCurrentAlways == SafeSpec => []ChildIsCurrent
<1>1. IInv => ChildIsCurrent
  BY DEF IInv
<1> QED
  BY <1>1, Invariance, PTL

(* No exchange, refresh or login that a clear() overtook leaves its         *)
(* credential to the next session - unless an rmtree gave up.               *)
THEOREM CredentialIsCurrentAlways == SafeSpec => []CredentialIsCurrent
<1>1. IInv => CredentialIsCurrent
  BY DEF IInv
<1> QED
  BY <1>1, Invariance, PTL
==============================================================================
