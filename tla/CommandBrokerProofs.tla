-------------------------- MODULE CommandBrokerProofs --------------------------
(***************************************************************************)
(* The safety properties of CommandBroker for every finite set of clients, *)
(* by the inductive invariant IInv.                                        *)
(***************************************************************************)
EXTENDS CommandBroker, FiniteSetTheorems, SequenceTheorems, TLAPS

(* The broker starts with no connection.                                   *)
LEMMA InitIInv == ASSUME Init PROVE IInv
<1>1. /\ <<>> \in Seq(Clients) /\ Len(<<>>) = 0
      /\ Cardinality(Clients) \in Nat
  BY BrokerAssumption, FS_CardinalityType
<1>2. TypeOK
  <2>1. Len(backlog) <= Cardinality(Clients) /\ backlog \in Seq(Clients)
    BY <1>1 DEF Init
  <2>2. stage \in Stages /\ pc \in [Clients -> Labels]
    BY DEF Init, Stages, Labels
  <2>3. revoked \in BOOLEAN /\ serving \in BOOLEAN /\ past \in BOOLEAN /\ cleared \in BOOLEAN
    BY DEF Init
  <2>4. /\ answer \in [Clients -> {"ok", "error"}] /\ got \in [Clients -> {"ok", "error"}]
        /\ ran \in [Clients -> Nat]
    BY DEF Init
  <2> QED
    BY <2>1, <2>2, <2>3, <2>4 DEF Init, TypeOK
<1>3. QueueInv
  BY <1>1 DEF Init, QueueInv
<1>4. CallInv
  BY DEF Init, CallInv
<1>5. StopInv
  BY DEF Init, StopInv
<1> QED
  BY <1>2, <1>3, <1>4, <1>5 DEF IInv

(* A queue without repetitions is no longer than there are clients.        *)
LEMMA QueueFits ==
  ASSUME NEW queue \in Seq(Clients),
         \A i, j \in 1 .. Len(queue) : queue[i] = queue[j] => i = j
  PROVE  Len(queue) <= Cardinality(Clients)
<1>1. Len(queue) \in Nat /\ queue \in [1 .. Len(queue) -> Clients]
  OBVIOUS
<1>2. queue \in Injection(1 .. Len(queue), Clients)
  BY <1>1 DEF Injection, IsInjective
<1>3. Cardinality(1 .. Len(queue)) <= Cardinality(Clients)
  BY <1>2, BrokerAssumption, FS_Injection
<1>4. Cardinality(1 .. Len(queue)) = Len(queue)
  BY <1>1, FS_Interval
<1> QED
  BY <1>3, <1>4

(* Who connects is put behind a queue that did not hold it.                *)
LEMMA ConnectQueue ==
  ASSUME TypeOK, QueueInv, NEW c \in Clients, Connect(c)
  PROVE  QueueInv' /\ backlog' \in Seq(Clients)
<1>1. /\ backlog' = Append(backlog, c) /\ backlog \in Seq(Clients)
      /\ pc[c] = "idle" /\ pc' = [pc EXCEPT ![c] = "queued"] /\ accepting' = accepting
      /\ pc \in [Clients -> Labels] /\ accepting \in Clients \cup {None}
  BY DEF Connect, Goto, TypeOK
<1>2. /\ Len(backlog) \in Nat /\ Len(backlog') = Len(backlog) + 1 /\ backlog' \in Seq(Clients)
      /\ \A i \in 1 .. Len(backlog) : backlog[i] \in Clients /\ backlog'[i] = backlog[i]
      /\ backlog'[Len(backlog) + 1] = c
  BY <1>1, AppendProperties
<1>3. \A i \in 1 .. Len(backlog) : backlog[i] # c
  BY <1>1 DEF QueueInv
<1>4. c # accepting
  BY <1>1, BrokerAssumption DEF QueueInv
<1>5. \A i \in 1 .. Len(backlog') : pc'[backlog'[i]] = "queued" /\ backlog'[i] # accepting'
  BY <1>1, <1>2, <1>3, <1>4 DEF QueueInv
<1>6. \A i, j \in 1 .. Len(backlog') : backlog'[i] = backlog'[j] => i = j
  BY <1>2, <1>3 DEF QueueInv
<1>7. accepting' # None => pc'[accepting'] = "queued"
  BY <1>1, <1>4 DEF QueueInv
<1> QED
  BY <1>2, <1>5, <1>6, <1>7 DEF QueueInv

(* The head of the queue leaves it, to be accepted or to be refused.       *)
LEMMA QueueTail ==
  ASSUME TypeOK, QueueInv, backlog # <<>>
  PROVE  /\ Head(backlog) \in Clients /\ pc[Head(backlog)] = "queued"
         /\ Head(backlog) # accepting
         /\ Tail(backlog) \in Seq(Clients) /\ Len(Tail(backlog)) = Len(backlog) - 1
         /\ \A i \in 1 .. Len(Tail(backlog)) :
              /\ pc[Tail(backlog)[i]] = "queued" /\ Tail(backlog)[i] # accepting
              /\ Tail(backlog)[i] # Head(backlog) /\ Tail(backlog)[i] \in Clients
         /\ \A i, j \in 1 .. Len(Tail(backlog)) :
              Tail(backlog)[i] = Tail(backlog)[j] => i = j
<1>1. backlog \in Seq(Clients) /\ Len(backlog) \in Nat \ {0}
  BY EmptySeq DEF TypeOK
<1>2. /\ Tail(backlog) \in Seq(Clients) /\ Len(Tail(backlog)) = Len(backlog) - 1
      /\ \A i \in 1 .. Len(Tail(backlog)) : Tail(backlog)[i] = backlog[i + 1]
  BY <1>1, HeadTailProperties
<1>3. Head(backlog) = backlog[1] /\ Head(backlog) \in Clients
  BY <1>1, HeadTailProperties
<1>4. \A i \in 1 .. Len(Tail(backlog)) : i + 1 \in 1 .. Len(backlog) /\ i + 1 # 1
  BY <1>1, <1>2
<1>5. \A i \in 1 .. Len(backlog) : backlog[i] \in Clients
  BY <1>1
<1> QED
  BY <1>1, <1>2, <1>3, <1>4, <1>5 DEF QueueInv

-------------------------------------------------------------------------------
(* What each step does to the types.  The queue is typed with QueueInv.    *)

Typed ==
  /\ stage \in Stages /\ revoked \in BOOLEAN /\ serving \in BOOLEAN
  /\ closers \subseteq Clients \cup {None, "stop"}
  /\ accepting \in Clients \cup {None}
  /\ registered \subseteq Clients /\ open \subseteq Clients
  /\ pc \in [Clients -> Labels]
  /\ answer \in [Clients -> {"ok", "error"}] /\ got \in [Clients -> {"ok", "error"}]
  /\ past \in BOOLEAN /\ cleared \in BOOLEAN
  /\ ran \in [Clients -> Nat]

(* Every step keeps the types of all but the queue.                        *)
LEMMA NextTyped == ASSUME IInv, [Next]_vars PROVE Typed'
<1> USE DEF Stages, Labels, TypeOK, Typed, IInv, serverVars, clientVars, timeVars, Goto,
           RevokeFlag, Inactive
<1>1. CASE Accept
  BY <1>1, QueueTail DEF Accept
<1>2. CASE AcceptRefuse
  BY <1>2, QueueTail DEF AcceptRefuse
<1>3. CASE Register
  BY <1>3 DEF Register
<1>4. ASSUME NEW who \in closers, CloseConnections(who) PROVE Typed'
  BY <1>4 DEF CloseConnections
<1>5. CASE StopBegin \/ StopRevoke \/ StopShutdown
  BY <1>5 DEF StopBegin, StopRevoke, StopShutdown
<1>6. CASE StopClose
  BY <1>6 DEF StopClose
<1>7. CASE Deadline \/ ClearCapability
  BY <1>7 DEF Deadline, ClearCapability
<1>8. ASSUME NEW c \in Clients, Connect(c) PROVE Typed'
  BY <1>8 DEF Connect
<1>9. ASSUME NEW c \in Clients, EnsureActive(c) \/ Check(c) PROVE Typed'
  <2>1. CASE EnsureActive(c)
    BY <2>1 DEF EnsureActive
  <2>2. CASE Check(c)
    <3>1. revoked' \in BOOLEAN
      BY <2>2 DEF Check
    <3>3. closers' \subseteq Clients \cup {None, "stop"}
      <4>1. closers' = closers \/ closers' = closers \cup {c}
        BY <2>2 DEF Check
      <4> QED
        BY <4>1
    <3>2. pc' \in [Clients -> Labels] /\ answer' \in [Clients -> {"ok", "error"}]
      <4>1. answer' = answer \/ answer' = [answer EXCEPT ![c] = "ok"]
        BY <2>2 DEF Check
      <4> QED
        BY <2>2, <4>1 DEF Check
    <3> QED
      BY <2>2, <3>1, <3>2, <3>3 DEF Check
  <2> QED
    BY <1>9, <2>1, <2>2
<1>10. ASSUME NEW c \in Clients, Read(c) \/ Exec(c) \/ ExecOk(c) \/ ExecFail(c) PROVE Typed'
  <2>1. CASE Exec(c)
    BY <2>1 DEF Exec
  <2>2. CASE Read(c) \/ ExecOk(c) \/ ExecFail(c)
    <3>1. pc' \in [Clients -> Labels]
      BY <2>2 DEF Read, ExecOk, ExecFail
    <3>2. UNCHANGED <<serverVars, open, answer, got, timeVars, ran>>
      BY <2>2 DEF Read, ExecOk, ExecFail
    <3> QED
      BY <3>1, <3>2
  <2> QED
    BY <1>10, <2>1, <2>2
<1>11. ASSUME NEW c \in Clients, Reply(c) \/ CloseRequest(c) PROVE Typed'
  BY <1>11 DEF Reply, CloseRequest
<1>12. CASE UNCHANGED vars
  BY <1>12 DEF vars
<1> QED
  BY <1>1, <1>2, <1>3, <1>4, <1>5, <1>6, <1>7, <1>8, <1>9, <1>10, <1>11, <1>12
  DEF Next, Server, Closer, Stop, Handler

-------------------------------------------------------------------------------
(* The queue.                                                              *)

(* Every step keeps the queue in order.                                    *)
LEMMA NextQueue == ASSUME IInv, [Next]_vars PROVE QueueInv' /\ backlog' \in Seq(Clients)
<1> USE DEF TypeOK, IInv, serverVars, clientVars, Goto
<1>0. \A i \in 1 .. Len(backlog) : backlog[i] \in Clients
  OBVIOUS
<1>1. CASE Accept
  <2>1. /\ backlog' = Tail(backlog) /\ accepting' = Head(backlog) /\ pc' = pc
        /\ backlog # <<>>
    BY <1>1 DEF Accept
  <2>2. \A i \in 1 .. Len(backlog') : pc'[backlog'[i]] = "queued" /\ backlog'[i] # accepting'
    BY <2>1, QueueTail
  <2> QED
    BY <2>1, <2>2, QueueTail DEF QueueInv
<1>2. CASE AcceptRefuse
  <2>1. /\ backlog' = Tail(backlog) /\ accepting' = accepting /\ backlog # <<>>
        /\ pc' = [pc EXCEPT ![Head(backlog)] = "idle"] /\ accepting = None
    BY <1>2 DEF AcceptRefuse
  <2>2. \A i \in 1 .. Len(backlog') : pc'[backlog'[i]] = "queued" /\ backlog'[i] # accepting'
    BY <2>1, QueueTail
  <2> QED
    BY <2>1, <2>2, QueueTail DEF QueueInv
<1>3. CASE Register
  <2>1. /\ accepting \in Clients /\ accepting' = None /\ backlog' = backlog
        /\ \E label \in {"idle", "active"} : pc' = [pc EXCEPT ![accepting] = label]
    BY <1>3 DEF Register
  <2> QED
    BY <1>0, <2>1, BrokerAssumption DEF QueueInv
<1>4. CASE StopClose
  <2>1. backlog' = <<>> /\ accepting' = None
    BY <1>4 DEF StopClose, StopInv
  <2> QED
    BY <2>1 DEF QueueInv
<1>5. ASSUME NEW c \in Clients, Connect(c) PROVE QueueInv' /\ backlog' \in Seq(Clients)
  BY <1>5, ConnectQueue
<1>6. ASSUME NEW c \in Clients, Handler(c) PROVE QueueInv' /\ backlog' \in Seq(Clients)
  <2>1. /\ pc[c] # "queued" /\ backlog' = backlog /\ accepting' = accepting
        /\ \A d \in Clients \ {c} : pc'[d] = pc[d]
    BY <1>6 DEF Handler, EnsureActive, Read, Exec, ExecOk, ExecFail, Check, Reply, CloseRequest
  <2> QED
    BY <1>0, <2>1 DEF QueueInv
<1>7. CASE UNCHANGED <<backlog, accepting, pc>>
  BY <1>7 DEF QueueInv
<1>8. StopBegin \/ StopRevoke \/ StopShutdown \/ Closer \/ Deadline \/ ClearCapability \/ UNCHANGED vars
        => UNCHANGED <<backlog, accepting, pc>>
  BY DEF StopBegin, StopRevoke, StopShutdown, Closer, CloseConnections, Deadline,
         ClearCapability, vars
<1> QED
  BY <1>1, <1>2, <1>3, <1>4, <1>5, <1>6, <1>7, <1>8 DEF Next, Server, Stop

(* Every step keeps the types.                                             *)
LEMMA NextTypeOK == ASSUME IInv, [Next]_vars PROVE TypeOK'
<1>1. Typed' /\ QueueInv' /\ backlog' \in Seq(Clients)
  BY NextTyped, NextQueue
<1>2. Len(backlog') <= Cardinality(Clients)
  BY <1>1, QueueFits DEF QueueInv
<1> QED
  BY <1>1, <1>2 DEF Typed, TypeOK

-------------------------------------------------------------------------------
(* The calls.                                                              *)

(* Every step keeps what is known of a call at each place of its handler.  *)
LEMMA NextCall == ASSUME IInv, [Next]_vars PROVE CallInv'
<1> USE DEF TypeOK, IInv, serverVars, clientVars, Goto
<1>1. CASE AcceptRefuse
  BY <1>1, QueueTail DEF AcceptRefuse, CallInv
<1>2. CASE Register
  BY <1>2, BrokerAssumption DEF Register, CallInv, QueueInv
<1>3. CASE StopClose
  <2>1. /\ UNCHANGED <<ran, answer, got>>
        /\ \A c \in Clients : pc'[c] = IF pc[c] = "queued" THEN "idle" ELSE pc[c]
    BY <1>3 DEF StopClose
  <2> QED
    BY <2>1 DEF CallInv
<1>4. ASSUME NEW c \in Clients, Connect(c) PROVE CallInv'
  BY <1>4 DEF Connect, CallInv
<1>5. ASSUME NEW c \in Clients, EnsureActive(c) \/ Read(c) \/ ExecOk(c) \/ ExecFail(c)
      PROVE CallInv'
  BY <1>5 DEF EnsureActive, Read, ExecOk, ExecFail, CallInv
<1>6. ASSUME NEW c \in Clients, Exec(c) PROVE CallInv'
  BY <1>6 DEF Exec, CallInv
<1>7. ASSUME NEW c \in Clients, Check(c) PROVE CallInv'
  BY <1>7 DEF Check, CallInv
<1>8. ASSUME NEW c \in Clients, Reply(c) PROVE CallInv'
  BY <1>8 DEF Reply, CallInv
<1>9. ASSUME NEW c \in Clients, CloseRequest(c) PROVE CallInv'
  BY <1>9 DEF CloseRequest, CallInv
<1>10. CASE UNCHANGED <<pc, ran, answer, got>>
  BY <1>10 DEF CallInv
<1>11. Accept \/ StopBegin \/ StopRevoke \/ StopShutdown \/ Closer \/ Deadline
         \/ ClearCapability \/ UNCHANGED vars => UNCHANGED <<pc, ran, answer, got>>
  BY DEF Accept, StopBegin, StopRevoke, StopShutdown, Closer, CloseConnections, Deadline,
         ClearCapability, vars, timeVars
<1> QED
  BY <1>1, <1>2, <1>3, <1>4, <1>5, <1>6, <1>7, <1>8, <1>9, <1>10, <1>11
  DEF Next, Server, Stop, Handler

-------------------------------------------------------------------------------
(* stop().                                                                 *)

(* Every step keeps count of who will close which connection.              *)
LEMMA NextStop == ASSUME IInv, [Next]_vars PROVE StopInv'
<1> USE DEF TypeOK, IInv, serverVars, clientVars, Goto, RevokeFlag, Inactive, Stages
<1>1. CASE Accept
  BY <1>1 DEF Accept, StopInv
<1>2. CASE AcceptRefuse
  BY <1>2, QueueTail DEF AcceptRefuse, StopInv
<1>3. CASE Register
  BY <1>3, BrokerAssumption DEF Register, StopInv, QueueInv
<1>4. ASSUME NEW who \in closers, CloseConnections(who) PROVE StopInv'
  BY <1>4 DEF CloseConnections, StopInv
<1>5. CASE StopBegin
  BY <1>5 DEF StopBegin, StopInv
<1>12. CASE StopRevoke
  <2>1. /\ open' = open /\ registered' = registered /\ pc' = pc /\ revoked'
        /\ stage' = "shutdown"
    BY <1>12 DEF StopRevoke
  <2>2. registered' = {} \/ closers' # {}
    <3>1. CASE revoked
      BY <1>12, <3>1 DEF StopRevoke, StopInv
    <3>2. CASE ~revoked
      BY <1>12, <3>2 DEF StopRevoke
    <3> QED
      BY <3>1, <3>2
  <2> QED
    BY <2>1, <2>2 DEF StopInv
<1>13. CASE StopShutdown
  BY <1>13 DEF StopShutdown, StopInv
<1>6. CASE StopClose
  BY <1>6 DEF StopClose, StopInv
<1>7. ASSUME NEW c \in Clients, Connect(c) PROVE StopInv'
  BY <1>7 DEF Connect, StopInv
<1>8. ASSUME NEW c \in Clients, EnsureActive(c) \/ Check(c) PROVE StopInv'
  <2>1. /\ UNCHANGED <<open, registered, stage, serving, accepting>>
        /\ pc[c] # "queued" /\ pc'[c] # "queued" /\ \A d \in Clients \ {c} : pc'[d] = pc[d]
    BY <1>8 DEF EnsureActive, Check
  <2>2. UNCHANGED <<revoked, closers>> \/ (revoked' /\ (revoked => closers' = closers))
    BY <1>8 DEF EnsureActive, Check
  <2>3. revoked' => registered' = {} \/ closers' # {}
    <3>1. CASE revoked
      BY <2>1, <2>2, <3>1 DEF StopInv
    <3>2. CASE ~revoked
      BY <1>8, <3>2 DEF EnsureActive, Check
    <3> QED
      BY <3>1, <3>2
  <2>4. revoked => revoked'
    BY <2>2
  <2> QED
    BY <2>1, <2>3, <2>4 DEF StopInv
<1>9. ASSUME NEW c \in Clients, Read(c) \/ Exec(c) \/ ExecOk(c) \/ ExecFail(c) \/ Reply(c)
      PROVE StopInv'
  BY <1>9 DEF Read, Exec, ExecOk, ExecFail, Reply, StopInv
<1>10. ASSUME NEW c \in Clients, CloseRequest(c) PROVE StopInv'
  BY <1>10 DEF CloseRequest, StopInv
<1>11. CASE Deadline \/ ClearCapability \/ UNCHANGED vars
  BY <1>11 DEF Deadline, ClearCapability, vars, StopInv
<1> QED
  BY <1>1, <1>2, <1>3, <1>4, <1>5, <1>6, <1>7, <1>8, <1>9, <1>10, <1>11, <1>12,
     <1>13
  DEF Next, Server, Closer, Stop, Handler

-------------------------------------------------------------------------------
(* The theorems.                                                           *)

(* IInv is an invariant of the broker.                                     *)
THEOREM Invariance == SafeSpec => []IInv
<1>1. IInv /\ [Next]_vars => IInv'
  BY NextTypeOK, NextQueue, NextCall, NextStop DEF IInv
<1> QED
  BY InitIInv, <1>1, PTL DEF SafeSpec

(* Type correctness of the broker.                                         *)
THEOREM TypeCorrect == SafeSpec => []TypeOK
<1>1. IInv => TypeOK
  BY DEF IInv
<1> QED
  BY <1>1, Invariance, PTL

(* A command runs at most once, and success is told only of one that ran:  *)
(* control.exec is not repeated, whatever the server and stop() do.        *)
THEOREM RunsOnceAlways == SafeSpec => []RunsOnce
<1>1. IInv => RunsOnce
  BY DEF IInv, CallInv, RunsOnce
<1> QED
  BY <1>1, Invariance, PTL

(* No connection escapes stop(): accepted, registered, queued or refused   *)
(* while it runs, it is closed or being closed when stop() has returned.   *)
THEOREM StopClosesAllAlways == SafeSpec => []StopClosesAll
<1>1. IInv => StopClosesAll
  BY DEF IInv, StopInv, StopClosesAll
<1> QED
  BY <1>1, Invariance, PTL
================================================================================
