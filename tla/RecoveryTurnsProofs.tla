-------------------------- MODULE RecoveryTurnsProofs --------------------------
(***************************************************************************)
(* The safety properties of RecoveryTurns for any finite set of requests,  *)
(* any number of sessions and any length of the history, by the inductive  *)
(* invariant IInv; and that its sessions are those of SessionSlot.         *)
(***************************************************************************)
EXTENDS RecoveryTurns, FiniteSetTheorems, SequenceTheorems, TLAPS

\* What AnswersFollow says of one transcript.
Ordered(m) == \A i \in 2 .. Len(m) : m[i].role # "user" => m[i].turn = m[i - 1].turn

\* A label is one of the set or not.
USE DEF Streaming

-----------------------------------------------------------------------------
(* A turn and its agent.                                                    *)

\* What a turn does while it has an agent, or its browser or that agent does.
Stream(t) ==
  Feed(t) \/ Text(t) \/ Tool(t) \/ ReadEnds(t) \/ Taken(t) \/ ReadErrors(t) \/ BrowserLeaves(t)

\* All that a turn can do.
TurnAction(t) ==
  Request(t) \/ Claim(t) \/ ExpiredTold(t) \/ ExpiredLeft(t) \/ TurnStep(t) \/ Stream(t)

LEMMA NextIsTurnAction ==
  ASSUME NEW t \in Turns, TurnStep(t) \/ PipeStep(t) \/ ReadEnds(t) \/ PeerStep(t)
  PROVE  TurnAction(t)
  BY DEF TurnAction, Stream, PipeStep, PeerStep

(* Streaming goes on or ends in the clean-up; only a flush and a tool call  *)
(* write, and nothing is started.                                           *)
LEMMA StreamEffect ==
  ASSUME TypeOK, NEW t \in Turns, Stream(t)
  PROVE  /\ pc[t] \in Streaming
         /\ \E label \in Streaming \cup {"cleanup"} : Goto(t, label)
         /\ agents' \subseteq agents
         /\ segment' \subseteq segment \cup {t}
         /\ UNCHANGED <<gateVars, sessionVars, authVars, ownerVars, session, ghostVars>>
         /\ Flush(t) \/ Tool(t) \/ (messages' = messages /\ pc'[t] \in Streaming)
<1>1. ASSUME NEW from \in Streaming, NEW to \in Streaming, Pass(t, from, to)
      PROVE  /\ pc[t] = from /\ Goto(t, to) /\ pc'[t] = to
             /\ UNCHANGED <<agents, segment, messages, gateVars, sessionVars, authVars,
                            ownerVars, session, ghostVars>>
  BY <1>1 DEF Pass, Step, Goto, TypeOK
<1>2. ASSUME Flush(t)
      PROVE  /\ Goto(t, "cleanup")
             /\ agents' \subseteq agents
             /\ segment' \subseteq segment
             /\ UNCHANGED <<gateVars, sessionVars, authVars, ownerVars, session, ghostVars>>
  BY <1>2 DEF Flush, Terminate
<1>3. CASE Feed(t)
  BY <1>1, <1>2, <1>3 DEF Feed
<1>4. CASE Text(t)
  BY <1>4 DEF Text, Step, Goto, TypeOK
<1>5. CASE Tool(t)
  BY <1>5 DEF Tool, Step
<1>6. CASE ReadEnds(t)
  BY <1>6 DEF ReadEnds, Terminate, Step, Goto, TypeOK
<1>7. CASE Taken(t)
  BY <1>1, <1>2, <1>7 DEF Taken
<1>8. CASE ReadErrors(t)
  BY <1>1, <1>2, <1>8 DEF ReadErrors
<1>9. CASE BrowserLeaves(t)
  BY <1>2, <1>9 DEF BrowserLeaves
<1> QED
  BY <1>3, <1>4, <1>5, <1>6, <1>7, <1>8, <1>9 DEF Stream

-----------------------------------------------------------------------------
(* The launches under way.                                                  *)

(* The turns inside their guard are finitely many: they can be counted.     *)
LEMMA InGuardFinite == IsFiniteSet(InGuard) /\ Cardinality(InGuard) \in Nat
<1>1. InGuard \subseteq Turns
  BY DEF InGuard
<1> QED
  BY <1>1, TurnsAssumption, FS_Subset, FS_CardinalityType

(* Kill finds no launch exactly when no turn is inside its guard.          *)
LEMMA NoLaunch == ASSUME LaunchesCounted, launches = 0 PROVE InGuard = {}
  BY InGuardFinite, FS_EmptySet DEF LaunchesCounted

(* One more turn is inside its guard.                                       *)
LEMMA LaunchBegins ==
  ASSUME TypeOK, LaunchesCounted, NEW t \in Turns, pc[t] # "guard", pc[t] # "spawn",
         NEW label \in {"guard", "spawn"}, Goto(t, label), launches' = launches + 1
  PROVE  LaunchesCounted' /\ launches' \in Nat
<1>1. t \notin InGuard /\ InGuard' = InGuard \cup {t}
  BY DEF TypeOK, Goto, InGuard, Labels
<1>2. Cardinality(InGuard \cup {t}) = Cardinality(InGuard) + 1
  BY <1>1, InGuardFinite, FS_AddElement
<1> QED
  BY <1>1, <1>2, InGuardFinite DEF LaunchesCounted

(* One turn has left its guard.                                             *)
LEMMA LaunchEnds ==
  ASSUME TypeOK, LaunchesCounted, NEW t \in InGuard, NEW label \in Labels \ {"guard", "spawn"},
         Goto(t, label), launches' = launches - 1
  PROVE  LaunchesCounted' /\ launches' \in Nat
<1>1. InGuard' = InGuard \ {t}
  BY DEF TypeOK, Goto, InGuard, Labels
<1>2. IsFiniteSet(InGuard \ {t}) /\ Cardinality(InGuard \ {t}) = Cardinality(InGuard) - 1
  BY InGuardFinite, FS_RemoveElement
<1>3. Cardinality(InGuard \ {t}) \in Nat
  BY <1>2, FS_CardinalityType
<1> QED
  BY <1>1, <1>2, <1>3 DEF LaunchesCounted

(* Nobody enters or leaves a guard.                                         *)
LEMMA LaunchesSame ==
  ASSUME TypeOK, LaunchesCounted, InGuard' = InGuard, launches' = launches
  PROVE  LaunchesCounted' /\ launches' \in Nat
  BY DEF TypeOK, LaunchesCounted

(* Every step counts the launches it begins and ends.                       *)
LEMMA LaunchesKept ==
  ASSUME TypeOK, LaunchesCounted, [Next]_vars PROVE LaunchesCounted' /\ launches' \in Nat
<1> DEFINE Counted == LaunchesCounted' /\ launches' \in Nat
<1>1. ASSUME NEW t \in Turns, GuardEnter(t) PROVE Counted
  BY <1>1, LaunchBegins DEF GuardEnter, Step
<1>2. ASSUME NEW t \in Turns, GuardCheck(t) PROVE Counted
  <2>1. CASE Over(session[t])
    BY <1>2, <2>1, LaunchEnds DEF GuardCheck, InGuard, Labels
  <2>2. CASE ~Over(session[t])
    <3>1. InGuard' = InGuard
      BY <1>2, <2>2 DEF GuardCheck, InGuard, Goto, TypeOK
    <3> QED
      BY <1>2, <2>2, <3>1, LaunchesSame DEF GuardCheck
  <2> QED
    BY <2>1, <2>2
<1>3. ASSUME NEW t \in Turns, Spawn(t) \/ SpawnFail(t) PROVE Counted
  <2>1. t \in InGuard /\ launches' = launches - 1
    BY <1>3 DEF Spawn, SpawnFail, Step, InGuard
  <2>2. PICK label \in Labels \ {"guard", "spawn"} : Goto(t, label)
    BY <1>3 DEF Spawn, SpawnFail, Step, Labels
  <2> QED
    BY <2>1, <2>2, LaunchEnds
<1>4. ASSUME NEW t \in Turns,
             \/ Request(t) \/ Claim(t) \/ Check(t) \/ ExpiredTold(t) \/ ExpiredLeft(t)
             \/ Say(t) \/ Prompt(t) \/ Refused(t) \/ Cleanup(t) \/ Release(t)
             \/ CancelledAgain(t)
      PROVE Counted
  <2>1. InGuard' = InGuard /\ launches' = launches
    BY <1>4 DEF Request, Claim, Check, ExpiredTold, ExpiredLeft, Say, Prompt, Refused, Cleanup,
      Release, CancelledAgain, Step, Goto, Leave, InGuard, TypeOK, authVars
  <2> QED
    BY <2>1, LaunchesSame
<1>5. CASE Open \/ FinishGate \/ Expire \/ OwnerStep \/ UNCHANGED vars
  <2>1. pc' = pc /\ launches' = launches
    BY <1>5 DEF Open, FinishGate, Expire, OwnerStep, FinishAccept, FinishDone, FinishError, Mark,
      Disable, Kill, ResetTurns, BuildOk, BuildFail, vars, turnVars, authVars
  <2> QED
    BY <2>1, LaunchesSame DEF InGuard
<1>6. ASSUME NEW t \in Turns, Stream(t) PROVE Counted
  <2>1. launches' = launches
    BY <1>6, StreamEffect DEF authVars
  <2>2. InGuard' = InGuard
    BY <1>6, StreamEffect DEF Goto, InGuard, TypeOK
  <2> QED
    BY <2>1, <2>2, LaunchesSame
<1> QED
  BY <1>1, <1>2, <1>3, <1>4, <1>5, <1>6, NextIsTurnAction DEF Next, TurnAction, TurnStep

-----------------------------------------------------------------------------
(* The transcript.                                                          *)

(* A message that starts something or goes on with what is last keeps the   *)
(* order.                                                                   *)
LEMMA OrderedConcat ==
  ASSUME NEW m \in Seq(Message), NEW new \in Seq(Message), Ordered(m), Ordered(new),
         new # <<>> =>
           new[1].role = "user" \/ (m # <<>> /\ m[Len(m)].turn = new[1].turn)
  PROVE  /\ m \o new \in Seq(Message) /\ Ordered(m \o new)
         /\ new # <<>> => m \o new # <<>> /\ (m \o new)[Len(m \o new)] = new[Len(new)]
<1>1. /\ m \o new \in Seq(Message) /\ Len(m \o new) = Len(m) + Len(new)
      /\ \A i \in 1 .. Len(m) + Len(new) :
           (m \o new)[i] = IF i <= Len(m) THEN m[i] ELSE new[i - Len(m)]
  BY ConcatProperties
<1>2. Len(m) \in Nat /\ Len(new) \in Nat /\ (new # <<>> => Len(new) > 0)
  BY LenProperties, EmptySeq
<1>3. ASSUME NEW i \in 2 .. Len(m \o new), (m \o new)[i].role # "user"
      PROVE (m \o new)[i].turn = (m \o new)[i - 1].turn
  <2>1. CASE i <= Len(m)
    <3>1. (m \o new)[i] = m[i] /\ (m \o new)[i - 1] = m[i - 1] /\ i \in 2 .. Len(m)
      BY <1>1, <1>2, <2>1
    <3> QED
      BY <1>3, <3>1 DEF Ordered
  <2>2. CASE i = Len(m) + 1
    <3>1. /\ (m \o new)[i] = new[1] /\ (m \o new)[i - 1] = m[Len(m)]
          /\ new # <<>>
      BY <1>1, <1>2, <2>2, EmptySeq
    <3> QED
      BY <1>3, <3>1
  <2>3. CASE i > Len(m) + 1
    <3>1. /\ (m \o new)[i] = new[i - Len(m)] /\ (m \o new)[i - 1] = new[i - Len(m) - 1]
          /\ i - Len(m) \in 2 .. Len(new)
      BY <1>1, <1>2, <2>3
    <3> QED
      BY <1>3, <3>1 DEF Ordered
  <2> QED
    BY <1>1, <1>2, <2>1, <2>2, <2>3
<1>4. ASSUME new # <<>>
      PROVE m \o new # <<>> /\ (m \o new)[Len(m \o new)] = new[Len(new)]
  <2>1. Len(m \o new) > 0 /\ (m \o new)[Len(m \o new)] = new[Len(new)]
    BY <1>1, <1>2, <1>4
  <2> QED
    BY <2>1, <1>1, EmptySeq
<1> QED
  BY <1>1, <1>3, <1>4 DEF Ordered

(* Dropping the oldest keeps the order and the last message.                *)
LEMMA NewestKeeps ==
  ASSUME NEW all \in Seq(Message)
  PROVE  /\ Newest(all) \in Seq(Message)
         /\ Ordered(all) => Ordered(Newest(all))
         /\ all # <<>> => Newest(all) # <<>> /\ Newest(all)[Len(Newest(all))] = all[Len(all)]
<1>1. CASE Len(all) <= HistoryLimit
  BY <1>1, TurnsAssumption, LenProperties DEF Newest
<1>2. CASE Len(all) > HistoryLimit
  <2> DEFINE from == Len(all) - HistoryLimit + 1
             new  == SubSeq(all, from, Len(all))
  <2>1. Newest(all) = new
    BY <1>2 DEF Newest
  <2>2. Len(all) \in Nat /\ from \in 1 .. Len(all) + 1 /\ Len(all) \in 0 .. Len(all)
    BY <1>2, TurnsAssumption, LenProperties
  <2>3. /\ new \in Seq(Message)
        /\ Len(new) = IF from <= Len(all) THEN Len(all) - from + 1 ELSE 0
        /\ \A i \in 1 .. Len(all) - from + 1 : new[i] = all[from + i - 1]
    BY <2>2, SubSeqProperties
  <2>4. Len(new) = HistoryLimit /\ HistoryLimit \in Nat \ {0}
    BY <2>2, <2>3, TurnsAssumption
  <2> HIDE DEF new
  <2>5. ASSUME NEW i \in 1 .. Len(new) PROVE new[i] = all[Len(all) - HistoryLimit + i]
    <3>1. i \in 1 .. Len(all) - from + 1 /\ from + i - 1 = Len(all) - HistoryLimit + i
      BY <2>2, <2>4
    <3> QED
      BY <2>3, <3>1
  <2>6. ASSUME Ordered(all) PROVE Ordered(new)
    <3> SUFFICES ASSUME NEW i \in 2 .. Len(new), new[i].role # "user"
                 PROVE new[i].turn = new[i - 1].turn
      BY DEF Ordered
    <3> DEFINE k == Len(all) - HistoryLimit + i
    <3>1. k \in 2 .. Len(all) /\ new[i] = all[k] /\ new[i - 1] = all[k - 1]
      BY <1>2, <2>2, <2>4, <2>5
    <3> QED
      BY <2>6, <3>1 DEF Ordered
  <2>7. new # <<>> /\ new[Len(new)] = all[Len(all)]
    BY <2>2, <2>3, <2>4, <2>5, EmptySeq
  <2> QED
    BY <2>1, <2>3, <2>6, <2>7
<1> QED
  BY <1>1, <1>2, TurnsAssumption, LenProperties

(* What a turn has to say is its own, and well-formed.                      *)
LEMMA OwnMessages ==
  ASSUME NEW t \in Turns, NEW role \in {"user", "agent"}
  PROVE  LET e == [turn |-> t, role |-> role]
             more == Pending(t) \o <<e>> IN
         /\ <<e>> \in Seq(Message) /\ Len(<<e>>) = 1 /\ <<e>>[1] = e
         /\ Pending(t) \in Seq(Message) /\ \A i \in 1 .. Len(Pending(t)) : Pending(t)[i].turn = t
         /\ more \in Seq(Message) /\ more # <<>> /\ \A i \in 1 .. Len(more) : more[i].turn = t
<1> DEFINE e == [turn |-> t, role |-> role]
           a == [turn |-> t, role |-> "agent"]
<1>1. e \in Message /\ a \in Message
  BY DEF Message
<1>2. CASE t \in segment
  BY <1>1, <1>2 DEF Pending
<1>3. CASE t \notin segment
  BY <1>1, <1>3 DEF Pending
<1> QED
  BY <1>2, <1>3

(* Adding messages touches one session's transcript, and none that is       *)
(* revoked.                                                                 *)
LEMMA Added ==
  ASSUME TypeOK, NEW s \in Sessions, NEW new \in Seq(Message), messages' = AddMessages(s, new)
  PROVE  /\ messages' \in [Sessions -> Seq(Message)]
         /\ \A r \in Sessions \ {s} : messages'[r] = messages[r]
         /\ IF s \in revoked THEN messages' = messages
                             ELSE messages'[s] = Newest(messages[s] \o new)
<1>1. messages[s] \o new \in Seq(Message)
  BY ConcatProperties DEF TypeOK
<1>2. Newest(messages[s] \o new) \in Seq(Message)
  BY <1>1, NewestKeeps
<1> QED
  BY <1>2 DEF AddMessages, TypeOK

(* A turn that opens with its own message, or goes on after one of its own, *)
(* keeps the transcript in order and comes last in it.                      *)
LEMMA AddedOwn ==
  ASSUME TypeOK, NEW s \in Sessions, NEW t \in Turns, NEW new \in Seq(Message),
         messages' = AddMessages(s, new), s \notin revoked, Ordered(messages[s]),
         \A i \in 1 .. Len(new) : new[i].turn = t,
         new # <<>> =>
           new[1].role = "user" \/ (messages[s] # <<>> /\ messages[s][Len(messages[s])].turn = t)
  PROVE  /\ Ordered(messages'[s])
         /\ new # <<>> =>
              messages'[s] # <<>> /\ messages'[s][Len(messages'[s])] = new[Len(new)]
         /\ new = <<>> /\ messages[s] # <<>> =>
              /\ messages'[s] # <<>>
              /\ messages'[s][Len(messages'[s])] = messages[s][Len(messages[s])]
<1> DEFINE m == messages[s]
           all == m \o new
<1>1. m \in Seq(Message) /\ messages'[s] = Newest(all)
  BY Added DEF TypeOK
<1>2. Len(new) \in Nat /\ (new # <<>> => Len(new) > 0)
  BY EmptySeq, LenProperties
<1>3. Ordered(new)
  BY <1>2 DEF Ordered
<1>4. new # <<>> => new[1].turn = t
  BY <1>2
<1>5. /\ all \in Seq(Message) /\ Ordered(all)
      /\ new # <<>> => all # <<>> /\ all[Len(all)] = new[Len(new)]
  BY <1>1, <1>3, <1>4, OrderedConcat
<1>6. new = <<>> => all = m
  BY <1>1, ConcatEmptySeq
<1> HIDE DEF all
<1>7. /\ Ordered(Newest(all))
      /\ all # <<>> => Newest(all) # <<>> /\ Newest(all)[Len(Newest(all))] = all[Len(all)]
  BY <1>5, NewestKeeps
<1> QED
  BY <1>1, <1>5, <1>6, <1>7

-----------------------------------------------------------------------------
(* The invariant.                                                           *)

(* The worker starts with no session and no turn.                           *)
LEMMA InitIInv == ASSUME Init PROVE IInv
<1> USE TurnsAssumption DEF Init
<1>1. TypeOK
  <2>1. messages \in [Sessions -> Seq(Message)]
    OBVIOUS
  <2>2. running \in BOOLEAN /\ closing \in BOOLEAN /\ leaked \in BOOLEAN
    OBVIOUS
  <2>3. 0 \in 0 .. MaxSessions
    OBVIOUS
  <2>4. pc \in [Turns -> Labels] /\ session \in [Turns -> 0 .. MaxSessions]
    BY <2>3 DEF Labels
  <2> QED
    BY <2>1, <2>2, <2>3, <2>4 DEF TypeOK, OwnerLabels
<1>2. InGuard = {} /\ Launching = {}
  BY DEF InGuard, Launching
<1>3. LaunchesCounted
  BY <1>2, FS_EmptySet DEF LaunchesCounted
<1>4. SessionInv /\ OwnerInv /\ TurnInv /\ GateInv
  BY <1>2 DEF SessionInv, OwnerInv, Clearing, TurnInv, GateInv, Admitted
<1>5. TranscriptInv /\ AnswersFollow
  <2>1. \A s \in Sessions : Len(messages[s]) = 0
    OBVIOUS
  <2> QED
    BY <2>1 DEF TranscriptInv, Wrote, AnswersFollow
<1>6. AgentHasTurn /\ QuietStaysQuiet /\ OneTurnUnlessLost /\ ShutGateIsHeld
  BY <1>2 DEF AgentHasTurn, QuietStaysQuiet, OneTurnUnlessLost, ShutGateIsHeld
<1> QED
  BY <1>1, <1>3, <1>4, <1>5, <1>6 DEF IInv

(* A turn that is past its request has a session.                           *)
LEMMA HasSession ==
  ASSUME IInv, NEW t \in Turns, pc[t] # "idle" PROVE session[t] \in Sessions
  BY DEF IInv, TypeOK, TurnInv

(* What a turn leaves alone: the owner's affairs and every other turn's.    *)
TurnFrame(t) ==
  /\ UNCHANGED <<closing, sessionVars, enabled, ownerVars, quiet>>
  /\ \A u \in Turns \ {t} : pc'[u] = pc[u] /\ session'[u] = session[u]
  /\ pc[t] # "idle" /\ pc'[t] # "idle" => session'[t] = session[t]

LEMMA TurnKeepsFrame ==
  ASSUME TypeOK, NEW t \in Turns, TurnAction(t) PROVE TurnFrame(t)
<1> USE DEF TypeOK, TurnFrame, Step, Goto, Leave, Decided, ReleaseTurn, gateVars, sessionVars,
      authVars, ownerVars, turnVars, ghostVars, Labels
<1>1. CASE Request(t)
  BY <1>1 DEF Request
<1>2. CASE Claim(t)
  BY <1>2 DEF Claim
<1>3. CASE Check(t)
  BY <1>3 DEF Check
<1>4. CASE ExpiredTold(t)
  BY <1>4 DEF ExpiredTold
<1>5. CASE ExpiredLeft(t)
  BY <1>5 DEF ExpiredLeft
<1>6. CASE Say(t)
  BY <1>6 DEF Say
<1>7. CASE Prompt(t)
  BY <1>7 DEF Prompt
<1>8. CASE Refused(t)
  BY <1>8 DEF Refused
<1>9. CASE GuardEnter(t)
  BY <1>9 DEF GuardEnter
<1>10. CASE GuardCheck(t)
  BY <1>10 DEF GuardCheck
<1>11. CASE Spawn(t)
  BY <1>11 DEF Spawn
<1>12. CASE SpawnFail(t)
  BY <1>12 DEF SpawnFail
<1>13. CASE Stream(t)
  BY <1>13, StreamEffect
<1>14. CASE Cleanup(t)
  BY <1>14 DEF Cleanup
<1>15. CASE Release(t)
  BY <1>15 DEF Release
<1>16. CASE CancelledAgain(t)
  BY <1>16 DEF CancelledAgain
<1> QED
  BY <1>1, <1>2, <1>3, <1>4, <1>5, <1>6, <1>7, <1>8, <1>9, <1>10, <1>11, <1>12, <1>13,
     <1>14, <1>15, <1>16 DEF TurnAction, TurnStep

(* What the owner leaves alone: the turns.                                  *)
OwnerFrame == UNCHANGED <<turnVars, launches, asked, lost>>

OwnerAction == OwnerStep \/ Open \/ FinishGate \/ Expire

LEMMA OwnerKeepsFrame == ASSUME OwnerAction PROVE OwnerFrame
  BY DEF OwnerAction, OwnerStep, Open, FinishGate, Expire, FinishAccept, FinishDone,
      FinishError, Mark, Disable, Kill, ResetTurns, BuildOk, BuildFail, OwnerFrame,
      authVars, turnVars, ghostVars

(* Types: a gate that is set is set to TRUE or FALSE, messages are a turn's. *)
LEMMA TypeKept == ASSUME IInv, [Next]_vars PROVE TypeOK'
<1>0. launches' \in Nat /\ TypeOK
  BY LaunchesKept DEF IInv
<1> DEFINE Booleans == running' \in BOOLEAN /\ closing' \in BOOLEAN /\ leaked' \in BOOLEAN
           Written == messages' \in [Sessions -> Seq(Message)]
           Rest == /\ opened' \in 0 .. MaxSessions /\ stored' \in 0 .. MaxSessions
                   /\ ready' \subseteq Sessions /\ finishing' \subseteq Sessions
                   /\ revoked' \subseteq Sessions /\ enabled' \in 0 .. MaxSessions
                   /\ agents' \subseteq Agent
                   /\ owner' \in OwnerLabels /\ then' \in {"rest", "build", "send"}
                   /\ victim' \in 0 .. MaxSessions
                   /\ pc' \in [Turns -> Labels] /\ session' \in [Turns -> 0 .. MaxSessions]
                   /\ segment' \subseteq Turns /\ asked' \subseteq Turns
                   /\ quiet' \subseteq Sessions /\ lost' \subseteq Sessions
<1> USE <1>0, TurnsAssumption DEF Goto, Step, Leave, Decided, ReleaseTurn, Reset, GoOn, gateVars,
        sessionVars, authVars, ownerVars, turnVars, ghostVars
<1>1. ASSUME NEW t \in Turns, TurnAction(t) PROVE Rest
  <2> USE DEF TypeOK, Sessions, Labels, Agent
  <2>1. CASE Request(t)
    BY <2>1 DEF Request
  <2>2. CASE Claim(t)
    <3>1. pc' = [pc EXCEPT ![t] = "idle"] \/ pc' = [pc EXCEPT ![t] = "check"]
      BY <2>2 DEF Claim
    <3>2. session' = session \/ session' = [session EXCEPT ![t] = 0]
      BY <2>2 DEF Claim
    <3>4. UNCHANGED <<sessionVars, authVars, agents, ownerVars, segment, ghostVars>>
      BY <2>2 DEF Claim
    <3>5. pc' \in [Turns -> Labels]
      BY <3>1
    <3>6. session' \in [Turns -> 0 .. MaxSessions]
      <4>1. CASE session' = session
        BY <4>1
      <4>2. CASE session' = [session EXCEPT ![t] = 0]
        BY <4>2
      <4> QED
        BY <3>2, <4>1, <4>2
    <3> QED
      BY <3>4, <3>5, <3>6
  <2>3. CASE Check(t)
    BY <2>3 DEF Check
  <2>4. CASE ExpiredTold(t)
    <3>1. \A u \in Holding : session[u] \in Sessions
      BY HasSession DEF Holding
    <3>2. lost' \subseteq Sessions
      BY <2>4, <3>1, ZenonT(40) DEF ExpiredTold
    <3> QED
      BY <2>4, <3>2, SMTT(20) DEF ExpiredTold
  <2>5. CASE ExpiredLeft(t)
    BY <2>5, SMTT(20) DEF ExpiredLeft
  <2>6. CASE Say(t)
    BY <2>6 DEF Say
  <2>7. CASE Prompt(t)
    BY <2>7 DEF Prompt
  <2>8. CASE Refused(t)
    BY <2>8 DEF Refused
  <2>9. CASE GuardEnter(t)
    BY <2>9 DEF GuardEnter
  <2>10. CASE GuardCheck(t)
    BY <2>10 DEF GuardCheck
  <2>11. CASE Spawn(t)
    <3>1. session[t] \in Sessions
      BY <2>11, HasSession DEF Spawn
    <3>2. agents' \subseteq Agent
      BY <2>11, <3>1 DEF Spawn, Process
    <3>3. pc' \in [Turns -> Labels]
      BY <2>11 DEF Spawn
    <3> QED
      BY <2>11, <3>2, <3>3 DEF Spawn
  <2>12. CASE SpawnFail(t)
    BY <2>12 DEF SpawnFail
  <2>13. CASE Stream(t)
    <3>1. PICK label \in Streaming \cup {"cleanup"} : pc' = [pc EXCEPT ![t] = label]
      BY <2>13, StreamEffect, ZenonT(40)
    <3>2. pc' \in [Turns -> Labels]
      BY <3>1
    <3>3. /\ agents' \subseteq agents /\ segment' \subseteq Turns
          /\ UNCHANGED <<sessionVars, enabled, ownerVars, session, asked, quiet, lost>>
      BY <2>13, StreamEffect, ZenonT(40)
    <3> QED
      BY <3>2, <3>3
  <2>14. CASE Cleanup(t)
    BY <2>14 DEF Cleanup
  <2>15. CASE Release(t)
    <3>1. \A u \in Holding : session[u] \in Sessions
      BY HasSession DEF Holding
    <3>2. lost' \subseteq Sessions
      BY <2>15, <3>1, ZenonT(40) DEF Release
    <3> QED
      BY <2>15, <3>2, SMTT(20) DEF Release
  <2>16. CASE CancelledAgain(t)
    BY <2>16 DEF CancelledAgain
  <2> QED
    BY <1>1, <2>1, <2>2, <2>3, <2>4, <2>5, <2>6, <2>7, <2>8, <2>9, <2>10, <2>11, <2>12, <2>13,
       <2>14, <2>15, <2>16 DEF TurnAction, TurnStep
<1>2. CASE OwnerAction
  <2>1. Rest
    <3> USE DEF TypeOK, Sessions, OwnerLabels, IInv, OwnerInv, SessionInv
    <3>1. CASE Open
      BY <3>1 DEF Open
    <3>2. CASE FinishGate
      BY <3>2 DEF FinishGate
    <3>3. CASE Expire
      BY <3>3, SMTT(20) DEF Expire
    <3>4. CASE FinishAccept
      BY <3>4, SMTT(20) DEF FinishAccept
    <3>5. CASE FinishDone
      BY <3>5 DEF FinishDone
    <3>6. CASE FinishError
      BY <3>6 DEF FinishError
    <3>7. CASE Mark
      BY <3>7 DEF Mark
    <3>8. CASE Disable
      BY <3>8 DEF Disable
    <3>10. CASE Kill
      BY <3>10 DEF Kill
    <3>11. CASE ResetTurns
      BY <3>11 DEF ResetTurns
    <3>12. CASE BuildOk
      BY <3>12 DEF BuildOk
    <3>13. CASE BuildFail
      BY <3>13 DEF BuildFail
    <3> QED
      BY <1>2, <3>1, <3>2, <3>3, <3>4, <3>5, <3>6, <3>7, <3>8, <3>10, <3>11,
         <3>12, <3>13
      DEF OwnerAction, OwnerStep
  <2>2. Booleans
    <3>1. CASE Reset
      BY <3>1 DEF TypeOK
    <3>2. CASE FinishGate
      BY <3>2 DEF FinishGate, TypeOK
    <3>3. CASE ~Reset /\ ~FinishGate
      <4>1. UNCHANGED <<gateVars, leaked>>
        BY <1>2, <3>3 DEF OwnerAction, OwnerStep, Open, Expire, FinishAccept, FinishDone,
          FinishError, Mark, Disable, Kill, ResetTurns, BuildOk, BuildFail
      <4> QED
        BY <4>1 DEF TypeOK
    <3> QED
      BY <3>1, <3>2, <3>3
  <2>3. Written
    <3>1. CASE Mark
      <4>1. messages \in [Sessions -> Seq(Message)] /\ <<>> \in Seq(Message)
        BY EmptySeq DEF TypeOK
      <4> QED
        BY <3>1, <4>1 DEF Mark
    <3>2. CASE ~Mark
      <4>1. messages' = messages
        BY <1>2, <3>2 DEF OwnerAction, OwnerStep, Open, FinishGate, Expire, FinishAccept,
          FinishDone, FinishError, Disable, Kill, ResetTurns, BuildOk, BuildFail
      <4> QED
        BY <4>1 DEF TypeOK
    <3> QED
      BY <3>1, <3>2
  <2> QED
    BY <1>0, <2>1, <2>2, <2>3 DEF TypeOK
<1>3. ASSUME NEW t \in Turns, TurnAction(t) PROVE Booleans /\ Written
  <2>1. CASE Say(t) \/ Tool(t) \/ (Stream(t) /\ Flush(t))
    <3>1. session[t] \in Sessions
      <4>1. pc[t] # "idle"
        BY <1>0, <2>1, StreamEffect DEF Say, Tool, Step
      <4> QED
        BY <4>1, HasSession
    <3>2. PICK new \in Seq(Message) : messages' = AddMessages(session[t], new)
      BY <2>1, OwnMessages DEF Say, Tool, Flush, AddMessage
    <3>3. Written
      BY <1>0, <3>1, <3>2, Added
    <3>4. UNCHANGED <<gateVars, leaked>>
      BY <2>1 DEF Say, Tool, Flush
    <3> QED
      BY <1>0, <3>3, <3>4 DEF TypeOK
  <2>2. CASE Stream(t) /\ ~(Tool(t) \/ Flush(t))
    <3>1. messages' = messages /\ UNCHANGED <<gateVars, leaked>>
      BY <1>0, <2>2, StreamEffect
    <3> QED
      BY <1>0, <3>1 DEF TypeOK
  <2>3. CASE ~(Say(t) \/ Stream(t))
    <3>1. /\ messages' = messages /\ closing' = closing
          /\ running' = running \/ running' = TRUE \/ running' = FALSE
          /\ leaked' = leaked \/ leaked' = FALSE \/ leaked' = running
      BY <1>3, <2>3 DEF TurnAction, TurnStep, Request, Claim, Check, ExpiredTold, ExpiredLeft,
        Prompt, Refused, GuardEnter, GuardCheck, Spawn, SpawnFail, Cleanup, Release,
        CancelledAgain
    <3> QED
      BY <1>0, <3>1 DEF TypeOK
  <2> QED
    BY <2>1, <2>2, <2>3
<1>4. CASE UNCHANGED vars
  <2>1. Rest /\ Written
    BY <1>4 DEF vars, TypeOK
  <2>2. Booleans
    BY <1>4 DEF vars, TypeOK
  <2> QED
    BY <1>0, <2>1, <2>2 DEF TypeOK
<1>5. ASSUME NEW t \in Turns, TurnAction(t) PROVE TypeOK'
  <2>1. Rest /\ Booleans /\ Written
    BY <1>1, <1>3, <1>5
  <2> QED
    BY <1>0, <2>1 DEF TypeOK
<1> QED
  BY <1>2, <1>4, <1>5, NextIsTurnAction DEF Next, OwnerAction

(* The owner's affairs: who is over, and what the clean-up has reached.     *)
LEMMA SessionsKept == ASSUME IInv, [Next]_vars PROVE SessionInv' /\ OwnerInv'
<1>0. TypeOK' /\ TypeOK
  BY TypeKept DEF IInv
<1>1. CASE OwnerAction
  <2>0. OwnerFrame /\ InGuard' = InGuard
    BY <1>1, OwnerKeepsFrame DEF OwnerFrame, InGuard, turnVars
  <2>1. stored \in Nat /\ opened \in Nat /\ victim \in Nat /\ enabled \in Nat
    BY <1>0 DEF TypeOK
  <2>2. /\ \A s \in ready \cup finishing \cup revoked \cup quiet : s \in Nat
        /\ then \in {"rest", "build", "send"}
    BY <1>0 DEF TypeOK, Sessions
  <2> USE <2>0, <2>1, <2>2 DEF Goto, Step, Leave, Decided, ReleaseTurn, Reset, GoOn, gateVars,
         sessionVars, authVars, ownerVars, turnVars, ghostVars, IInv, SessionInv, OwnerInv,
         Clearing, Over
  <2>4. CASE Open
    BY <1>0, <2>4 DEF Open
  <2>5. CASE FinishGate
    BY <1>0, <2>5 DEF FinishGate
  <2>6. CASE Expire
    BY <1>0, <2>6 DEF Expire
  <2>7. CASE FinishAccept
    BY <1>0, <2>7 DEF FinishAccept
  <2>8. CASE FinishDone
    BY <1>0, <2>8 DEF FinishDone
  <2>9. CASE FinishError
    BY <1>0, <2>9 DEF FinishError
  <2>10. CASE Mark
    BY <1>0, <2>10 DEF Mark
  <2>11. CASE Disable
    BY <1>0, <2>11 DEF Disable
  <2>12. CASE Kill
    BY <1>0, <2>12, NoLaunch DEF Kill
  <2>13. CASE ResetTurns
    BY <1>0, <2>13 DEF ResetTurns
  <2>14. CASE BuildOk
    BY <1>0, <2>14 DEF BuildOk
  <2>15. CASE BuildFail
    BY <1>0, <2>15 DEF BuildFail
  <2> QED
    BY <1>1, <2>4, <2>5, <2>6, <2>7, <2>8, <2>9, <2>10, <2>11, <2>12, <2>13, <2>14, <2>15
      DEF OwnerAction, OwnerStep
<1>2. ASSUME NEW t \in Turns, TurnAction(t) PROVE SessionInv' /\ OwnerInv'
  <2>1. TurnFrame(t)
    BY <1>0, <1>2, TurnKeepsFrame
  <2>2. ASSUME enabled = 0, InGuard = {} PROVE InGuard' = {}
    <3>1. ~GuardEnter(t)
      BY <2>2, HasSession DEF GuardEnter, Step, Sessions
    <3>2. pc'[t] \notin {"guard", "spawn"}
      BY <1>0, <1>2, <2>2, <3>1, StreamEffect
        DEF TurnAction, TurnStep, Request, Claim, Check, ExpiredTold, ExpiredLeft, Say, Prompt,
            Refused, GuardCheck, Spawn, SpawnFail, Cleanup, Release, CancelledAgain, InGuard,
            Step, Goto, Leave, TypeOK, turnVars
    <3> QED
      BY <2>1, <2>2, <3>2 DEF InGuard, TurnFrame
  <2> QED
    BY <2>1, <2>2
    DEF TurnFrame, sessionVars, ownerVars, IInv, SessionInv, OwnerInv, Clearing, Over
<1>3. CASE UNCHANGED vars
  BY <1>3
    DEF vars, gateVars, sessionVars, authVars, ownerVars, turnVars, ghostVars, IInv,
        SessionInv, OwnerInv, Clearing, Over, InGuard
<1> QED
  BY <1>1, <1>2, <1>3, NextIsTurnAction DEF Next, OwnerAction

(* Launches and agents: a turn starts nothing for a session that is quiet.  *)
LEMMA AgentsKept ==
  ASSUME IInv, [Next]_vars PROVE TurnInv' /\ AgentHasTurn' /\ QuietStaysQuiet'
<1>0. TypeOK' /\ TypeOK
  BY TypeKept DEF IInv
<1>1. CASE OwnerAction
  <2>0. OwnerFrame /\ InGuard' = InGuard
    BY <1>1, OwnerKeepsFrame DEF OwnerFrame, InGuard, turnVars
  <2>1. CASE Kill
    BY <2>0, <2>1, NoLaunch DEF Kill, OwnerFrame, turnVars, sessionVars, IInv, OwnerInv, TurnInv,
      AgentHasTurn, QuietStaysQuiet
  <2>2. CASE ~Kill
    <3>1. agents' = agents /\ quiet' = quiet /\ ready \subseteq ready'
      BY <1>1, <2>2
        DEF OwnerAction, OwnerStep, Open, FinishGate, Expire, FinishAccept, FinishDone,
            FinishError, Mark, Disable, ResetTurns, BuildOk, BuildFail, sessionVars,
            ghostVars
    <3> QED
      BY <2>0, <3>1 DEF OwnerFrame, turnVars, IInv, TurnInv, AgentHasTurn, QuietStaysQuiet
  <2> QED
    BY <2>1, <2>2
<1>2. ASSUME NEW t \in Turns, TurnAction(t)
      PROVE TurnInv' /\ AgentHasTurn' /\ QuietStaysQuiet'
  <2>0. TurnFrame(t)
    BY <1>0, <1>2, TurnKeepsFrame
  <2> USE <1>0, <2>0 DEF TurnFrame, Goto, Step, Leave, ReleaseTurn, Reset, GoOn, gateVars,
         sessionVars, authVars, ownerVars, turnVars, ghostVars, IInv, SessionInv, TurnInv,
         AgentHasTurn, QuietStaysQuiet, InGuard, TypeOK, Labels, Agent
  <2>1. CASE Request(t)
    BY <2>1 DEF Request
  <2>2. CASE Claim(t)
    <3>1. pc[t] = "claim" /\ pc'[t] \in {"idle", "check"}
      BY <2>2 DEF Claim
    <3>2. UNCHANGED <<agents, ready>>
      BY <2>2 DEF Claim
    <3>3. \A p \in agents : p.turn \in Turns \ {t}
      BY <3>1
    <3>4. InGuard' = InGuard
      BY <3>1
    <3> QED
      BY <3>1, <3>2, <3>3, <3>4, ZenonT(40)
  <2>3. CASE Check(t)
    BY <2>3 DEF Check
  <2>4. CASE ExpiredTold(t)
    BY <2>4 DEF ExpiredTold
  <2>5. CASE ExpiredLeft(t)
    BY <2>5 DEF ExpiredLeft
  <2>6. CASE Say(t)
    BY <2>6 DEF Say
  <2>7. CASE Prompt(t)
    BY <2>7 DEF Prompt
  <2>8. CASE Refused(t)
    BY <2>8 DEF Refused
  <2>9. CASE GuardEnter(t)
    BY <2>9 DEF GuardEnter
  <2>10. CASE GuardCheck(t)
    BY <2>10 DEF GuardCheck
  <2>11. CASE Spawn(t)
    BY <2>11 DEF Spawn, Process
  <2>12. CASE SpawnFail(t)
    BY <2>12 DEF SpawnFail
  <2>13. CASE Stream(t)
    <3>1. /\ pc[t] \in Streaming /\ pc'[t] \in Streaming \cup {"cleanup"}
          /\ UNCHANGED <<session, ready, quiet>>
      BY <2>13, StreamEffect, SMTT(20)
    <3>2. agents' \subseteq agents
      BY <2>13, StreamEffect, SMTT(20)
    <3> QED
      BY <3>1, <3>2
  <2>14. CASE Cleanup(t)
    BY <2>14 DEF Cleanup
  <2>15. CASE Release(t)
    BY <2>15 DEF Release
  <2>16. CASE CancelledAgain(t)
    BY <2>16 DEF CancelledAgain
  <2> QED
    BY <1>2, <2>1, <2>2, <2>3, <2>4, <2>5, <2>6, <2>7, <2>8, <2>9, <2>10, <2>11, <2>12, <2>13,
       <2>14, <2>15, <2>16
      DEF TurnAction, TurnStep
<1>3. CASE UNCHANGED vars
  BY <1>3
    DEF vars, gateVars, sessionVars, authVars, ownerVars, turnVars, ghostVars, IInv, TurnInv,
        AgentHasTurn, QuietStaysQuiet, InGuard
<1> QED
  BY <1>1, <1>2, <1>3, NextIsTurnAction DEF Next, OwnerAction

(* The gate: a turn that is admitted finds it open, and nobody opens it     *)
(* again for a session that is not over or loses it.                        *)
LEMMA GateKept ==
  ASSUME IInv, [Next]_vars PROVE GateInv' /\ OneTurnUnlessLost' /\ ShutGateIsHeld'
<1>0. TypeOK' /\ TypeOK
  BY TypeKept DEF IInv
<1>1. CASE OwnerAction
  <2>0. OwnerFrame /\ Launching' = Launching /\ Holding' = Holding
    BY <1>1, OwnerKeepsFrame DEF OwnerFrame, Launching, Holding, turnVars
  <2>1. \A s : Over(s) => Over(s)'
    BY <1>1
      DEF OwnerAction, OwnerStep, Open, FinishGate, Expire, FinishAccept, FinishDone,
          FinishError, Mark, Disable, Kill, ResetTurns, BuildOk, BuildFail, Over,
          sessionVars
  <2>2. CASE ResetTurns \/ BuildOk
    <3>1. enabled = 0 /\ Reset
      BY <2>2 DEF ResetTurns, BuildOk, IInv, OwnerInv
    <3>2. \A s \in ready : Over(s)
      BY <1>0, <3>1 DEF IInv, SessionInv, TypeOK, Sessions
    <3>3. \A t \in Turns : pc[t] # "idle" => Over(session[t])'
      BY <2>0, <2>1, <3>2 DEF OwnerFrame, turnVars, IInv, TurnInv, Over
    <3> QED
      BY <2>0, <3>1, <3>3
      DEF OwnerFrame, Reset, IInv, GateInv, OneTurnUnlessLost, ShutGateIsHeld, Admitted,
        Launching, turnVars
  <2>3. CASE ~(ResetTurns \/ BuildOk)
    <3>1. running' = running /\ leaked' = leaked
      BY <1>1, <2>3
        DEF OwnerAction, OwnerStep, Open, FinishGate, Expire, FinishAccept, FinishDone,
            FinishError, Mark, Disable, Kill, BuildFail, gateVars, ghostVars
    <3> QED
      BY <2>0, <2>1, <3>1
      DEF OwnerFrame, IInv, GateInv, OneTurnUnlessLost, ShutGateIsHeld, Admitted,
        Launching, turnVars
  <2> QED
    BY <2>2, <2>3
<1>2. ASSUME NEW t \in Turns, TurnAction(t)
      PROVE GateInv' /\ OneTurnUnlessLost' /\ ShutGateIsHeld'
  <2>0. TurnFrame(t)
    BY <1>0, <1>2, TurnKeepsFrame
  <2> USE <1>0, <2>0 DEF TurnFrame, Goto, Step, Leave, ReleaseTurn, Reset, GoOn, gateVars,
         sessionVars, authVars, ownerVars, turnVars, ghostVars, IInv, SessionInv, TurnInv,
         GateInv, OneTurnUnlessLost, ShutGateIsHeld, Admitted, Launching, Holding, Over,
         TypeOK, Labels
  <2>1. CASE Request(t)
    BY <2>1 DEF Request
  <2>2. CASE Claim(t)
    <3>1. CASE running \/ closing
      <4>1. pc[t] = "claim" /\ Leave(t) /\ UNCHANGED <<running, enabled, lost, leaked>>
        BY <2>2, <3>1 DEF Claim
      <4> QED
        BY <2>2, <3>1, <4>1
    <3>2. CASE ~(running \/ closing)
      <4>1. pc[t] = "claim" /\ Goto(t, "check") /\ running' /\ UNCHANGED <<session, lost, leaked>>
        BY <2>2, <3>2 DEF Claim
      <4> QED
        BY <2>2, <3>2, <4>1
    <3> QED
      BY <2>2, <3>1, <3>2 DEF Claim
  <2>3. CASE Check(t)
    BY <2>3 DEF Check
  <2>4. CASE ExpiredTold(t)
    BY <2>4 DEF ExpiredTold
  <2>5. CASE ExpiredLeft(t)
    BY <2>5 DEF ExpiredLeft
  <2>6. CASE Say(t)
    BY <2>6 DEF Say
  <2>7. CASE Prompt(t)
    BY <2>7 DEF Prompt
  <2>8. CASE Refused(t)
    <3>1. CASE Goto(t, "report")
      BY <2>8, <3>1 DEF Refused, Decided
    <3>2. CASE Goto(t, "cleanup")
      BY <2>8, <3>2 DEF Refused, Decided
    <3> QED
      BY <2>8, <3>1, <3>2 DEF Refused, Decided
  <2>9. CASE GuardEnter(t)
    BY <2>9 DEF GuardEnter
  <2>10. CASE GuardCheck(t)
    <3>1. CASE Over(session[t])
      <4>1. /\ pc[t] = "guard" /\ Goto(t, "report")
            /\ UNCHANGED <<running, session, lost, leaked, finishing, revoked>>
        BY <2>10, <3>1 DEF GuardCheck, Decided
      <4>2. Launching' \subseteq Launching /\ Holding' = Holding
        BY <4>1
      <4>3. \A u \in Turns : pc'[u] = "check" <=> pc[u] = "check"
        BY <4>1
      <4>4. GateInv'
        <5>1. \A u \in Turns : Admitted(u)' => Admitted(u)
          BY <4>2, <4>3
        <5> QED
          BY <4>1, <4>3, <5>1
      <4>5. OneTurnUnlessLost' /\ ShutGateIsHeld'
        BY <4>1, <4>2
      <4> QED
        BY <4>4, <4>5
    <3>2. CASE ~Over(session[t])
      <4>1. pc[t] = "guard" /\ Goto(t, "spawn") /\ UNCHANGED <<running, session, lost, leaked>>
        BY <2>10, <3>2 DEF GuardCheck, Decided
      <4> QED
        BY <2>10, <3>2, <4>1
    <3> QED
      BY <2>10, <3>1, <3>2 DEF GuardCheck, Decided
  <2>11. CASE Spawn(t)
    <3>1. CASE Goto(t, "feed")
      BY <2>11, <3>1 DEF Spawn, Decided
    <3>2. CASE Goto(t, "cleanup")
      BY <2>11, <3>2 DEF Spawn, Decided
    <3> QED
      BY <2>11, <3>1, <3>2 DEF Spawn, Decided
  <2>12. CASE SpawnFail(t)
    <3>1. CASE Goto(t, "report")
      BY <2>12, <3>1 DEF SpawnFail, Decided
    <3>2. CASE Goto(t, "cleanup")
      BY <2>12, <3>2 DEF SpawnFail, Decided
    <3> QED
      BY <2>12, <3>1, <3>2 DEF SpawnFail, Decided
  <2>13. CASE Stream(t)
    <3>1. /\ pc[t] \in Streaming /\ pc'[t] \in Streaming \cup {"cleanup"}
          /\ UNCHANGED <<running, session, lost, leaked, finishing, revoked>>
      BY <2>13, StreamEffect, SMTT(20)
    <3>2. Launching' \subseteq Launching /\ Holding' = Holding /\ t \in Launching
      BY <3>1
    <3>3. \A u \in Turns : pc'[u] = "check" <=> pc[u] = "check"
      BY <3>1
    <3>4. GateInv'
      <4>1. \A u \in Turns : Admitted(u)' => Admitted(u)
        BY <3>2, <3>3
      <4> QED
        BY <3>1, <3>3, <4>1
    <3>5. OneTurnUnlessLost' /\ ShutGateIsHeld'
      BY <3>1, <3>2
    <3> QED
      BY <3>4, <3>5
  <2>14. CASE Cleanup(t)
    BY <2>14 DEF Cleanup
  <2>15. CASE Release(t)
    BY <2>15 DEF Release
  <2>16. CASE CancelledAgain(t)
    BY <2>16 DEF CancelledAgain
  <2> QED
    BY <1>2, <2>1, <2>2, <2>3, <2>4, <2>5, <2>6, <2>7, <2>8, <2>9, <2>10, <2>11, <2>12, <2>13,
       <2>14, <2>15, <2>16
      DEF TurnAction, TurnStep
<1>3. CASE UNCHANGED vars
  BY <1>3
    DEF vars, gateVars, sessionVars, authVars, ownerVars, turnVars, ghostVars, IInv, GateInv,
        OneTurnUnlessLost, ShutGateIsHeld, Admitted, Launching, Holding, Over
<1> QED
  BY <1>1, <1>2, <1>3, NextIsTurnAction DEF Next, OwnerAction

(* The transcript: a session that keeps its gate is written by one turn.    *)
LEMMA TranscriptKept == ASSUME IInv, [Next]_vars PROVE TranscriptInv' /\ AnswersFollow'
<1>0. TypeOK' /\ TypeOK
  BY TypeKept DEF IInv
<1>1. CASE OwnerAction
  <2>0. OwnerFrame
    BY <1>1, OwnerKeepsFrame
  <2>1. CASE Mark
    <3>1. /\ victim \in Sessions /\ messages'[victim] = <<>> /\ revoked' = revoked \cup {victim}
          /\ \A s \in Sessions \ {victim} : messages'[s] = messages[s]
      BY <1>0, <2>1 DEF Mark, IInv, OwnerInv, TypeOK, Sessions
    <3>2. TranscriptInv'
      <4>1. \A s \in revoked' : messages'[s] = <<>>
        BY <1>0, <3>1 DEF IInv, TranscriptInv, TypeOK
      <4>2. \A t \in Turns :
              \/ session[t] \in revoked' \/ pc[t] = "idle"
              \/ messages'[session[t]] = messages[session[t]]
        BY <3>1, HasSession
      <4> QED
        BY <2>0, <3>1, <4>1, <4>2 DEF OwnerFrame, turnVars, IInv, TranscriptInv, Wrote
    <3>3. AnswersFollow'
      BY <2>0, <3>1 DEF OwnerFrame, IInv, AnswersFollow
    <3> QED
      BY <3>2, <3>3
  <2>2. CASE ~Mark
    <3>1. messages' = messages /\ revoked' = revoked
      BY <1>1, <2>2
        DEF OwnerAction, OwnerStep, Open, FinishGate, Expire, FinishAccept, FinishDone,
            FinishError, Disable, Kill, ResetTurns, BuildOk, BuildFail, sessionVars
    <3> QED
      BY <2>0, <3>1 DEF OwnerFrame, turnVars, IInv, TranscriptInv, Wrote, AnswersFollow
  <2> QED
    BY <2>1, <2>2
<1>2. ASSUME NEW t \in Turns, TurnAction(t), ~(Say(t) \/ Tool(t) \/ (Stream(t) /\ Flush(t)))
      PROVE TranscriptInv' /\ AnswersFollow'
  <2>0. TurnFrame(t)
    BY <1>0, <1>2, TurnKeepsFrame
  <2>1. messages' = messages /\ lost \subseteq lost'
    <3>1. CASE Stream(t)
      BY <1>0, <1>2, <3>1, StreamEffect DEF ghostVars
    <3>2. CASE ~Stream(t)
      BY <1>2, <3>2
        DEF TurnAction, TurnStep, Request, Claim, Check, ExpiredTold, ExpiredLeft, Prompt,
            Refused, GuardEnter, GuardCheck, Spawn, SpawnFail, Cleanup, Release,
            CancelledAgain, ReleaseTurn, Decided, ghostVars
    <3> QED
      BY <3>1, <3>2
  <2>2. AnswersFollow'
    BY <2>1 DEF IInv, AnswersFollow
  <2>3. \A r \in revoked' : messages'[r] = <<>>
    BY <2>0, <2>1 DEF TurnFrame, sessionVars, IInv, TranscriptInv
  <2>4. \A u \in Turns \ {t} : u \in asked' <=> u \in asked
    <3>1. CASE Stream(t)
      BY <1>0, <3>1, StreamEffect DEF ghostVars
    <3>2. CASE ~Stream(t)
      BY <1>2, <3>2
        DEF TurnAction, TurnStep, Request, Claim, Check, ExpiredTold, ExpiredLeft, Prompt,
            Refused, GuardEnter, GuardCheck, Spawn, SpawnFail, Cleanup, Release,
            CancelledAgain, Leave, Decided, ghostVars
    <3> QED
      BY <3>1, <3>2
  <2>5. ASSUME NEW u \in Turns \ {t} PROVE Wrote(u)'
    <3>1. Wrote(u) /\ pc'[u] = pc[u] /\ session'[u] = session[u] /\ revoked' = revoked
      BY <2>0 DEF TurnFrame, sessionVars, IInv, TranscriptInv
    <3> QED
      BY <2>1, <2>4, <3>1 DEF Wrote
  <2>6. Wrote(t)'
    <3>0. Wrote(t)
      BY DEF IInv, TranscriptInv
    <3> USE <1>0, <2>1, <3>0 DEF TypeOK, Goto, Step, sessionVars, turnVars, ghostVars
    <3>1. CASE Prompt(t)
      <4>1. /\ pc[t] = "prompt" /\ pc'[t] = "admit" /\ UNCHANGED <<session, lost, revoked>>
            /\ LET now == messages[session[t]] IN
                 now # <<>> /\ now[Len(now)] = [turn |-> t, role |-> "user"] => t \in asked'
        BY <3>1 DEF Prompt
      <4> QED
        BY <4>1, SMTT(20) DEF Wrote
    <3>2. CASE GuardEnter(t)
      <4>1. pc[t] = "admit" /\ pc'[t] = "guard" /\ UNCHANGED <<session, lost, revoked, asked>>
        BY <3>2 DEF GuardEnter
      <4> QED
        BY <4>1 DEF Wrote
    <3>3. CASE GuardCheck(t)
      <4>1. /\ pc[t] = "guard" /\ UNCHANGED <<session, lost, revoked>>
            /\ \/ pc'[t] = "report"
               \/ pc'[t] = "spawn" /\ session[t] \notin revoked /\ asked' = asked
        BY <3>3 DEF GuardCheck, Over, Decided
      <4> QED
        BY <4>1 DEF Wrote
    <3>4. CASE Spawn(t)
      <4>1. /\ pc[t] = "spawn" /\ UNCHANGED <<session, lost, revoked>>
            /\ pc'[t] = "cleanup" \/ pc'[t] = "feed"
        BY <3>4 DEF Spawn, Decided
      <4> QED
        BY <4>1 DEF Wrote
    <3>5. CASE Stream(t)
      <4>1. /\ pc[t] \in Streaming /\ pc'[t] \in Streaming
            /\ UNCHANGED <<session, lost, revoked, asked>>
        BY <1>2, <3>5, StreamEffect
      <4> QED
        BY <4>1 DEF Wrote
    <3>6. CASE Refused(t) \/ SpawnFail(t)
      <4>1. /\ pc[t] \in {"prompt", "admit", "spawn"}
            /\ UNCHANGED <<session, lost, revoked>>
            /\ pc'[t] = "report" \/ pc'[t] = "cleanup"
        BY <3>6 DEF Refused, SpawnFail, Decided
      <4> QED
        BY <4>1, SMTT(20) DEF Wrote
    <3>7. CASE ~(\/ Prompt(t) \/ GuardEnter(t) \/ GuardCheck(t) \/ Spawn(t) \/ Stream(t)
                \/ Refused(t) \/ SpawnFail(t))
      <4>1. pc'[t] \notin {"prompt", "admit", "guard", "spawn"} \cup Streaming
        BY <1>2, <3>7
          DEF TurnAction, TurnStep, Request, Claim, Check, ExpiredTold, ExpiredLeft,
              Cleanup, Release, CancelledAgain, Leave
      <4> QED
        BY <4>1 DEF Wrote
    <3> QED
      BY <3>1, <3>2, <3>3, <3>4, <3>5, <3>6, <3>7
  <2> QED
    BY <2>2, <2>3, <2>5, <2>6 DEF TranscriptInv
<1>3. ASSUME NEW t \in Turns, Say(t) \/ Tool(t) \/ (Stream(t) /\ Flush(t))
      PROVE TranscriptInv' /\ AnswersFollow'
  <2> DEFINE s == session[t]
             Last(m) == m[Len(m)]
             question == <<[turn |-> t, role |-> "user"]>>
             record == Pending(t) \o <<[turn |-> t, role |-> "agent"]>>
  <2>0. /\ TurnFrame(t) /\ s \in Sessions /\ Wrote(t)
        /\ pc[t] = "say" \/ (pc[t] \in Streaming /\ ~Say(t))
    <3>1. TurnAction(t)
      BY <1>3 DEF TurnAction, TurnStep, Stream
    <3>2. pc[t] = "say" \/ (pc[t] \in Streaming /\ ~Say(t))
      BY <1>0, <1>3, StreamEffect DEF Say, Tool, Step
    <3>3. pc[t] # "idle"
      BY <3>2
    <3> QED
      BY <1>0, <3>1, <3>2, <3>3, TurnKeepsFrame, HasSession DEF IInv, TranscriptInv
  <2>1. /\ UNCHANGED <<session, lost, asked, revoked>>
        /\ \/ pc[t] = "say" /\ pc'[t] = "prompt" /\ messages' = AddMessages(s, question)
           \/ /\ pc[t] \in Streaming /\ pc'[t] = "yield" /\ messages' = AddMessages(s, record)
           \/ /\ pc[t] \in Streaming /\ pc'[t] = "cleanup"
              /\ messages' = AddMessages(s, Pending(t))
    <3>1. CASE Say(t)
      BY <1>0, <3>1 DEF Say, Step, Goto, sessionVars, ghostVars, TypeOK, AddMessage
    <3>2. CASE Tool(t)
      BY <1>0, <3>2 DEF Tool, Step, Goto, sessionVars, ghostVars, TypeOK
    <3>3. CASE Flush(t) /\ pc[t] \in Streaming
      BY <1>0, <3>3 DEF Flush, Goto, sessionVars, ghostVars, TypeOK
    <3> QED
      BY <1>0, <1>3, <3>1, <3>2, <3>3, StreamEffect
  <2>2. PICK new \in Seq(Message) :
          /\ messages' = AddMessages(s, new)
          /\ \A i \in 1 .. Len(new) : new[i].turn = t
          /\ pc[t] = "say" => new = question
          /\ pc'[t] = "yield" => new # <<>>
    <3>1. /\ question \in Seq(Message) /\ \A i \in 1 .. Len(question) : question[i].turn = t
          /\ record \in Seq(Message) /\ \A i \in 1 .. Len(record) : record[i].turn = t
          /\ Pending(t) \in Seq(Message) /\ \A i \in 1 .. Len(Pending(t)) : Pending(t)[i].turn = t
          /\ record # <<>>
      <4>1. question \in Seq(Message) /\ Len(question) = 1 /\ question[1].turn = t
        BY OwnMessages
      <4>2. /\ record \in Seq(Message) /\ record # <<>>
            /\ \A i \in 1 .. Len(record) : record[i].turn = t
            /\ Pending(t) \in Seq(Message)
            /\ \A i \in 1 .. Len(Pending(t)) : Pending(t)[i].turn = t
        BY OwnMessages
      <4> QED
        BY <4>1, <4>2
    <3> HIDE DEF question, record
    <3> QED
      BY <2>1, <3>1
  <2>3. \A r \in Sessions \ {s} : messages'[r] = messages[r]
    BY <1>0, <2>0, <2>2, Added
  <2>4. \A u \in Turns \ {t} : u \in Launching /\ session[u] = s => s \in lost
    BY <2>0 DEF IInv, OneTurnUnlessLost, Launching
  <2>5. CASE s \in revoked
    <3>1. messages' = messages
      BY <1>0, <2>0, <2>2, <2>5, Added
    <3>2. AnswersFollow' /\ \A r \in revoked' : messages'[r] = <<>>
      BY <2>1, <3>1 DEF IInv, AnswersFollow, TranscriptInv
    <3>3. ASSUME NEW u \in Turns \ {t} PROVE Wrote(u)'
      <4>1. Wrote(u) /\ pc'[u] = pc[u]
        BY <2>0 DEF IInv, TranscriptInv, TurnFrame
      <4> QED
        BY <2>1, <3>1, <4>1 DEF Wrote
    <3>4. Wrote(t)'
      BY <2>0, <2>1, <2>5 DEF Wrote
    <3> QED
      BY <3>2, <3>3, <3>4 DEF TranscriptInv
  <2>6. CASE s \notin revoked
    <3>1. \A r \in revoked' : messages'[r] = <<>>
      BY <1>0, <2>1, <2>3, <2>6 DEF IInv, TranscriptInv, TypeOK
    <3>2. ASSUME NEW u \in Turns \ {t} PROVE Wrote(u)'
      <4>1. Wrote(u) /\ pc'[u] = pc[u] /\ (pc[u] # "idle" => session[u] \in Sessions)
        BY <2>0, HasSession DEF IInv, TranscriptInv, TurnFrame
      <4>2. u \in Launching => s \in lost \/ session[u] # s
        BY <2>4
      <4> QED
        BY <2>1, <2>3, <4>1, <4>2 DEF Wrote, Launching
    <3>3. CASE s \in lost
      <4>1. AnswersFollow'
        BY <2>1, <2>3, <3>3 DEF IInv, AnswersFollow
      <4>2. Wrote(t)'
        BY <2>0, <2>1, <3>3 DEF Wrote
      <4> QED
        BY <3>1, <3>2, <4>1, <4>2 DEF TranscriptInv
    <3>4. CASE s \notin lost
      <4>1. Ordered(messages[s])
        BY <2>0, <3>4 DEF IInv, AnswersFollow, Ordered
      <4>2. pc[t] \in Streaming => messages[s] # <<>> /\ Last(messages[s]).turn = t
        BY <2>0, <2>6, <3>4 DEF Wrote
      <4>3. pc[t] = "say" => new[1].role = "user"
        BY <2>2
      <4>4. new # <<>> =>
              new[1].role = "user" \/ (messages[s] # <<>> /\ Last(messages[s]).turn = t)
        <5>1. CASE pc[t] = "say"
          BY <4>3, <5>1
        <5>2. CASE pc[t] \in Streaming
          BY <4>2, <5>2
        <5> QED
          BY <2>0, <5>1, <5>2
      <4>5. /\ Ordered(messages'[s])
            /\ new # <<>> => messages'[s] # <<>> /\ Last(messages'[s]) = Last(new)
        <5> HIDE DEF s
        <5> QED
          BY <1>0, <2>0, <2>2, <2>6, <4>1, <4>4, AddedOwn
      <4>6. AnswersFollow'
        <5>1. ASSUME NEW r \in Sessions, r \notin lost PROVE Ordered(messages'[r])
          <6>1. Ordered(messages[r])
            BY <5>1 DEF IInv, AnswersFollow, Ordered
          <6> QED
            BY <2>3, <4>5, <5>1, <6>1
        <5> QED
          BY <2>1, <5>1 DEF AnswersFollow, Ordered
      <4>7. Wrote(t)'
        <5>1. CASE pc[t] = "say"
          <6>1. messages'[s] # <<>> /\ Last(messages'[s]) = [turn |-> t, role |-> "user"]
            <7>1. question # <<>> /\ Last(question) = [turn |-> t, role |-> "user"]
              OBVIOUS
            <7> HIDE DEF question
            <7> QED
              BY <2>2, <4>5, <5>1, <7>1
          <6> QED
            BY <2>1, <5>1, <6>1 DEF Wrote
        <5>2. CASE pc'[t] = "yield"
          <6>1. new # <<>> /\ Last(new).turn = t
            BY <2>2, <5>2, EmptySeq, LenProperties
          <6>2. messages'[s] # <<>> /\ Last(messages'[s]).turn = t
            BY <2>1, <4>2, <4>5, <5>2, <6>1
          <6> QED
            BY <2>1, <5>2, <6>2 DEF Wrote
        <5>3. CASE pc'[t] = "cleanup"
          BY <5>3 DEF Wrote
        <5> QED
          BY <2>1, <5>1, <5>2, <5>3
      <4> QED
        BY <3>1, <3>2, <4>6, <4>7 DEF TranscriptInv
    <3> QED
      BY <3>3, <3>4
  <2> QED
    BY <2>5, <2>6
<1>4. CASE UNCHANGED vars
  BY <1>4
    DEF vars, gateVars, sessionVars, authVars, ownerVars, turnVars, ghostVars, IInv,
        TranscriptInv, Wrote, AnswersFollow
<1> QED
  BY <1>1, <1>2, <1>3, <1>4, NextIsTurnAction DEF Next, OwnerAction

-----------------------------------------------------------------------------
(* The theorems.                                                            *)

(* IInv is an invariant: for any turns, sessions and history, whatever      *)
(* order their steps come in.                                               *)
THEOREM Invariance == SafeSpec => []IInv
<1>1. IInv /\ [Next]_vars => IInv'
  <2> SUFFICES ASSUME IInv, [Next]_vars PROVE IInv'
    OBVIOUS
  <2>1. TypeOK' /\ LaunchesCounted'
    BY TypeKept, LaunchesKept DEF IInv
  <2>2. SessionInv' /\ OwnerInv'
    BY SessionsKept
  <2>3. TurnInv' /\ AgentHasTurn' /\ QuietStaysQuiet'
    BY AgentsKept
  <2>4. GateInv' /\ OneTurnUnlessLost' /\ ShutGateIsHeld'
    BY GateKept
  <2>5. TranscriptInv' /\ AnswersFollow'
    BY TranscriptKept
  <2> QED
    BY <2>1, <2>2, <2>3, <2>4, <2>5 DEF IInv
<1> QED
  BY InitIInv, <1>1, PTL DEF SafeSpec

(* Every variable keeps its type.                                           *)
THEOREM TypeCorrect == SafeSpec => []TypeOK
<1>1. IInv => TypeOK
  BY DEF IInv
<1> QED
  BY Invariance, <1>1, PTL

(* No agent is left without the turn that reads from it or kills it, also   *)
(* when the browser leaves while it is being started.                       *)
THEOREM AgentHasTurnAlways == SafeSpec => []AgentHasTurn
<1>1. IInv => AgentHasTurn
  BY DEF IInv
<1> QED
  BY Invariance, <1>1, PTL

(* No agent of a session runs once the owner has killed them, whatever its  *)
(* turns were doing at that moment.                                         *)
THEOREM QuietStaysQuietAlways == SafeSpec => []QuietStaysQuiet
<1>1. IInv => QuietStaysQuiet
  BY DEF IInv
<1> QED
  BY Invariance, <1>1, PTL

(* An agent is started on a prompt that ends in the message its turn was    *)
(* sent with.                                                               *)
THEOREM PromptIsAskedAlways == SafeSpec => []PromptIsAsked
<1>1. IInv => PromptIsAsked
  BY DEF IInv, TranscriptInv, Wrote, PromptIsAsked
<1> QED
  BY Invariance, <1>1, PTL

(* Two turns of a session overlap only when the session lost its gate to a  *)
(* turn of another.                                                         *)
THEOREM OneTurnUnlessLostAlways == SafeSpec => []OneTurnUnlessLost
<1>1. IInv => OneTurnUnlessLost
  BY DEF IInv
<1> QED
  BY Invariance, <1>1, PTL

(* The gate is never shut with nobody to open it, but for a turn whose      *)
(* browser went away.                                                       *)
THEOREM ShutGateIsHeldAlways == SafeSpec => []ShutGateIsHeld
<1>1. IInv => ShutGateIsHeld
  BY DEF IInv
<1> QED
  BY Invariance, <1>1, PTL

(* What an agent says and does is recorded behind the message of its turn,  *)
(* in whatever is kept of the transcript.                                   *)
THEOREM AnswersFollowAlways == SafeSpec => []AnswersFollow
<1>1. IInv => AnswersFollow
  BY DEF IInv
<1> QED
  BY Invariance, <1>1, PTL
-----------------------------------------------------------------------------
(* The sessions are those of SessionSlot.                                   *)

\* Where a session is in its life.
slotOf(s) ==
  IF s \in revoked THEN "revoked"
  ELSE IF s > opened THEN "unused"
  ELSE IF s # stored THEN "removed"
  ELSE IF s \in finishing THEN "closing" ELSE "open"

slotState == [s \in Sessions |-> slotOf(s)]

Slot == INSTANCE SessionSlot WITH Codes <- Sessions, state <- slotState

(* Opening the next session is one step: the one it replaces stops being    *)
(* reachable, those that are over stay as they are.                         *)
LEMMA SlotOpen == ASSUME IInv, Open PROVE Slot!Open(opened + 1)
<1> DEFINE s == opened + 1
<1>1. /\ s \in Sessions /\ opened \in Nat /\ stored \in Nat /\ stored <= opened
      /\ revoked \subseteq 1 .. opened /\ stored' = s /\ opened' = s
      /\ UNCHANGED <<revoked, finishing>>
  BY TurnsAssumption DEF IInv, TypeOK, SessionInv, Open, Sessions
<1>2. finishing \subseteq 1 .. opened
  BY DEF IInv, SessionInv
<1>3. slotState[s] = "unused" /\ slotState'[s] = "open"
  BY <1>1, <1>2 DEF slotState, slotOf
<1>4. ASSUME NEW d \in Sessions, d # s
      PROVE  slotState'[d] = IF slotState[d] \in Slot!Reachable THEN "removed"
                             ELSE slotState[d]
  BY <1>1, <1>4 DEF slotState, slotOf, Slot!Reachable, Sessions
<1>5. slotState' = [d \in Sessions |-> slotState'[d]]
  BY DEF slotState
<1>6. \A d \in Sessions :
        slotState'[d] = CASE d = s                             -> "open"
                          [] slotState[d] \in Slot!Reachable   -> "removed"
                          [] OTHER                             -> slotState[d]
  <2>1. slotState[s] \notin Slot!Reachable
    BY <1>3 DEF Slot!Reachable
  <2> QED
    BY <1>3, <1>4, <2>1
<1> QED
  BY <1>1, <1>3, <1>5, <1>6 DEF Slot!Open

(* One session goes from a place to another, the others stay.               *)
LEMMA SlotMoves ==
  ASSUME NEW s \in Sessions, NEW from, NEW to, slotState[s] \in from, slotState'[s] = to,
         \A d \in Sessions \ {s} : slotState'[d] = slotState[d]
  PROVE  Slot!Move(s, from, to)
  BY DEF slotState, Slot!Move

(* What leaves every session where it is is a stutter.                      *)
LEMMA SlotSame ==
  ASSUME UNCHANGED <<opened, stored, finishing, revoked>> PROVE UNCHANGED slotState
  BY DEF slotState, slotOf

(* A finish is accepted once.                                               *)
LEMMA SlotAccept == ASSUME IInv, FinishAccept PROVE [Slot!Next]_slotState
<1>1. /\ stored \in Sessions /\ stored <= opened /\ finishing' = finishing \cup {stored}
      /\ opened \in Nat /\ UNCHANGED <<opened, stored, revoked>>
  BY TurnsAssumption DEF IInv, TypeOK, SessionInv, OwnerInv, FinishAccept, Sessions
<1>2. \A d \in Sessions \ {stored} : slotState'[d] = slotState[d]
  BY <1>1 DEF slotState, slotOf
<1>3. CASE stored \in revoked \cup finishing
  <2>1. slotState'[stored] = slotState[stored]
    BY <1>1, <1>3 DEF slotState, slotOf
  <2> QED
    BY <1>2, <2>1 DEF slotState
<1>4. CASE stored \notin revoked \cup finishing
  <2>1. slotState[stored] \in {"open"} /\ slotState'[stored] = "closing"
    BY <1>1, <1>4 DEF slotState, slotOf, Sessions
  <2>2. Slot!Accept(stored)
    BY <1>1, <1>2, <2>1, SlotMoves DEF Slot!Accept
  <2> QED
    BY <1>1, <2>2 DEF Slot!Next
<1> QED
  BY <1>3, <1>4

(* A session that was finished, or whose time has come, is removed.         *)
LEMMA SlotRemove ==
  ASSUME IInv, FinishDone \/ Expire PROVE [Slot!Next]_slotState
<1>1. /\ stored \in Sessions /\ stored <= opened /\ stored' = 0
      /\ opened \in Nat /\ UNCHANGED <<opened, finishing, revoked>>
  BY TurnsAssumption
     DEF IInv, TypeOK, SessionInv, OwnerInv, FinishDone, Expire, Sessions
<1>2. \A d \in Sessions \ {stored} : slotState'[d] = slotState[d]
  BY <1>1 DEF slotState, slotOf, Sessions
<1>3. CASE stored \in revoked
  <2>1. slotState'[stored] = slotState[stored]
    BY <1>1, <1>3 DEF slotState, slotOf
  <2> QED
    BY <1>2, <2>1 DEF slotState
<1>4. CASE stored \notin revoked
  <2>1. slotState[stored] \in Slot!Reachable /\ slotState'[stored] = "removed"
    BY <1>1, <1>4 DEF slotState, slotOf, Slot!Reachable, Sessions
  <2>2. Slot!Remove(stored)
    BY <1>1, <1>2, <2>1, SlotMoves DEF Slot!Remove
  <2> QED
    BY <1>1, <2>2 DEF Slot!Next
<1> QED
  BY <1>3, <1>4

(* The session that is marked has left the store before.                    *)
LEMMA SlotRevoke == ASSUME IInv, Mark PROVE [Slot!Next]_slotState
<1>1. /\ victim \in Sessions /\ victim <= opened /\ victim # stored /\ opened \in Nat
      /\ revoked' = revoked \cup {victim} /\ UNCHANGED <<opened, stored, finishing>>
  BY TurnsAssumption
     DEF IInv, TypeOK, SessionInv, OwnerInv, Clearing, Mark, Sessions
<1>2. \A d \in Sessions \ {victim} : slotState'[d] = slotState[d]
  BY <1>1 DEF slotState, slotOf
<1>3. CASE victim \in revoked
  <2>1. slotState'[victim] = slotState[victim]
    BY <1>1, <1>3 DEF slotState, slotOf
  <2> QED
    BY <1>2, <2>1 DEF slotState
<1>4. CASE victim \notin revoked
  <2>1. slotState[victim] \in {"removed"} /\ slotState'[victim] = "revoked"
    BY <1>1, <1>4 DEF slotState, slotOf, Sessions
  <2>2. Slot!Revoke(victim)
    BY <1>1, <1>2, <2>1, SlotMoves DEF Slot!Revoke
  <2> QED
    BY <1>1, <2>2 DEF Slot!Next
<1> QED
  BY <1>3, <1>4

(* Every step of the owner or of a turn is a step of the slot or a stutter. *)
LEMMA SlotStep == ASSUME IInv, [Next]_vars PROVE [Slot!Next]_slotState
<1>1. CASE Open
  <2>1. opened + 1 \in Sessions
    BY <1>1, TurnsAssumption DEF IInv, TypeOK, Open, Sessions
  <2> QED
    BY <1>1, <2>1, SlotOpen DEF Slot!Next
<1>2. CASE FinishAccept
  BY <1>2, SlotAccept
<1>3. CASE FinishDone \/ Expire
  BY <1>3, SlotRemove
<1>4. CASE Mark
  BY <1>4, SlotRevoke
<1>5. CASE \/ FinishGate \/ FinishError \/ Disable \/ Kill \/ ResetTurns \/ BuildOk
           \/ BuildFail \/ UNCHANGED vars
  BY <1>5, SlotSame DEF FinishGate, FinishError, Disable, Kill, ResetTurns, BuildOk,
    BuildFail, vars, sessionVars
<1>6. ASSUME NEW t \in Turns, TurnAction(t) PROVE [Slot!Next]_slotState
  <2>1. TurnFrame(t)
    BY <1>6, TurnKeepsFrame DEF IInv
  <2> QED
    BY <2>1, SlotSame DEF TurnFrame, sessionVars
<1> QED
  BY <1>1, <1>2, <1>3, <1>4, <1>5, <1>6, NextIsTurnAction DEF Next, OwnerStep

(* The turns and the owner that finishes, replaces and expires sessions     *)
(* under them implement SessionSlot: a session is revoked only after it has *)
(* left the store, and a new one is reachable alone.                        *)
THEOREM TurnsImplementSlot == SafeSpec => Slot!SafeSpec
<1>1. Init => Slot!Init
  BY TurnsAssumption DEF Init, Slot!Init, slotState, slotOf, Sessions
<1>2. IInv /\ [Next]_vars => [Slot!Next]_slotState
  BY SlotStep
<1> QED
  BY <1>1, <1>2, Invariance, PTL DEF SafeSpec, Slot!SafeSpec
=================================================================================
