-------------------------- MODULE RecoveryPageProofs --------------------------
(***************************************************************************)
(* The safety properties of RecoveryPage for every set of launch codes and *)
(* every bound on deadlines, troubles and calls, by the inductive          *)
(* invariant IInv.                                                         *)
(***************************************************************************)
EXTENDS RecoveryPage, FiniteSetTheorems, FunctionTheorems, TLAPS

Stages == {"sent", "claimed", "relayed", "renewed"} \cup Answers

\* The part of IInv that is about the calls.
Calls(S, last) ==
  /\ S \subseteq Call /\ IsFiniteSet(S) /\ Cardinality(S) <= MaxCalls
  /\ \A c \in S : c.deadline <= last

\* S and T hold as many requests of a finish, none or one.
SameEnds(S, T) ==
  /\ Ends(S) = {} => Ends(T) = {}
  /\ (\E c \in S : Ends(S) = {c}) => \E c \in T : Ends(T) = {c}

-----------------------------------------------------------------------------
(* Sets of calls.                                                           *)

(* A call that is made fits in when there is room, and is sent.             *)
LEMMA Made ==
  ASSUME TypeOK, NEW kind \in Kinds
  PROVE  /\ Request(kind) \in Call /\ Request(kind).deadline = 0
         /\ Request(kind).kind = kind
  BY PageAssumption DEF TypeOK, Request, Call

(* Adding a call keeps the bound when there is room for it.                 *)
LEMMA Added ==
  ASSUME NEW S, NEW last \in Nat, Calls(S, last), NEW c \in Call, c.deadline <= last,
         Cardinality(S) < MaxCalls
  PROVE  Calls(S \cup {c}, last)
<1>1. /\ IsFiniteSet(S) /\ Cardinality(S) \in Nat
  BY FS_CardinalityType DEF Calls
<1>2. /\ IsFiniteSet(S \cup {c})
      /\ Cardinality(S \cup {c}) = IF c \in S THEN Cardinality(S) ELSE Cardinality(S) + 1
  BY <1>1, FS_AddElement
<1>3. Cardinality(S \cup {c}) <= MaxCalls
  BY <1>1, <1>2, PageAssumption
<1> QED
  BY <1>2, <1>3 DEF Calls

(* Removing one keeps it, and makes room.                                   *)
LEMMA Removed ==
  ASSUME NEW S, NEW last \in Nat, Calls(S, last), NEW c \in S
  PROVE  Calls(S \ {c}, last) /\ Cardinality(S \ {c}) < MaxCalls
<1>1. /\ IsFiniteSet(S) /\ Cardinality(S) \in Nat
  BY FS_CardinalityType DEF Calls
<1>2. IsFiniteSet(S \ {c}) /\ Cardinality(S \ {c}) = Cardinality(S) - 1
  BY <1>1, FS_RemoveElement
<1> QED
  BY <1>1, <1>2, PageAssumption DEF Calls

(* A call at another stage is a call of its kind.                           *)
LEMMA AtStage ==
  ASSUME NEW c \in Call, NEW stage \in Stages, NEW deadline \in 0 .. MaxDeadline
  PROVE  LET d == At(c, stage, deadline) IN
         d \in Call /\ d.kind = c.kind /\ d.deadline = deadline
  BY DEF At, Call, Stages

(* A call that goes on takes its own place and keeps its kind; one that is  *)
(* dropped is no request of a finish.                                       *)
LEMMA Moved ==
  ASSUME NEW S, NEW last \in Nat, Calls(S, last), NEW c \in S,
         NEW stage \in Stages, NEW deadline \in 0 .. MaxDeadline, deadline <= last,
         NEW T, \/ T = (S \ {c}) \cup {At(c, stage, deadline)}
                \/ T = S \ {c} /\ c.kind \in Orphans
  PROVE  Calls(T, last) /\ SameEnds(S, T)
<1>5. CASE T = S \ {c} /\ c.kind \in Orphans
  <2>1. Calls(T, last)
    BY <1>5, Removed
  <2>2. c \notin Ends(S) /\ Ends(T) = Ends(S)
    BY <1>5 DEF Ends, Orphans
  <2> QED
    BY <1>5, <2>1, <2>2 DEF SameEnds
<1>6. SUFFICES ASSUME T = (S \ {c}) \cup {At(c, stage, deadline)}
      PROVE Calls(T, last) /\ SameEnds(S, T)
  BY <1>5
<1> DEFINE d == At(c, stage, deadline)
<1>1. d \in Call /\ d.kind = c.kind /\ d.deadline = deadline
  BY AtStage DEF Calls
<1>2. Calls(T, last)
  <2>1. Calls(S \ {c}, last) /\ Cardinality(S \ {c}) < MaxCalls
    BY Removed
  <2>2. d \in Call /\ d.deadline <= last
    BY <1>1
  <2> HIDE DEF d
  <2>3. Calls((S \ {c}) \cup {d}, last)
    BY <2>1, <2>2, Added
  <2> QED
    BY <1>6, <2>3 DEF d
<1>3. Ends(T) = IF c \in Ends(S) THEN (Ends(S) \ {c}) \cup {d} ELSE Ends(S)
  BY <1>1, <1>6 DEF Ends
<1>4. ASSUME NEW e \in S, Ends(S) = {e} PROVE \E f \in T : Ends(T) = {f}
  <2>1. CASE c = e
    BY <1>3, <1>4, <1>6, <2>1
  <2>2. CASE c # e
    BY <1>3, <1>4, <1>6, <2>2
  <2> QED
    BY <2>1, <2>2
<1> QED
  BY <1>2, <1>3, <1>4 DEF SameEnds

(* A map does not make a finite set larger.                                 *)
LEMMA ImageFits ==
  ASSUME NEW S, IsFiniteSet(S), NEW f \in [S -> Call]
  PROVE  /\ IsFiniteSet({f[c] : c \in S})
         /\ Cardinality({f[c] : c \in S}) <= Cardinality(S)
<1>1. f \in Surjection(S, {f[c] : c \in S})
  BY DEF Surjection
<1> QED
  BY <1>1, FS_Surjection

(* The calls that outlive their page: no request of a finish is among them. *)
LEMMA Left ==
  ASSUME NEW S, NEW last \in Nat, Calls(S, last)
  PROVE  /\ Calls(Orphaned(S), last) /\ Ends(Orphaned(S)) = {}
         /\ \A c \in S : c.stage \in Answers => Cardinality(Orphaned(S)) < MaxCalls
         /\ Cardinality(S) < MaxCalls => Cardinality(Orphaned(S)) < MaxCalls
<1> DEFINE R == {c \in S : c.stage \in {"claimed", "relayed", "renewed"}}
           f == [c \in R |-> [c EXCEPT !.kind = IF c.kind \in Ending THEN "left" ELSE "stray"]]
<1>1. R \subseteq S /\ IsFiniteSet(S) /\ IsFiniteSet(R) /\ Cardinality(R) <= Cardinality(S)
      /\ Cardinality(R) \in Nat /\ Cardinality(S) \in Nat
  BY FS_Subset, FS_CardinalityType DEF Calls
<1>2. \A c \in R : /\ f[c] \in Call /\ f[c].kind \in Orphans
                   /\ f[c].deadline = c.deadline
  BY DEF Calls, Call, Kinds, Orphans
<1>3. Orphaned(S) = {f[c] : c \in R}
  BY DEF Orphaned
<1>4. f \in [R -> Call]
  BY <1>2
<1> HIDE DEF f, R
<1>5. IsFiniteSet(Orphaned(S)) /\ Cardinality(Orphaned(S)) <= Cardinality(R)
  <2>1. /\ IsFiniteSet({f[c] : c \in R})
        /\ Cardinality({f[c] : c \in R}) <= Cardinality(R)
    BY <1>1, <1>4, ImageFits
  <2> QED
    BY <2>1, <1>3
<1>6. Cardinality(Orphaned(S)) \in Nat
  BY <1>5, FS_CardinalityType
<1>7. Calls(Orphaned(S), last)
  BY <1>1, <1>2, <1>3, <1>5, <1>6, PageAssumption DEF Calls
<1>8. Ends(Orphaned(S)) = {}
  BY <1>2, <1>3 DEF Ends, Orphans
<1>9. ASSUME NEW c \in S, c.stage \in Answers
      PROVE  Cardinality(Orphaned(S)) < MaxCalls
  <2>1. R \subseteq S \ {c}
    BY <1>9 DEF Answers, R
  <2>2. IsFiniteSet(S \ {c}) /\ Cardinality(S \ {c}) = Cardinality(S) - 1
    BY <1>1, FS_RemoveElement
  <2>3. Cardinality(R) <= Cardinality(S \ {c})
    BY <2>1, <2>2, FS_Subset
  <2> QED
    BY <1>1, <1>5, <1>6, <2>2, <2>3, PageAssumption DEF Calls
<1> QED
  BY <1>1, <1>5, <1>6, <1>7, <1>8, <1>9, PageAssumption

-----------------------------------------------------------------------------
(* Kinds of steps.                                                          *)

\* The types of what the script keeps.
PageType ==
  /\ view \in {"work", "launch", "closed", "lost"} /\ finishing \in BOOLEAN
  /\ refused \in BOOLEAN /\ beating \in BOOLEAN /\ armed \in Nat /\ shown \in 0 .. renewed

(* The calls of a state, against a deadline that is as late or later.       *)
LEMMA Known ==
  ASSUME TypeOK, CallInv, NEW last \in Nat, renewed <= last
  PROVE  Calls(calls, last)
<1>1. \A c \in calls : c.deadline \in Nat
  BY DEF TypeOK, Call
<1> QED
  BY <1>1 DEF Calls, CallInv, TypeOK

(* A call that goes on while no deadline is taken back.                     *)
LEMMA Going ==
  ASSUME TypeOK, CallInv, NEW c \in calls, NEW stage \in Stages,
         NEW deadline \in 0 .. MaxDeadline, renewed' \in Nat, renewed <= renewed',
         deadline <= renewed', ToWith(c, stage, deadline)
  PROVE  Calls(calls', renewed') /\ SameEnds(calls, calls')
<1>1. Calls(calls, renewed')
  BY Known
<1>2. \/ calls' = (calls \ {c}) \cup {At(c, stage, deadline)}
      \/ calls' = calls \ {c} /\ c.kind \in Orphans
  BY DEF ToWith
<1> QED
  BY <1>1, <1>2, Moved

LEMMA GoingOn ==
  ASSUME TypeOK, CallInv, NEW c \in calls, NEW stage \in Stages, renewed' = renewed,
         To(c, stage)
  PROVE  Calls(calls', renewed') /\ SameEnds(calls, calls')
<1>1. /\ renewed' \in Nat /\ renewed <= renewed'
      /\ 0 \in 0 .. MaxDeadline /\ 0 <= renewed'
  BY PageAssumption DEF TypeOK
<1>2. ToWith(c, stage, 0)
  BY DEF To
<1> QED
  BY <1>1, <1>2, Going

(* A step of the worker, of the launcher or of the network leaves the page  *)
(* and the cookies alone.                                                   *)
LEMMA WorkerStep ==
  ASSUME IInv, Calls(calls', renewed'), SameEnds(calls, calls'),
         Slot!TypeOK', gate' \in BOOLEAN, troubles' \in 0 .. MaxTroubles,
         renewed' \in renewed .. MaxDeadline, known' \in 0 .. renewed',
         launches' \subseteq Codes, UNCHANGED <<jar, closed, pageVars, visible>>
  PROVE  IInv'
<1>1. TypeOK'
  BY PageAssumption DEF IInv, TypeOK, Calls, pageVars, timerVars
<1>2. CallInv'
  BY DEF Calls, CallInv
<1>3. ChainInv'
  BY DEF IInv, ChainInv, SameEnds, pageVars, timerVars
<1> QED
  BY <1>1, <1>2, <1>3 DEF IInv

(* A step of the script leaves the worker and the cookies alone.            *)
LEMMA PageStep ==
  ASSUME IInv, Calls(calls', renewed), ChainInv', PageType', visible' \in BOOLEAN,
         troubles' \in 0 .. MaxTroubles, UNCHANGED <<serverVars, deadlineVars, jarVars>>
  PROVE  IInv'
<1>1. TypeOK'
  BY DEF IInv, TypeOK, Slot!TypeOK, Calls, PageType, serverVars, deadlineVars, jarVars
<1>2. CallInv'
  BY DEF Calls, CallInv, deadlineVars
<1> QED
  BY <1>1, <1>2 DEF IInv

(* An answer that brings cookies, with the page it leads to or the page as  *)
(* it was.                                                                  *)
LEMMA CookieStep ==
  ASSUME IInv, Calls(calls', renewed), ChainInv', PageType',
         jar' \in Codes \cup {NoCode}, closed' \in BOOLEAN, launches' \subseteq Codes,
         gate' \in BOOLEAN, troubles' \in 0 .. MaxTroubles,
         UNCHANGED <<state, deadlineVars, visible>>
  PROVE  IInv'
<1>1. TypeOK'
  BY DEF IInv, TypeOK, Slot!TypeOK, Calls, PageType, deadlineVars
<1>2. CallInv'
  BY DEF Calls, CallInv, deadlineVars
<1> QED
  BY <1>1, <1>2 DEF IInv

(* A step of SessionSlot keeps the type of the sessions.                    *)
LEMMA SlotStep ==
  ASSUME Slot!TypeOK, NEW s \in Codes,
         Slot!Open(s) \/ Slot!Accept(s) \/ Slot!Remove(s) \/ Slot!Revoke(s)
  PROVE  Slot!TypeOK'
<1> USE DEF Slot!TypeOK, Slot!States, Slot!Reachable
<1>1. CASE Slot!Open(s)
  BY <1>1 DEF Slot!Open
<1>2. CASE Slot!Accept(s)
  BY <1>2 DEF Slot!Accept, Slot!Move
<1>3. CASE Slot!Remove(s)
  BY <1>3 DEF Slot!Remove, Slot!Move
<1>4. CASE Slot!Revoke(s)
  BY <1>4 DEF Slot!Revoke, Slot!Move
<1> QED
  BY <1>1, <1>2, <1>3, <1>4

(* A restart fails the calls a page waits for; they keep their kinds.       *)
LEMMA Failed ==
  ASSUME NEW S, NEW last \in Nat, Calls(S, last),
         NEW T, T = {CutOff(c) : c \in {d \in S : d.kind \notin Orphans}}
  PROVE  Calls(T, last) /\ SameEnds(S, T)
<1> DEFINE R == {d \in S : d.kind \notin Orphans}
           f == [c \in R |-> CutOff(c)]
<1>1. /\ IsFiniteSet(S) /\ Cardinality(S) \in Nat /\ Cardinality(S) <= MaxCalls
      /\ R \subseteq S /\ IsFiniteSet(R) /\ Cardinality(R) <= Cardinality(S)
      /\ Cardinality(R) \in Nat /\ Ends(S) \subseteq R
  BY FS_Subset, FS_CardinalityType DEF Calls, Ends, Orphans
<1>2. ASSUME NEW c \in R
      PROVE  f[c] \in Call /\ f[c].kind = c.kind /\ f[c].deadline <= c.deadline
  <2> DEFINE e == At(c, "error", 0)
  <2>1. c \in Call /\ c.deadline \in Nat
    BY DEF Calls, Call
  <2>2. e \in Call /\ e.kind = c.kind /\ e.deadline = 0
    <3>1. "error" \in Stages /\ 0 \in 0 .. MaxDeadline
      BY PageAssumption DEF Stages, Answers
    <3> QED
      BY <2>1, <3>1, AtStage
  <2>3. f[c] \in {c, e}
    BY DEF CutOff
  <2> HIDE DEF e, f
  <2> QED
    BY <2>1, <2>2, <2>3
<1>3. T = {f[c] : c \in R}
  OBVIOUS
<1>4. f \in [R -> Call]
  BY <1>2
<1> HIDE DEF f, R
<1>5. IsFiniteSet(T) /\ Cardinality(T) <= Cardinality(S)
  <2>1. IsFiniteSet({f[c] : c \in R}) /\ Cardinality({f[c] : c \in R}) <= Cardinality(R)
    BY <1>1, <1>4, ImageFits
  <2>2. IsFiniteSet(T) /\ Cardinality(T) <= Cardinality(R)
    BY <2>1, <1>3
  <2>3. Cardinality(T) \in Nat
    BY <2>2, FS_CardinalityType
  <2> QED
    BY <1>1, <2>2, <2>3
<1>6. Cardinality(T) \in Nat
  BY <1>5, FS_CardinalityType
<1>7. ASSUME NEW c \in R PROVE f[c].deadline <= last
  <2>1. c.deadline \in Nat /\ c.deadline <= last /\ f[c].deadline \in Nat
    BY <1>1, <1>2 DEF Calls, Call
  <2> QED
    BY <1>2, <2>1
<1>8. Calls(T, last)
  <2>1. \A d \in T : d \in Call /\ d.deadline <= last
    BY <1>2, <1>3, <1>7
  <2> QED
    BY <1>1, <1>5, <1>6, <2>1, PageAssumption DEF Calls
<1>9. Ends(T) = {f[c] : c \in Ends(S)}
  BY <1>1, <1>2, <1>3 DEF Ends
<1>10. ASSUME NEW e \in S, Ends(S) = {e} PROVE Ends(T) = {f[e]} /\ f[e] \in T
  BY <1>1, <1>3, <1>9, <1>10
<1> QED
  BY <1>8, <1>9, <1>10 DEF SameEnds

-----------------------------------------------------------------------------
(* Pages.                                                                   *)

(* A page that is served takes over from the one before it: if it is served *)
(* closing, its own poll is all there is of a finish.                       *)
LEMMA NewWorkspace ==
  ASSUME IInv, NEW closing \in BOOLEAN, NEW deadline \in 0 .. renewed,
         Workspace(closing, deadline), closing => Cardinality(Orphaned(calls)) < MaxCalls,
         renewed' = renewed, jar' \in Codes \cup {NoCode}, visible \in BOOLEAN
  PROVE  Calls(calls', renewed') /\ ChainInv' /\ PageType'
<1>1. /\ renewed \in Nat /\ renewed' \in Nat /\ renewed <= renewed' /\ TypeOK /\ CallInv
      /\ MaxCalls \in Nat
  BY PageAssumption DEF IInv, TypeOK
<1>2. Calls(calls, renewed')
  BY <1>1, Known
<1>3. Calls(Orphaned(calls), renewed') /\ Ends(Orphaned(calls)) = {}
  BY <1>1, <1>2, Left
<1>4. PageType'
  BY <1>1 DEF PageType, Workspace
<1> DEFINE d == [Request("poll") EXCEPT !.token = jar']
<1>5. d \in Call /\ d.kind = "poll" /\ d.deadline <= renewed'
  BY <1>1, PageAssumption DEF Request, Call, Kinds
<1>6. /\ view' = "work" /\ finishing' = closing /\ armed' = 0
      /\ calls' = Orphaned(calls) \cup (IF closing THEN {d} ELSE {})
  BY DEF Workspace
<1> HIDE DEF d
<1>7. CASE closing
  <2>1. calls' = Orphaned(calls) \cup {d}
    BY <1>6, <1>7
  <2>2. Calls(Orphaned(calls) \cup {d}, renewed')
    BY <1>1, <1>3, <1>5, <1>7, Added
  <2>3. Ends(calls') = {d} /\ d \in calls'
    BY <1>3, <1>5, <2>1 DEF Ends
  <2> QED
    BY <1>4, <1>6, <1>7, <2>1, <2>2, <2>3 DEF ChainInv
<1>8. CASE ~closing
  <2>1. calls' = Orphaned(calls)
    BY <1>6, <1>8
  <2> QED
    BY <1>3, <1>4, <1>6, <1>8, <2>1 DEF ChainInv
<1> QED
  BY <1>7, <1>8

(* A page without a session has nothing to end.                             *)
LEMMA NewExplanation ==
  ASSUME IInv, NEW page \in {"closed", "lost", "launch"}, Explanation(page), renewed' = renewed
  PROVE  Calls(calls', renewed) /\ ChainInv' /\ PageType'
<1>1. renewed \in Nat /\ TypeOK /\ CallInv /\ shown \in 0 .. renewed
  BY DEF IInv, TypeOK
<1>2. Calls(Orphaned(calls), renewed) /\ Ends(Orphaned(calls)) = {}
  <2>1. Calls(calls, renewed)
    BY <1>1, Known
  <2> QED
    BY <1>1, <2>1, Left
<1>3. PageType'
  BY <1>1 DEF PageType, Explanation
<1>4. ChainInv'
  BY <1>2 DEF ChainInv, Explanation
<1> QED
  BY <1>2, <1>3, <1>4 DEF Explanation

(* Any page that index() may answer with, when there is room for its poll.  *)
LEMMA NewPage ==
  ASSUME IInv, Index, Cardinality(Orphaned(calls)) < MaxCalls,
         UNCHANGED deadlineVars, jar' \in Codes \cup {NoCode}
  PROVE  Calls(calls', renewed) /\ ChainInv' /\ PageType'
<1>1. renewed' = renewed /\ known \in 0 .. renewed /\ visible \in BOOLEAN
  BY DEF IInv, TypeOK, deadlineVars
<1>2. CASE jar' \in Codes /\ state[jar'] \in Slot!Reachable
  <2> DEFINE closing == state[jar'] = "closing"
  <2>1. Workspace(closing, known) /\ closing \in BOOLEAN
    BY <1>2 DEF Index
  <2> HIDE DEF closing
  <2> QED
    BY <1>1, <2>1, NewWorkspace
<1>3. CASE ~(jar' \in Codes /\ state[jar'] \in Slot!Reachable)
  <2>1. PICK page \in {"closed", "lost", "launch"} : Explanation(page)
    BY <1>3 DEF Index
  <2> QED
    BY <1>1, <2>1, NewExplanation
<1> QED
  BY <1>2, <1>3

-----------------------------------------------------------------------------
(* The steps.                                                               *)

LEMMA InitIInv == ASSUME Init PROVE IInv
<1>1. IsFiniteSet({}) /\ Cardinality({}) = 0
  BY FS_EmptySet
<1>2. TypeOK
  <2>1. Slot!TypeOK
    BY DEF Init, Slot!Init, Slot!TypeOK, Slot!States
  <2>2. /\ gate \in BOOLEAN /\ closed \in BOOLEAN /\ visible \in BOOLEAN
        /\ finishing \in BOOLEAN /\ refused \in BOOLEAN /\ beating \in BOOLEAN
    BY DEF Init
  <2>3. /\ renewed \in 0 .. MaxDeadline /\ known \in 0 .. renewed /\ shown \in 0 .. renewed
        /\ armed \in Nat /\ troubles \in 0 .. MaxTroubles
    BY PageAssumption DEF Init
  <2>4. /\ jar \in Codes \cup {NoCode} /\ launches \subseteq Codes
        /\ view \in {"work", "launch", "closed", "lost"}
    BY DEF Init
  <2>5. calls \subseteq Call /\ Cardinality(calls) <= MaxCalls
    BY <1>1, PageAssumption DEF Init
  <2> QED
    BY <2>1, <2>2, <2>3, <2>4, <2>5 DEF TypeOK
<1>3. CallInv /\ ChainInv
  BY <1>1 DEF Init, CallInv, ChainInv, Ends
<1> QED
  BY <1>2, <1>3 DEF IInv

(* A request of the page, other than for a finish.                          *)
LEMMA Asks ==
  ASSUME IInv, NEW kind \in {"beat", "touch"}, Room
  PROVE  /\ Calls(calls \cup {Request(kind)}, renewed)
         /\ Ends(calls \cup {Request(kind)}) = Ends(calls)
<1>1. Calls(calls, renewed) /\ renewed \in Nat
  BY Known DEF IInv, TypeOK
<1>2. Request(kind) \in Call /\ Request(kind).deadline = 0 /\ Request(kind).kind = kind
  BY Made DEF IInv, Kinds
<1>3. Calls(calls \cup {Request(kind)}, renewed)
  BY <1>1, <1>2, Added DEF Room
<1> QED
  BY <1>2, <1>3 DEF Ends

(* A request for a finish, when there is none.                              *)
LEMMA AsksFinish ==
  ASSUME IInv, NEW kind \in {"finish", "poll"}, Room, Ends(calls) = {}
  PROVE  /\ Calls(calls \cup {Request(kind)}, renewed)
         /\ Ends(calls \cup {Request(kind)}) = {Request(kind)}
<1>1. Calls(calls, renewed) /\ renewed \in Nat
  BY Known DEF IInv, TypeOK
<1>2. Request(kind) \in Call /\ Request(kind).deadline = 0 /\ Request(kind).kind = kind
  BY Made DEF IInv, Kinds
<1>3. Calls(calls \cup {Request(kind)}, renewed)
  BY <1>1, <1>2, Added DEF Room
<1> QED
  BY <1>2, <1>3 DEF Ends

(* A request that is answered.                                              *)
LEMMA Answered ==
  ASSUME IInv, NEW c \in calls
  PROVE  /\ Calls(calls \ {c}, renewed)
         /\ Ends(calls \ {c}) = Ends(calls) \ {c}
<1>1. Calls(calls, renewed) /\ renewed \in Nat
  BY Known DEF IInv, TypeOK
<1> QED
  BY <1>1, Removed DEF Ends

(* What the owner and the script do.                                        *)
LEMMA ScriptKeeps ==
  ASSUME IInv, Reload \/ Show \/ Hide \/ Heartbeat \/ TouchActivity \/ Finish \/ PollFinish
  PROVE  IInv'
<1>1. /\ TypeOK /\ CallInv /\ ChainInv /\ PageType /\ Calls(calls, renewed)
      /\ renewed \in Nat /\ Slot!TypeOK
  BY Known DEF IInv, TypeOK, PageType
<1>2. CASE Reload
  <2>1. Cardinality(Orphaned(calls)) < MaxCalls
    BY <1>1, <1>2, Left DEF Reload, Room
  <2>2. Index /\ UNCHANGED <<serverVars, deadlineVars, jarVars, visible>>
        /\ jar' \in Codes \cup {NoCode} /\ visible' \in BOOLEAN
    BY <1>1, <1>2 DEF Reload, TypeOK, jarVars
  <2>3. troubles' \in 0 .. MaxTroubles
    BY <1>1, <1>2, PageAssumption DEF Reload, Trouble, TypeOK
  <2>4. Calls(calls', renewed) /\ ChainInv' /\ PageType'
    BY <2>1, <2>2, NewPage
  <2> QED
    BY <2>2, <2>3, <2>4, PageStep
<1>3. CASE Show
  <2>1. /\ visible' \in BOOLEAN /\ troubles' \in 0 .. MaxTroubles /\ PageType'
        /\ UNCHANGED <<serverVars, deadlineVars, jarVars>>
    BY <1>1, <1>3 DEF Show, PageType, TypeOK, deadlineVars
  <2>2. Calls(calls', renewed) /\ Ends(calls') = Ends(calls)
    BY <1>1, <1>3, Asks DEF Show
  <2>3. \A c \in calls : Ends(calls) = {c} => c \in calls'
    BY <2>2 DEF Ends
  <2>4. ChainInv'
    BY <1>1, <1>3, <2>2, <2>3 DEF ChainInv, Show
  <2> QED
    BY <2>1, <2>2, <2>4, PageStep
<1>4. CASE Hide
  <2>1. /\ visible' \in BOOLEAN /\ troubles' \in 0 .. MaxTroubles /\ PageType' /\ ChainInv'
        /\ calls' = calls /\ UNCHANGED <<serverVars, deadlineVars, jarVars>>
    BY <1>1, <1>4 DEF Hide, PageType, TypeOK, ChainInv, deadlineVars
  <2> QED
    BY <1>1, <2>1, PageStep
<1>5. ASSUME NEW kind \in {"beat", "touch"}, Send(kind) PROVE IInv'
  <2>1. Calls(calls', renewed) /\ Ends(calls') = Ends(calls) /\ calls \subseteq calls'
    BY <1>5, Asks DEF Send
  <2>2. /\ visible' \in BOOLEAN /\ troubles' \in 0 .. MaxTroubles /\ PageType' /\ ChainInv'
        /\ UNCHANGED <<serverVars, deadlineVars, jarVars>>
    BY <1>1, <1>5, <2>1 DEF Send, PageType, TypeOK, ChainInv, pageVars, timerVars, deadlineVars
  <2> QED
    BY <2>1, <2>2, PageStep
<1>6. CASE Finish
  <2>1. Ends(calls) = {} /\ armed = 0
    BY <1>1, <1>6 DEF Finish, ChainInv
  <2>2. /\ Calls(calls', renewed) /\ Ends(calls') = {Request("finish")}
        /\ Request("finish") \in calls'
    BY <1>6, <2>1, AsksFinish DEF Finish
  <2>3. ChainInv'
    BY <1>6, <2>1, <2>2 DEF Finish, ChainInv
  <2>4. /\ visible' \in BOOLEAN /\ troubles' \in 0 .. MaxTroubles /\ PageType'
        /\ UNCHANGED <<serverVars, deadlineVars, jarVars>>
    BY <1>1, <1>6 DEF Finish, PageType, TypeOK, deadlineVars
  <2> QED
    BY <2>2, <2>3, <2>4, PageStep
<1>7. CASE PollFinish
  <2>1. view = "work" /\ finishing /\ armed = 1 /\ Ends(calls) = {} /\ armed' = 0
    BY <1>1, <1>7 DEF PollFinish, ChainInv
  <2>2. /\ Calls(calls', renewed) /\ Ends(calls') = {Request("poll")}
        /\ Request("poll") \in calls'
    BY <1>7, <2>1, AsksFinish DEF PollFinish
  <2>3. ChainInv'
    BY <1>7, <2>1, <2>2 DEF PollFinish, ChainInv
  <2>4. /\ visible' \in BOOLEAN /\ troubles' \in 0 .. MaxTroubles /\ PageType'
        /\ UNCHANGED <<serverVars, deadlineVars, jarVars>>
    BY <1>1, <1>7, <2>1 DEF PollFinish, PageType, TypeOK, deadlineVars
  <2> QED
    BY <2>2, <2>3, <2>4, PageStep
<1> QED
  BY <1>2, <1>3, <1>4, <1>5, <1>6, <1>7 DEF Heartbeat, TouchActivity

(* What the worker, the launcher and the network do with a call.            *)
LEMMA CallKeeps ==
  ASSUME IInv, NEW c \in calls,
         Serve(c) \/ BeginFinishFails(c) \/ LauncherError(c) \/ Lose(c)
  PROVE  IInv'
<1> USE DEF serverVars, deadlineVars, jarVars
<1>1. /\ TypeOK /\ CallInv /\ Calls(calls, renewed) /\ Slot!TypeOK
      /\ renewed \in Nat /\ renewed \in 0 .. MaxDeadline /\ known \in 0 .. renewed
      /\ gate \in BOOLEAN /\ troubles \in 0 .. MaxTroubles /\ MaxTroubles \in Nat
      /\ MaxDeadline \in Nat /\ launches \subseteq Codes /\ c.token \in Codes \cup {NoCode}
  BY Known, PageAssumption DEF IInv, TypeOK, Call
<1>2. /\ renewed \in renewed .. MaxDeadline /\ Answers \subseteq Stages
      /\ {"claimed", "relayed", "renewed"} \subseteq Stages
      /\ {"ok", "finished", "refused", "lost", "error"} \subseteq Stages
      /\ c.deadline \in 0 .. MaxDeadline /\ c.deadline <= renewed
  BY <1>1 DEF Stages, Answers, TypeOK, CallInv, Call
<1>3. state' = state => Slot!TypeOK'
  BY <1>1 DEF Slot!TypeOK
<1>4. CASE Interactive(c)
  <2>1. Calls(calls', renewed') /\ SameEnds(calls, calls')
    <3>1. renewed' = renewed
      BY <1>4 DEF Interactive
    <3>2. \/ \E stage \in Stages : To(c, stage)
          \/ ToWith(c, "ok", known)
      BY <1>2, <1>4 DEF Interactive
    <3>3. CASE \E stage \in Stages : To(c, stage)
      BY <1>1, <3>1, <3>3, GoingOn
    <3>4. CASE ToWith(c, "ok", known)
      <4>1. "ok" \in Stages /\ known \in 0 .. MaxDeadline /\ known <= renewed'
        BY <1>1, <1>2, <3>1
      <4> QED
        BY <1>1, <3>1, <3>4, <4>1, Going
    <3> QED
      BY <3>2, <3>3, <3>4
  <2> QED
    BY <1>1, <1>2, <1>3, <1>4, <2>1, WorkerStep DEF Interactive
<1>5. CASE Renew(c)
  <2>1. /\ renewed' \in renewed .. MaxDeadline /\ renewed' \in 0 .. MaxDeadline
        /\ known' \in 0 .. renewed' /\ renewed' \in Nat
    BY <1>1, <1>5 DEF Renew, Later
  <2>2. Calls(calls', renewed') /\ SameEnds(calls, calls')
    <3>1. CASE Live(c.token)
      <4>1. ToWith(c, "renewed", renewed') /\ "renewed" \in Stages
        BY <1>2, <1>5, <3>1 DEF Renew
      <4> QED
        BY <1>1, <2>1, <4>1, Going
    <3>2. CASE ~Live(c.token)
      <4>1. PICK answer \in {"refused", "lost"} : To(c, answer)
        BY <1>5, <3>2 DEF Renew
      <4>2. renewed' = renewed /\ answer \in Stages
        BY <1>2, <1>5, <3>2 DEF Renew
      <4> QED
        BY <1>1, <4>1, <4>2, GoingOn
    <3> QED
      BY <3>1, <3>2
  <2> QED
    BY <1>1, <1>3, <1>5, <2>1, <2>2, WorkerStep DEF Renew
<1>6. CASE UpdateDeadlines(c)
  <2>1. renewed' = renewed /\ known' \in 0 .. renewed /\ known' \in 0 .. MaxDeadline
    BY <1>1, <1>2, <1>6 DEF UpdateDeadlines
  <2>2. ToWith(c, "ok", known') /\ "ok" \in Stages
    BY <1>2, <1>6 DEF UpdateDeadlines
  <2>3. Calls(calls', renewed') /\ SameEnds(calls, calls')
    BY <1>1, <2>1, <2>2, Going
  <2> QED
    BY <1>1, <1>2, <1>3, <1>6, <2>1, <2>3, WorkerStep DEF UpdateDeadlines
<1>7. CASE FinishRequest(c)
  <2>1. renewed' = renewed /\ gate' \in BOOLEAN
    BY <1>1, <1>7 DEF FinishRequest, Live
  <2>2. \E stage \in Stages : To(c, stage)
    BY <1>2, <1>7 DEF FinishRequest
  <2>3. Calls(calls', renewed') /\ SameEnds(calls, calls')
    BY <1>1, <2>1, <2>2, GoingOn
  <2> QED
    BY <1>1, <1>2, <1>3, <1>7, <2>1, <2>3, WorkerStep DEF FinishRequest
<1>8. CASE BeginFinish(c)
  <2>1. renewed' = renewed /\ gate' \in BOOLEAN
    BY <1>1, <1>8 DEF BeginFinish
  <2>2. \E stage \in Stages : To(c, stage)
    BY <1>2, <1>8 DEF BeginFinish
  <2>3. Calls(calls', renewed') /\ SameEnds(calls, calls')
    BY <1>1, <2>1, <2>2, GoingOn
  <2>4. Slot!TypeOK'
    BY <1>1, <1>3, <1>8, SlotStep DEF BeginFinish, Live
  <2> QED
    BY <1>1, <1>2, <1>8, <2>1, <2>3, <2>4, WorkerStep DEF BeginFinish
<1>9. CASE FinishDone(c)
  <2>1. renewed' = renewed /\ To(c, "finished") /\ "finished" \in Stages
    BY <1>2, <1>9 DEF FinishDone
  <2>2. Calls(calls', renewed') /\ SameEnds(calls, calls')
    BY <1>1, <2>1, GoingOn
  <2>3. Slot!TypeOK'
    BY <1>1, <1>3, <1>9, SlotStep DEF FinishDone, Live
  <2> QED
    BY <1>1, <1>2, <1>9, <2>1, <2>2, <2>3, WorkerStep DEF FinishDone
<1>10. CASE LauncherError(c)
  <2>1. renewed' = renewed /\ troubles' \in 0 .. MaxTroubles
    BY <1>1, <1>10 DEF LauncherError, Trouble
  <2>2. \E stage \in Stages : To(c, stage)
    BY <1>2, <1>10 DEF LauncherError
  <2>3. Calls(calls', renewed') /\ SameEnds(calls, calls')
    BY <1>1, <2>1, <2>2, GoingOn
  <2> QED
    BY <1>1, <1>2, <1>3, <1>10, <2>1, <2>3, WorkerStep DEF LauncherError
<1>11. CASE Lose(c)
  <2>1. renewed' = renewed /\ troubles' \in 0 .. MaxTroubles
    BY <1>1, <1>11 DEF Lose, Trouble
  <2>2. To(c, "error") /\ "error" \in Stages
    BY <1>2, <1>11 DEF Lose
  <2>3. Calls(calls', renewed') /\ SameEnds(calls, calls')
    BY <1>1, <2>1, <2>2, GoingOn
  <2> QED
    BY <1>1, <1>2, <1>3, <1>11, <2>1, <2>3, WorkerStep DEF Lose
<1>12. CASE BeginFinishFails(c)
  <2>1. renewed' = renewed /\ troubles' \in 0 .. MaxTroubles /\ gate' \in BOOLEAN
    <3>1. renewed' = renewed /\ troubles' \in 0 .. MaxTroubles
      BY <1>1, <1>12 DEF BeginFinishFails, Trouble
    <3>2. gate' \in {gate, FALSE}
      BY <1>12 DEF BeginFinishFails
    <3> QED
      BY <1>1, <3>1, <3>2
  <2>2. To(c, "error") /\ "error" \in Stages
    BY <1>2, <1>12 DEF BeginFinishFails
  <2>3. Calls(calls', renewed') /\ SameEnds(calls, calls')
    BY <1>1, <2>1, <2>2, GoingOn
  <2>4. Slot!TypeOK'
    BY <1>1, <1>12, SlotStep DEF BeginFinishFails, Live
  <2> QED
    BY <1>1, <1>2, <1>12, <2>1, <2>3, <2>4, WorkerStep DEF BeginFinishFails
<1> QED
  BY <1>4, <1>5, <1>6, <1>7, <1>8, <1>9, <1>10, <1>11, <1>12 DEF Serve

(* What the page makes of an answer.                                        *)
LEMMA AnswerKeeps ==
  ASSUME IInv, NEW c \in calls, Receive(c)
  PROVE  IInv'
<1>1. /\ TypeOK /\ CallInv /\ ChainInv /\ PageType /\ Calls(calls, renewed)
      /\ renewed \in Nat /\ Slot!TypeOK /\ launches \subseteq Codes /\ gate \in BOOLEAN
      /\ visible \in BOOLEAN /\ troubles \in 0 .. MaxTroubles /\ jar \in Codes \cup {NoCode}
  BY Known DEF IInv, TypeOK, PageType
<1>2. Calls(calls \ {c}, renewed) /\ Ends(calls \ {c}) = Ends(calls) \ {c}
  BY Answered
<1>3. c.stage \in Answers => Cardinality(Orphaned(calls)) < MaxCalls
  BY <1>1, Left
<1>4. CASE Redirect(c)
  <2>1. /\ Index /\ UNCHANGED <<serverVars, deadlineVars, jarVars, visible, troubles>>
        /\ jar' \in Codes \cup {NoCode} /\ Cardinality(Orphaned(calls)) < MaxCalls
    BY <1>1, <1>3, <1>4 DEF Redirect, Answers, jarVars
  <2>2. Calls(calls', renewed) /\ ChainInv' /\ PageType'
    BY <2>1, NewPage
  <2> QED
    BY <1>1, <2>1, <2>2, PageStep
<1>5. CASE ApplyDeadlines(c)
  <2>1. c.deadline \in 0 .. renewed /\ c \notin Ends(calls)
    BY <1>1, <1>5 DEF ApplyDeadlines, CallInv, TypeOK, Call, Ends
  <2>2. PageType'
    BY <1>1, <1>5, <2>1 DEF ApplyDeadlines, PageType, timerVars, deadlineVars
  <2>3. calls' = calls \ {c} /\ UNCHANGED <<view, finishing, armed>>
    BY <1>5 DEF ApplyDeadlines, timerVars
  <2>4. Ends(calls') = Ends(calls) /\ Calls(calls', renewed)
    BY <1>2, <2>1, <2>3
  <2>5. \A e \in calls : Ends(calls) = {e} => e \in calls'
    BY <2>1, <2>3
  <2>6. ChainInv'
    BY <1>1, <2>3, <2>4, <2>5 DEF ChainInv
  <2> QED
    BY <1>1, <1>5, <2>2, <2>4, <2>6, PageStep DEF ApplyDeadlines
<1>6. CASE Ignore(c)
  <2>1. c \notin Ends(calls) /\ calls' = calls \ {c} /\ UNCHANGED <<view, finishing, armed>>
    BY <1>6 DEF Ignore, Ends, pageVars, timerVars
  <2>2. PageType'
    BY <1>1, <1>6 DEF Ignore, PageType, pageVars, timerVars, deadlineVars
  <2>3. Ends(calls') = Ends(calls) /\ Calls(calls', renewed)
    BY <1>2, <2>1
  <2>4. \A e \in calls : Ends(calls) = {e} => e \in calls'
    BY <2>1
  <2>5. ChainInv'
    BY <1>1, <2>1, <2>3, <2>4 DEF ChainInv
  <2> QED
    BY <1>1, <1>6, <2>2, <2>3, <2>5, PageStep DEF Ignore
<1>7. CASE Finished(c)
  <2>1. /\ Index /\ UNCHANGED <<serverVars, deadlineVars, launches, visible, troubles>>
        /\ jar' = NoCode /\ closed' = TRUE /\ Cardinality(Orphaned(calls)) < MaxCalls
    BY <1>3, <1>7 DEF Finished, Answers
  <2>2. Calls(calls', renewed) /\ ChainInv' /\ PageType'
    BY <2>1, NewPage
  <2> QED
    BY <1>1, <2>1, <2>2, CookieStep DEF serverVars
<1>8. CASE FinishFailed(c)
  <2>1. c \in Ends(calls) /\ calls' = calls \ {c} /\ view' = view
    BY <1>8 DEF FinishFailed, Ends
  <2>2. view = "work" /\ finishing /\ armed = 0 /\ Ends(calls) = {c}
    BY <1>1, <2>1 DEF ChainInv
  <2>3. Ends(calls') = {} /\ Calls(calls', renewed)
    BY <1>2, <2>1, <2>2
  <2>4. /\ UNCHANGED <<serverVars, deadlineVars, jarVars, visible, troubles>>
        /\ UNCHANGED <<view, beating, shown, renewed>>
    BY <1>8 DEF FinishFailed, deadlineVars
  <2>5. CASE c.kind = "finish" /\ c.stage = "refused"
    <3>1. finishing' = FALSE /\ refused' \in BOOLEAN /\ armed' = armed
      BY <1>1, <1>8, <2>5 DEF FinishFailed, PageType
    <3>2. ChainInv'
      BY <2>2, <2>3, <3>1 DEF ChainInv
    <3>3. PageType'
      BY <1>1, <2>4, <3>1 DEF PageType
    <3> QED
      BY <1>1, <2>3, <2>4, <3>2, <3>3, PageStep
  <2>6. CASE ~(c.kind = "finish" /\ c.stage = "refused")
    <3>1. finishing' = finishing /\ refused' = refused /\ armed' = armed + 1
      BY <1>8, <2>6 DEF FinishFailed
    <3>2. ChainInv'
      BY <2>2, <2>3, <2>4, <3>1 DEF ChainInv
    <3>3. PageType'
      BY <1>1, <2>4, <3>1 DEF PageType
    <3> QED
      BY <1>1, <2>3, <2>4, <3>2, <3>3, PageStep
  <2> QED
    BY <2>5, <2>6
<1> QED
  BY <1>4, <1>5, <1>6, <1>7, <1>8 DEF Receive

(* What happens to the sessions.                                            *)
LEMMA SessionKeeps ==
  ASSUME IInv, NEW s \in Codes,
         SessionStart(s) \/ Started(s) \/ StartFails(s) \/ Expire(s) \/ Revoke(s)
  PROVE  IInv'
<1>1. /\ TypeOK /\ CallInv /\ ChainInv /\ PageType /\ Calls(calls, renewed)
      /\ renewed \in Nat /\ renewed \in renewed .. MaxDeadline /\ Slot!TypeOK
      /\ gate \in BOOLEAN /\ known \in 0 .. renewed /\ MaxDeadline \in Nat
      /\ launches \subseteq Codes /\ jar \in Codes \cup {NoCode} /\ closed \in BOOLEAN
      /\ visible \in BOOLEAN /\ troubles \in 0 .. MaxTroubles /\ SameEnds(calls, calls)
  BY Known, PageAssumption DEF IInv, TypeOK, PageType, SameEnds
<1>2. CASE SessionStart(s)
  <2>1. Slot!TypeOK'
    BY <1>1, <1>2, SlotStep DEF SessionStart
  <2>2. Later \in renewed .. MaxDeadline /\ Later \in Nat /\ renewed <= Later
    BY <1>1 DEF Later
  <2>3. renewed' = Later /\ known' = Later /\ known' \in 0 .. renewed' /\ calls' = calls
    BY <1>2, <2>2 DEF SessionStart
  <2>4. Calls(calls', renewed')
    BY <1>1, <2>2, <2>3, Known
  <2>5. launches' \subseteq Codes
    BY <1>1, <1>2 DEF SessionStart
  <2> QED
    BY <1>1, <1>2, <2>1, <2>2, <2>3, <2>4, <2>5, WorkerStep DEF SessionStart
<1>3. ASSUME UNCHANGED <<deadlineVars, pageVars, calls>>
      PROVE  Calls(calls', renewed) /\ ChainInv' /\ PageType'
  BY <1>1, <1>3 DEF ChainInv, PageType, deadlineVars, pageVars, timerVars
<1>4. CASE Started(s)
  <2>1. /\ jar' = s /\ closed' = FALSE /\ launches' \subseteq Codes /\ gate' \in BOOLEAN
        /\ UNCHANGED <<state, deadlineVars, visible, troubles>> /\ renewed' = renewed
    BY <1>1, <1>4 DEF Started, deadlineVars
  <2>2. Calls(calls', renewed) /\ ChainInv' /\ PageType'
    <3>1. CASE \E deadline \in 0 .. renewed : Workspace(FALSE, deadline)
      BY <1>1, <2>1, <3>1, NewWorkspace
    <3>2. CASE UNCHANGED <<pageVars, calls>>
      BY <1>3, <2>1, <3>2
    <3>3. 0 .. known \subseteq 0 .. renewed
      BY <1>1
    <3> QED
      BY <1>1, <1>4, <3>1, <3>2, <3>3 DEF Started
  <2> QED
    BY <1>1, <2>1, <2>2, CookieStep
<1>5. CASE StartFails(s)
  <2>1. /\ launches' \subseteq Codes /\ gate' \in BOOLEAN /\ renewed' = renewed
        /\ UNCHANGED <<state, deadlineVars, jar, closed, visible>>
    BY <1>1, <1>5 DEF StartFails, deadlineVars
  <2>2. troubles' \in 0 .. MaxTroubles
    BY <1>1, <1>5, PageAssumption DEF StartFails, Trouble
  <2>3. Calls(calls', renewed) /\ ChainInv' /\ PageType'
    <3>1. CASE Explanation("launch")
      BY <2>1, <3>1, NewExplanation
    <3>2. CASE UNCHANGED <<pageVars, calls>>
      BY <1>3, <2>1, <3>2
    <3> QED
      BY <1>5, <3>1, <3>2 DEF StartFails
  <2> QED
    BY <1>1, <2>1, <2>2, <2>3, CookieStep
<1>6. CASE Expire(s)
  <2>1. Slot!TypeOK'
    BY <1>1, <1>6, SlotStep DEF Expire
  <2> QED
    BY <1>1, <1>6, <2>1, WorkerStep DEF Expire, deadlineVars, jarVars
<1>7. CASE Revoke(s)
  <2>1. Slot!TypeOK'
    BY <1>1, <1>7, SlotStep DEF Revoke
  <2>2. gate' \in BOOLEAN
    BY <1>1, <1>7 DEF Revoke, Live
  <2> QED
    BY <1>1, <1>7, <2>1, <2>2, WorkerStep DEF Revoke, deadlineVars, jarVars
<1> QED
  BY <1>2, <1>4, <1>5, <1>6, <1>7

LEMMA RestartKeeps == ASSUME IInv, Restart PROVE IInv'
<1>1. /\ TypeOK /\ CallInv /\ Calls(calls, renewed) /\ Slot!TypeOK
      /\ renewed \in Nat /\ renewed \in renewed .. MaxDeadline /\ known \in 0 .. renewed
      /\ troubles \in 0 .. MaxTroubles /\ MaxTroubles \in Nat /\ launches \subseteq Codes
  BY Known, PageAssumption DEF IInv, TypeOK
<1>2. Slot!TypeOK'
  BY <1>1 DEF Restart, Slot!TypeOK, Slot!States
<1>3. /\ UNCHANGED <<deadlineVars, jar, closed, pageVars, visible>> /\ gate' \in BOOLEAN
      /\ launches' \subseteq Codes
  BY <1>1 DEF Restart, jarVars
<1>4. troubles' \in 0 .. MaxTroubles /\ renewed' = renewed /\ known' = known
  BY <1>1, <1>3 DEF Restart, Trouble, deadlineVars
<1>5. Calls(calls', renewed) /\ SameEnds(calls, calls')
  BY <1>1, Failed DEF Restart
<1> QED
  BY <1>1, <1>2, <1>3, <1>4, <1>5, WorkerStep

-----------------------------------------------------------------------------
(* The theorems.                                                            *)

(* The inductive invariant holds in every state of every behaviour.         *)
THEOREM Invariance == SafeSpec => []IInv
<1>1. Init => IInv
  BY InitIInv
<1>2. IInv /\ [Next]_vars => IInv'
  <2> SUFFICES ASSUME IInv, [Next]_vars PROVE IInv'
    OBVIOUS
  <2>1. CASE UNCHANGED vars
    <3>1. UNCHANGED <<serverVars, deadlineVars, jarVars, pageVars, timerVars, visible, calls,
                      troubles>>
      BY <2>1 DEF vars, pageVars
    <3>2. TypeOK'
      BY <3>1 DEF IInv, TypeOK, Slot!TypeOK, serverVars, deadlineVars, jarVars, pageVars, timerVars
    <3>3. CallInv' /\ ChainInv'
      BY <3>1 DEF IInv, CallInv, ChainInv, deadlineVars, pageVars, timerVars
    <3> QED
      BY <3>2, <3>3 DEF IInv
  <2>2. CASE Next
    BY <2>2, ScriptKeeps, RestartKeeps, SessionKeeps, CallKeeps, AnswerKeeps DEF Next
  <2> QED
    BY <2>1, <2>2
<1> QED
  BY <1>1, <1>2, PTL DEF SafeSpec

(* Type correctness; in particular the page never has more calls under way  *)
(* than there is room for, whatever it is answered or served.               *)
THEOREM TypeCorrect == SafeSpec => []TypeOK
<1>1. IInv => TypeOK
  BY DEF IInv
<1> QED
  BY <1>1, Invariance, PTL

(* While a page says that Recovery ends, exactly one request or timer       *)
(* carries it on.                                                           *)
THEOREM FinishChainAlways == SafeSpec => []FinishChain
<1>1. ASSUME IInv PROVE FinishChain
  <2>1. Cardinality({}) = 0 /\ \A c \in calls : Cardinality({c}) = 1
    BY FS_EmptySet, FS_Singleton
  <2> QED
    BY <1>1, <2>1 DEF IInv, ChainInv, FinishChain
<1> QED
  BY <1>1, Invariance, PTL
=============================================================================
