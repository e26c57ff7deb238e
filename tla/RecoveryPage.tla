----------------------------- MODULE RecoveryPage -----------------------------
(***************************************************************************)
(* recovery_worker/pages.py (the script of the recovery page) and the      *)
(* handlers of app.py behind it: the life of one browser tab - heartbeat,  *)
(* countdown, activity, the end of a session - against the cookies of the  *)
(* browser, the sessions of the worker and the deadlines of the launcher.  *)
(*                                                                         *)
(* Sessions are those of SessionSlot, which SessionStore implements.  The  *)
(* browser may open a newer session in another tab, the worker may restart,*)
(* answers may be lost or overtake each other.  The conversation, which    *)
(* shares the page, is in Conversation.                                    *)
(***************************************************************************)
EXTENDS Naturals, FiniteSets

CONSTANTS
  Codes,         \* the launch codes of this worker; a code names its session
  NoCode,        \* no cookie
  MaxDeadline,   \* deadlines the launcher gives, one later than the other
  MaxTroubles,   \* lost answers, failed steps of launcher or worker, and restarts, together
  MaxCalls       \* calls of the page and of the agent that are under way at once

ASSUME PageAssumption ==
  /\ NoCode \notin Codes
  /\ MaxDeadline \in Nat \ {0} /\ MaxTroubles \in Nat /\ MaxCalls \in Nat \ {0}

VARIABLES
  state,      \* SessionSlot's: where each session is in its life
  gate,       \* TurnCoordinator._finishing: the close is claimed
  renewed,    \* the launcher's idle deadline: its last one
  known,      \* exchange.idle_expires_at of the reachable session
  jar,        \* the session cookie
  closed,     \* the "closed" cookie
  launches,   \* sessions whose launch is not answered yet, in any tab
  view,       \* what the tab shows
  visible,    \* document.visibilityState
  finishing,  \* the script's finishing
  beating,    \* heartbeatTimer runs
  armed,      \* finish timers that are set
  shown,      \* idleDeadline of the script
  calls,      \* requests under way, each with its answer once it has one
  troubles,   \* troubles so far
  refused     \* a refused finish gave the page back without its heartbeat (history)

serverVars   == <<state, gate>>
deadlineVars == <<renewed, known>>
jarVars      == <<jar, closed, launches>>
timerVars    == <<beating, armed>>
pageVars     == <<view, finishing, timerVars, shown, refused>>
vars == <<serverVars, deadlineVars, jarVars, pageVars, visible, calls, troubles>>

Slot == INSTANCE SessionSlot

\* What the page asks for; a touch, and a finish or status request, whose page is gone.
Orphans == {"stray", "left"}
Kinds   == {"beat", "touch", "finish", "poll"} \cup Orphans
Ending  == {"finish", "poll", "left"}
Answers == {"ok", "finished", "refused", "lost", "error"}   \* 200, 200, 4xx, 401, 5xx or none
Call == [kind : Kinds, token : Codes \cup {NoCode},
         stage : {"sent", "claimed", "relayed", "renewed"} \cup Answers,
         deadline : 0 .. MaxDeadline]

TypeOK ==
  /\ Slot!TypeOK /\ gate \in BOOLEAN
  /\ renewed \in 0 .. MaxDeadline /\ known \in 0 .. renewed
  /\ jar \in Codes \cup {NoCode} /\ closed \in BOOLEAN /\ launches \subseteq Codes
  /\ view \in {"work", "launch", "closed", "lost"} /\ visible \in BOOLEAN
  /\ finishing \in BOOLEAN /\ refused \in BOOLEAN
  /\ beating \in BOOLEAN /\ armed \in Nat
  /\ shown \in 0 .. renewed
  /\ calls \subseteq Call /\ Cardinality(calls) <= MaxCalls
  /\ troubles \in 0 .. MaxTroubles

\* sessions.get: the session a cookie stands for, if it is reachable.
Live(token) == token \in Codes /\ state[token] \in Slot!Reachable

\* TurnCoordinator.finishing or RecoverySession.finishing.
Closing(token) == gate \/ state[token] = "closing"

Request(kind) == [kind |-> kind, token |-> jar, stage |-> "sent", deadline |-> 0]
Room          == Cardinality(calls) < MaxCalls

\* The page goes: what the worker has begun with goes on, and nobody takes the answer.
Orphaned(S) ==
  {[c EXCEPT !.kind = IF c.kind \in Ending THEN "left" ELSE "stray"]
     : c \in {c \in S : c.stage \in {"claimed", "relayed", "renewed"}}}

At(c, stage, deadline) == [c EXCEPT !.stage = stage, !.deadline = deadline]

\* Call c goes on to another stage, maybe with a deadline; an answer that no page waits
\* for is dropped.
ToWith(c, stage, deadline) ==
  calls' = (calls \ {c}) \cup
             (IF c.kind \in Orphans /\ stage \in Answers THEN {} ELSE {At(c, stage, deadline)})
To(c, stage) == ToWith(c, stage, 0)

\* The next deadline; the last one is the one-hour maximum.
Later == IF renewed < MaxDeadline THEN renewed + 1 ELSE renewed

Trouble == troubles < MaxTroubles /\ troubles' = troubles + 1

-----------------------------------------------------------------------------
(* What the tab shows.                                                      *)

Init ==
  /\ Slot!Init /\ gate = FALSE
  /\ renewed = 0 /\ known = 0
  /\ jar = NoCode /\ closed = FALSE /\ launches = {}
  /\ view = "launch" /\ visible \in BOOLEAN /\ finishing = FALSE
  /\ beating = FALSE /\ armed = 0 /\ shown = 0 /\ refused = FALSE
  /\ calls = {} /\ troubles = 0

\* Mutant: the page of a session that is closing starts no poll of its own.
WorkspaceUnpolled(closing, deadline) ==
  /\ view' = "work" /\ finishing' = closing /\ armed' = 0 /\ refused' = FALSE
  /\ beating' = (visible /\ ~closing)
  /\ shown' = deadline
  /\ calls' = Orphaned(calls)

\* recovery_page() and the end of the script: a page that is served closing starts
\* to poll, any other its heartbeat and the countdown to the deadline in it.
Workspace(closing, deadline) ==
  /\ view' = "work" /\ finishing' = closing /\ armed' = 0 /\ refused' = FALSE
  /\ beating' = (visible /\ ~closing)
  /\ shown' = deadline
  /\ calls' = Orphaned(calls)
                \cup (IF closing THEN {[Request("poll") EXCEPT !.token = jar']} ELSE {})

Explanation(page) ==
  /\ view' = page /\ finishing' = FALSE /\ armed' = 0 /\ refused' = FALSE
  /\ beating' = FALSE
  /\ calls' = Orphaned(calls)
  /\ UNCHANGED shown

\* index(), with the cookies of that moment.
Index ==
  IF jar' \in Codes /\ state[jar'] \in Slot!Reachable
    THEN Workspace(state[jar'] = "closing", known)
    ELSE Explanation(IF closed' THEN "closed" ELSE IF jar' # NoCode THEN "lost" ELSE "launch")

\* The owner reloads the tab; doing so while it ends counts as a trouble.
Reload ==
  /\ Room
  /\ IF finishing THEN Trouble ELSE UNCHANGED troubles
  /\ UNCHANGED <<serverVars, deadlineVars, jarVars, visible>>
  /\ Index

\* Mutant: a page that is shown again asks once and starts no interval.
ShowOnce ==
  /\ ~visible /\ visible' = TRUE /\ refused' = FALSE
  /\ IF view = "work" /\ ~finishing THEN Room /\ calls' = calls \cup {Request("beat")}
                                    ELSE UNCHANGED calls
  /\ UNCHANGED <<serverVars, deadlineVars, jarVars, view, finishing, timerVars, shown, troubles>>

\* heartbeatVisibility
Show ==
  /\ ~visible /\ visible' = TRUE
  /\ beating' = (view = "work") /\ refused' = FALSE
  /\ IF view = "work" /\ ~finishing THEN Room /\ calls' = calls \cup {Request("beat")}
                                    ELSE UNCHANGED calls
  /\ UNCHANGED <<serverVars, deadlineVars, jarVars, view, finishing, armed, shown,
                 troubles>>

Hide ==
  /\ visible /\ visible' = FALSE
  /\ beating' = FALSE /\ refused' = FALSE
  /\ UNCHANGED <<serverVars, deadlineVars, jarVars, view, finishing, armed, shown,
                 calls, troubles>>

-----------------------------------------------------------------------------
(* What the page asks.                                                      *)

Send(kind) ==
  /\ view = "work" /\ visible /\ ~finishing /\ Room
  /\ calls' = calls \cup {Request(kind)}
  /\ UNCHANGED <<serverVars, deadlineVars, jarVars, pageVars, visible, troubles>>

Heartbeat == beating /\ Send("beat")
TouchActivity == Send("touch")

\* enterFinishing() and the request of finish().
Finish ==
  /\ view = "work" /\ ~finishing /\ Room
  /\ finishing' = TRUE /\ beating' = FALSE /\ refused' = FALSE
  /\ calls' = calls \cup {Request("finish")}
  /\ UNCHANGED <<serverVars, deadlineVars, jarVars, view, visible, armed, shown, troubles>>

\* A finish timer fires: pollFinish.
PollFinish ==
  /\ armed > 0 /\ armed' = armed - 1
  /\ IF finishing THEN Room /\ calls' = calls \cup {Request("poll")} ELSE UNCHANGED calls
  /\ UNCHANGED <<serverVars, deadlineVars, jarVars, view, visible, finishing, beating,
                 shown, refused, troubles>>

-----------------------------------------------------------------------------
(* What the worker does with it.                                            *)

\* interactive() lets a touch through, current() a heartbeat; the deadline of the
\* answer is read from the exchange.
Interactive(c) ==
  /\ c.stage = "sent" /\ c.kind \in {"beat", "touch"}
  /\ IF ~Live(c.token) THEN To(c, "lost")
     ELSE IF c.kind = "beat" THEN ToWith(c, "ok", known)
     ELSE To(c, IF Closing(c.token) THEN "refused" ELSE "relayed")
  /\ UNCHANGED <<serverVars, deadlineVars, jarVars, pageVars, visible, troubles>>

\* The launcher counts activity of a session that is not over, up to the one-hour
\* maximum.
Renew(c) ==
  /\ c.stage = "relayed" /\ c.kind \in {"touch", "stray"}
  /\ IF Live(c.token)
       THEN /\ renewed' = Later
            /\ ToWith(c, "renewed", renewed')
       ELSE /\ \E answer \in {"refused", "lost"} : To(c, answer)
            /\ UNCHANGED renewed
  /\ UNCHANGED <<serverVars, known, jarVars, pageVars, visible, troubles>>

\* Mutant: the worker counts the activity itself.
UpdateDeadlinesOwn(c) ==
  /\ c.stage = "renewed"
  /\ known' = IF Live(c.token) THEN known + 1 ELSE known
  /\ ToWith(c, "ok", known')
  /\ UNCHANGED <<serverVars, renewed, jarVars, pageVars, visible, troubles>>

\* Its answer arrives, in any order with others: update_deadlines, then touch_session
\* reads the exchange again.
UpdateDeadlines(c) ==
  /\ c.stage = "renewed"
  /\ known' = IF Live(c.token) THEN c.deadline ELSE known
  /\ ToWith(c, "ok", known')
  /\ UNCHANGED <<serverVars, renewed, jarVars, pageVars, visible, troubles>>


\* finish() claims the close, finish_status() looks for one that was accepted.
FinishRequest(c) ==
  /\ c.stage = "sent" /\ c.kind \in {"finish", "poll"}
  /\ IF c.kind = "poll"
       THEN /\ To(c, IF c.token = NoCode THEN "lost"
                     ELSE IF state[c.token] = "closing" THEN "claimed" ELSE "refused")
            /\ UNCHANGED gate
       ELSE /\ To(c, IF ~Live(c.token) THEN "lost"
                     ELSE IF gate /\ state[c.token] # "closing" THEN "refused" ELSE "claimed")
            /\ gate' = (gate \/ (Live(c.token) /\ state[c.token] # "closing"))
  /\ UNCHANGED <<state, deadlineVars, jarVars, pageVars, visible, troubles>>

\* begin_finish(): the session is looked up again, flagged and quiesced once ...
BeginFinish(c) ==
  /\ c.stage = "claimed"
  /\ To(c, IF Live(c.token) THEN "relayed" ELSE "lost")
  /\ IF Live(c.token) /\ state[c.token] = "open"
       THEN Slot!Accept(c.token) /\ gate' = FALSE
       ELSE UNCHANGED serverVars
  /\ UNCHANGED <<deadlineVars, jarVars, pageVars, visible, troubles>>

\* ... or flagged only: the quiesce raises, and the launcher is not told.
BeginFinishFails(c) ==
  /\ c.stage = "claimed" /\ Live(c.token) /\ Slot!Accept(c.token)
  /\ gate' \in {gate, FALSE}
  /\ To(c, "error")
  /\ Trouble
  /\ UNCHANGED <<deadlineVars, jarVars, pageVars, visible>>

\* The launcher closed the session; it leaves the store.
FinishDone(c) ==
  /\ c.stage = "relayed" /\ c.kind \in Ending
  /\ To(c, "finished")
  /\ IF Live(c.token) THEN Slot!Remove(c.token) ELSE UNCHANGED state
  /\ UNCHANGED <<gate, deadlineVars, jarVars, pageVars, visible, troubles>>

\* The launcher answers an error, which the worker passes on with its status.
LauncherError(c) ==
  /\ c.stage = "relayed"
  /\ \E answer \in {"refused", "lost", "error"} : To(c, answer)
  /\ Trouble
  /\ UNCHANGED <<serverVars, deadlineVars, jarVars, pageVars, visible>>

\* A session that left the store is cleaned up, which opens the gate unless a newer
\* session is active by then or the clean-up fails.
Revoke(s) ==
  /\ Slot!Revoke(s)
  /\ gate' \in {gate, gate /\ \E t \in Codes : Live(t)}
  /\ UNCHANGED <<deadlineVars, jarVars, pageVars, visible, calls, troubles>>

-----------------------------------------------------------------------------
(* What else happens.                                                       *)

\* sessions.start(), for this tab or another one: the session is installed ...
SessionStart(s) ==
  /\ Slot!Open(s)
  /\ renewed' = Later /\ known' = Later
  /\ launches' = launches \cup {s}
  /\ UNCHANGED <<gate, jar, closed, pageVars, visible, calls, troubles>>

\* ... and session_start() answers with its cookie and its page, when activate(), which
\* opens the gate when it succeeds, and the probe are through.  By then it may be over,
\* and the cookie that of a newer one.
Started(s) ==
  /\ s \in launches /\ launches' = launches \ {s}
  /\ jar' = s /\ closed' = FALSE
  /\ gate' \in {gate, FALSE}
  /\ UNCHANGED <<state, deadlineVars, visible, troubles>>
  /\ \/ \E deadline \in IF Live(s) THEN {known} ELSE 0 .. known : Workspace(FALSE, deadline)
     \/ UNCHANGED <<pageVars, calls>>

\* Or the browser gets no cookie: revoking the session it replaces raised in start()
\* (sessions.py:172), or the answer is lost.
StartFails(s) ==
  /\ s \in launches /\ launches' = launches \ {s}
  /\ gate' \in {gate, FALSE}
  /\ Trouble
  /\ UNCHANGED <<state, deadlineVars, jar, closed, visible>>
  /\ Explanation("launch") \/ UNCHANGED <<pageVars, calls>>

\* The one-hour maximum: the session leaves the store.
Expire(s) ==
  /\ Live(s) /\ Slot!Remove(s)
  /\ UNCHANGED <<gate, deadlineVars, jarVars, pageVars, visible, calls, troubles>>

\* Without its worker a call that has no answer fails.
CutOff(c) == IF c.stage \in Answers THEN c ELSE At(c, "error", 0)

\* The worker restarts: its sessions are gone, the calls it had fail.  The answer to a
\* launch may be on its way by then.
Restart ==
  /\ Trouble
  /\ state' = [s \in Codes |-> IF state[s] = "unused" THEN "unused" ELSE "revoked"]
  /\ gate' = FALSE
  /\ calls' = {CutOff(c) : c \in {d \in calls : d.kind \notin Orphans}}
  /\ UNCHANGED <<deadlineVars, jarVars, pageVars, visible>>

\* An answer is lost on its way to the page.
Lose(c) ==
  /\ c.stage \in Answers \ {"error"}
  /\ To(c, "error")
  /\ Trouble
  /\ UNCHANGED <<serverVars, deadlineVars, jarVars, pageVars, visible>>

-----------------------------------------------------------------------------
(* What the page makes of an answer.                                        *)

\* Mutant: a heartbeat that is refused with 401 is taken for a lost one.
RedirectNotBeats(c) ==
  /\ c.stage = "lost"
  /\ UNCHANGED <<serverVars, deadlineVars, jarVars, visible, troubles>>
  /\ IF c.kind = "beat" THEN calls' = calls \ {c} /\ UNCHANGED pageVars ELSE Index

\* redirectLost: 401 leads back to "/".
Redirect(c) ==
  /\ c.stage = "lost"
  /\ UNCHANGED <<serverVars, deadlineVars, jarVars, visible, troubles>>
  /\ Index

\* applyDeadlines, and the countdown with it.
ApplyDeadlines(c) ==
  /\ c.kind \in {"beat", "touch"} /\ c.stage = "ok"
  /\ shown' = c.deadline
  /\ calls' = calls \ {c}
  /\ UNCHANGED <<serverVars, deadlineVars, jarVars, view, visible, finishing, timerVars, refused,
                 troubles>>

\* Any other answer to a heartbeat or a touch changes nothing.
Ignore(c) ==
  /\ c.kind \in {"beat", "touch"} /\ c.stage \in {"refused", "error"}
  /\ calls' = calls \ {c}
  /\ UNCHANGED <<serverVars, deadlineVars, jarVars, pageVars, visible, troubles>>

\* finish_response: the cookies, whatever session they are of by now; then handleFinish
\* leads back to "/".
Finished(c) ==
  /\ c.kind \in {"finish", "poll"} /\ c.stage = "finished"
  /\ jar' = NoCode /\ closed' = TRUE
  /\ UNCHANGED <<serverVars, deadlineVars, launches, visible, troubles>>
  /\ Index

\* A refusal of finish() gives the page back; anything else arms the next poll.
FinishFailed(c) ==
  /\ c.kind \in {"finish", "poll"} /\ c.stage \in {"refused", "error"}
  /\ IF c.kind = "finish" /\ c.stage = "refused"
       THEN finishing' = FALSE /\ refused' = (visible /\ ~beating) /\ UNCHANGED armed
       ELSE armed' = armed + 1 /\ UNCHANGED <<finishing, refused>>
  /\ calls' = calls \ {c}
  /\ UNCHANGED <<serverVars, deadlineVars, jarVars, view, visible, beating, shown,
                 troubles>>

-----------------------------------------------------------------------------
Serve(c) ==
  Interactive(c) \/ Renew(c) \/ UpdateDeadlines(c) \/ FinishRequest(c) \/ BeginFinish(c)
    \/ FinishDone(c)

Receive(c) == Redirect(c) \/ ApplyDeadlines(c) \/ Ignore(c) \/ Finished(c) \/ FinishFailed(c)

Next ==
  \/ Reload \/ Show \/ Hide \/ Heartbeat \/ TouchActivity \/ Finish \/ PollFinish
  \/ Restart
  \/ \E s \in Codes : SessionStart(s) \/ Started(s) \/ StartFails(s) \/ Expire(s) \/ Revoke(s)
  \/ \E c \in calls :
       Serve(c) \/ BeginFinishFails(c) \/ LauncherError(c) \/ Lose(c) \/ Receive(c)

\* The network, the worker and the script's timers go on; the owner, the agent, the
\* clock and troubles need not.  Calls of one group may overtake each other for ever.
Fairness ==
  /\ WF_vars(\E c \in calls : c.kind = "beat" /\ Serve(c))
  /\ WF_vars(\E c \in calls : c.kind = "beat" /\ Receive(c))
  /\ \A kinds \in {{"finish", "poll"}, {"touch"} \cup Orphans} :
       WF_vars(\E c \in calls : c.kind \in kinds /\ (Serve(c) \/ Receive(c)))
  /\ SF_vars(PollFinish) /\ SF_vars(Heartbeat)
  /\ WF_vars(\E s \in Codes : Revoke(s))

SafeSpec == Init /\ [][Next]_vars
Spec     == SafeSpec /\ Fairness

-----------------------------------------------------------------------------
(* Properties.                                                              *)

\* The finish and status requests of the page.
Ends(S) == {c \in S : c.kind \in {"finish", "poll"}}

\* While the page says that Recovery ends, exactly one thing carries it on: the finish
\* request, a status request or one timer for the next (pages.py pollFinish, finish).
\* None of them outlives a refusal, so a second finish starts no second chain.
FinishChain ==
  armed + Cardinality(Ends(calls)) = IF view = "work" /\ finishing THEN 1 ELSE 0

\* Every poll of such a page is refused with 409.
Stranded == jar \in Codes /\ state[jar] # "closing"


\* A visible page whose session is over - expired, replaced by a launch, or gone with the
\* worker - is led away by the 401 of its heartbeat, whatever answers were lost before:
\* but for one whose finish was refused, which has no heartbeat any more (pages.py:1207).
StalePageLeaves == []<>~(view = "work" /\ visible /\ ~finishing /\ ~refused /\ ~Live(jar))

\* A visible page comes to show the deadline the worker knows, through answers in any
\* order, hidden spells and reloads: but for one whose finish was refused, which keeps
\* neither heartbeat nor countdown (pages.py:1207).
CountdownFollows ==
  []<>(view = "work" /\ visible /\ ~finishing /\ ~refused /\ Live(jar) => shown = known)

-----------------------------------------------------------------------------
(* What the safety properties rest on, as an inductive invariant.           *)

\* No answer carries a deadline that the launcher has not given.
CallInv == IsFiniteSet(calls) /\ \A c \in calls : c.deadline <= renewed

\* FinishChain, without counting.
ChainInv ==
  IF view = "work" /\ finishing
    THEN \/ armed = 1 /\ Ends(calls) = {}
         \/ armed = 0 /\ \E c \in calls : Ends(calls) = {c}
    ELSE armed = 0 /\ Ends(calls) = {}

IInv == TypeOK /\ CallInv /\ ChainInv
=============================================================================
