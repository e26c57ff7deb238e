---------------------------- MODULE RecoveryTurns ----------------------------
(***************************************************************************)
(* recovery_worker/chat.py: TurnCoordinator, stream_turn and _spawn - the  *)
(* turns of the recovery agent, the one-turn/one-close gate they share     *)
(* with /api/finish, and the transcript they write - against the owner     *)
(* thread that opens, replaces, finishes and expires sessions.             *)
(*                                                                         *)
(* A turn is a coroutine; it is split wherever the owner's thread, another *)
(* turn or the browser leaving can come in between.  The owner does one    *)
(* thing at a time (RecoveryRuntime has its overlaps); clearing providers  *)
(* is reduced to what turns see of it (ProviderAuth has the rest).         *)
(***************************************************************************)
EXTENDS Naturals, Sequences, FiniteSets

CONSTANTS
  Turns,         \* request tasks that run /api/chat/stream, one turn at a time each
  MaxSessions,   \* sessions the launcher opens on this worker
  HistoryLimit   \* MAX_HISTORY_MESSAGES

ASSUME TurnsAssumption ==
  /\ IsFiniteSet(Turns)
  /\ MaxSessions \in Nat \ {0}
  /\ HistoryLimit \in Nat \ {0}

VARIABLES
  running,      \* TurnCoordinator._running
  closing,      \* TurnCoordinator._finishing
  opened,       \* sessions opened so far: session s is the s-th
  stored,       \* the session of the store, 0 for none
  ready,        \* sessions that were activated: their page offers the chat
  finishing,    \* RecoverySession._finishing
  revoked,      \* RecoverySession._revoked
  enabled,      \* session whose provider generation is enabled, 0 for none
  launches,     \* ProviderAuth._launches
  agents,       \* agents with a process alive, the CLI or a helper of it: [turn, session]
  messages,     \* [Sessions -> sequence of [turn, role]]: RecoverySession.messages
  owner,        \* what the owner does next
  victim,       \* the session it is revoking or quiescing
  then,         \* and what follows that
  pc, session,  \* per turn: its next step, the session its request came under
  segment,      \* turns with assistant text that is not in the transcript yet
  asked,        \* turns to launch whose prompt ends in their own message (history)
  quiet,        \* sessions whose agents the owner has killed (history)
  lost,         \* sessions whose gate another turn released (history)
  leaked        \* a turn ended without its release (history)

gateVars    == <<running, closing>>
sessionVars == <<opened, stored, ready, finishing, revoked>>
authVars    == <<enabled, launches>>
ownerVars   == <<owner, victim, then>>
turnVars    == <<pc, session, segment>>
ghostVars   == <<asked, quiet, lost, leaked>>
vars == <<gateVars, sessionVars, authVars, agents, messages, ownerVars, turnVars, ghostVars>>

Sessions == 1 .. MaxSessions
Agent    == [turn : Turns, session : Sessions]
\* What the agent said and what it did are recorded alike.
Message  == [turn : Turns, role : {"user", "agent"}]

\* From the launch on the prompt is fed to the agent, its output is read and passed on
\* ("yield"), and its errors are read ("reap") and told ("report"), as is a launch that
\* was refused.
Streaming == {"feed", "stream", "yield", "reap", "report"}

Labels == {"idle", "claim", "check", "expired", "say", "prompt", "admit", "guard",
           "spawn", "cleanup", "release"} \cup Streaming
OwnerLabels == {"rest", "accept", "mark", "disable", "kill", "reset", "build", "send"}

TypeOK ==
  /\ running \in BOOLEAN /\ closing \in BOOLEAN
  /\ opened \in 0 .. MaxSessions /\ stored \in 0 .. MaxSessions
  /\ ready \subseteq Sessions /\ finishing \subseteq Sessions /\ revoked \subseteq Sessions
  /\ enabled \in 0 .. MaxSessions /\ launches \in Nat
  /\ agents \subseteq Agent
  /\ messages \in [Sessions -> Seq(Message)]
  /\ owner \in OwnerLabels /\ then \in {"rest", "build", "send"}
  /\ victim \in 0 .. MaxSessions
  /\ pc \in [Turns -> Labels] /\ session \in [Turns -> 0 .. MaxSessions]
  /\ segment \subseteq Turns /\ asked \subseteq Turns
  /\ quiet \subseteq Sessions /\ lost \subseteq Sessions /\ leaked \in BOOLEAN

Init ==
  /\ running = FALSE /\ closing = FALSE
  /\ opened = 0 /\ stored = 0 /\ ready = {} /\ finishing = {} /\ revoked = {}
  /\ enabled = 0 /\ launches = 0 /\ agents = {}
  /\ messages = [s \in Sessions |-> <<>>]
  /\ owner = "rest" /\ victim = 0 /\ then = "rest"
  /\ pc = [t \in Turns |-> "idle"] /\ session = [t \in Turns |-> 0]
  /\ segment = {} /\ asked = {} /\ quiet = {} /\ lost = {} /\ leaked = FALSE

-----------------------------------------------------------------------------
Goto(t, label) == pc' = [pc EXCEPT ![t] = label]

Step(t, from, to) == pc[t] = from /\ Goto(t, to)

Over(s) == s \in revoked \/ s \in finishing

\* The request is done with.
Leave(t) ==
  /\ Goto(t, "idle")
  /\ session' = [session EXCEPT ![t] = 0]

\* It launches, or never will.
Decided(t) == asked' = asked \ {t} /\ UNCHANGED <<quiet, lost, leaked>>

\* The oldest messages make room.
Newest(all) ==
  IF Len(all) > HistoryLimit THEN SubSeq(all, Len(all) - HistoryLimit + 1, Len(all)) ELSE all

\* RecoverySession.add_message: nothing is kept of a revoked session.
AddMessages(s, new) ==
  IF s \in revoked THEN messages
  ELSE [messages EXCEPT ![s] = Newest(messages[s] \o new)]

AddMessage(s, t, role) == AddMessages(s, <<[turn |-> t, role |-> role]>>)

\* _flush_assistant: the text so far becomes one message.
Pending(t) == IF t \in segment THEN <<[turn |-> t, role |-> "agent"]>> ELSE <<>>

\* Turns between claiming the gate and releasing it.
Holding == {t \in Turns : pc[t] \notin {"idle", "claim"}}

\* TurnCoordinator.release_turn, for whichever turn has the gate now: the enabled
\* session loses it when another turn of that session is under way.
ReleaseTurn(t) ==
  /\ running' = FALSE
  /\ leaked' = FALSE
  /\ lost' = lost \cup ({session[u] : u \in Holding \ {t}} \cap {enabled})

\* TurnCoordinator.reset.
Reset == running' = FALSE /\ closing' = FALSE /\ leaked' = FALSE

-----------------------------------------------------------------------------
(* The owner: start, finish, expiry; revoke, quiesce and activate.          *)

\* The clean-up is done: on with what it was for.
GoOn == owner' = then /\ then' = "rest" /\ victim' = 0

\* start(): the new session is stored, then the one it replaces is revoked, then
\* activate() clears what is left and builds.
Open ==
  /\ owner = "rest" /\ opened < MaxSessions
  /\ opened' = opened + 1 /\ stored' = opened + 1
  /\ owner' = IF stored = 0 THEN "disable" ELSE "mark"
  /\ victim' = stored /\ then' = "build"
  /\ UNCHANGED <<gateVars, ready, finishing, revoked, authVars, agents, messages, turnVars,
                 ghostVars>>

\* finish(): the close is claimed, unless the session is closing already ...
FinishGate ==
  /\ owner = "rest" /\ stored # 0
  /\ stored \in finishing \/ ~closing
  /\ closing' = (closing \/ stored \notin finishing)
  /\ owner' = "accept"
  /\ UNCHANGED <<running, sessionVars, authVars, agents, messages, victim, then, turnVars,
                 ghostVars>>

\* ... and begin_finish() quiesces it the first time.
FinishAccept ==
  /\ owner = "accept"
  /\ finishing' = finishing \cup {stored}
  /\ IF stored \in finishing
       THEN owner' = "send" /\ UNCHANGED <<victim, then>>
       ELSE owner' = "disable" /\ victim' = stored /\ then' = "send"
  /\ UNCHANGED <<gateVars, opened, stored, ready, revoked, authVars, agents, messages, turnVars,
                 ghostVars>>

\* The launcher ended the session: it leaves the store and is revoked.
FinishDone ==
  /\ owner = "send"
  /\ stored' = 0
  /\ owner' = "mark" /\ victim' = stored /\ then' = "rest"
  /\ UNCHANGED <<gateVars, opened, ready, finishing, revoked, authVars, agents, messages,
                 turnVars, ghostVars>>

FinishError ==
  /\ owner = "send"
  /\ owner' = "rest"
  /\ UNCHANGED <<gateVars, sessionVars, authVars, agents, messages, victim, then, turnVars,
                 ghostVars>>

\* The deadline passed, or the worker shuts down.
Expire ==
  /\ owner = "rest" /\ stored # 0
  /\ stored' = 0
  /\ owner' = "mark" /\ victim' = stored /\ then' = "rest"
  /\ UNCHANGED <<gateVars, opened, ready, finishing, revoked, authVars, agents, messages,
                 turnVars, ghostVars>>

\* RecoverySession.revoke: the flag, and the messages with it.
Mark ==
  /\ owner = "mark"
  /\ revoked' = revoked \cup {victim}
  /\ messages' = [messages EXCEPT ![victim] = <<>>]
  /\ owner' = "disable"
  /\ UNCHANGED <<gateVars, opened, stored, ready, finishing, authVars, agents, victim, then,
                 turnVars, ghostVars>>

\* providers.clear(): no generation is enabled, ...
Disable ==
  /\ owner = "disable"
  /\ enabled' = 0
  /\ owner' = "kill"
  /\ UNCHANGED <<gateVars, sessionVars, launches, agents, messages, victim, then, turnVars,
                 ghostVars>>

\* Mutant: the children are killed while a launch is under way.
KillUndrained ==
  /\ owner = "kill"
  /\ agents' = {}
  /\ quiet' = quiet \cup ({victim} \ {0})
  /\ IF victim = 0 THEN GoOn ELSE owner' = "reset" /\ UNCHANGED <<victim, then>>
  /\ UNCHANGED <<gateVars, sessionVars, authVars, messages, turnVars, asked, lost, leaked>>

\* ... and once no launch is inside its guard any more every child is killed.
Kill ==
  /\ owner = "kill" /\ launches = 0
  /\ agents' = {}
  /\ quiet' = quiet \cup ({victim} \ {0})
  /\ IF victim = 0 THEN GoOn ELSE owner' = "reset" /\ UNCHANGED <<victim, then>>
  /\ UNCHANGED <<gateVars, sessionVars, authVars, messages, turnVars, asked, lost, leaked>>

\* The last step of RecoveryRuntime.revoke.
ResetTurns ==
  /\ owner = "reset"
  /\ Reset
  /\ GoOn
  /\ UNCHANGED <<sessionVars, authVars, agents, messages, turnVars, asked, quiet, lost>>

\* activate(): a new generation, a broker, and the gate is reset again.
BuildOk ==
  /\ owner = "build"
  /\ Reset
  /\ enabled' = stored /\ ready' = ready \cup {stored}
  /\ owner' = "rest"
  /\ UNCHANGED <<opened, stored, finishing, revoked, launches, agents, messages, victim, then,
                 turnVars, asked, quiet, lost>>

\* Something failed: the page has a readiness_error and no chat.
BuildFail ==
  /\ owner = "build"
  /\ owner' = "rest"
  /\ UNCHANGED <<gateVars, sessionVars, authVars, agents, messages, victim, then, turnVars,
                 ghostVars>>

-----------------------------------------------------------------------------
(* A turn.                                                                  *)

\* chat_stream(): interactive() found the session; the body is read later.
Request(t) ==
  /\ Step(t, "idle", "claim")
  /\ stored \in ready \ finishing /\ ~closing
  /\ session' = [session EXCEPT ![t] = stored]
  /\ UNCHANGED <<gateVars, sessionVars, authVars, agents, messages, ownerVars, segment, ghostVars>>

\* Mutant: a turn is claimed while another one runs.
ClaimRunning(t) ==
  /\ Step(t, "claim", IF closing THEN "idle" ELSE "check")
  /\ running' = (running \/ ~closing)
  /\ UNCHANGED <<closing, sessionVars, authVars, agents, messages, ownerVars, session, segment,
                 ghostVars>>

\* claim_turn(), or 409.
Claim(t) ==
  /\ pc[t] = "claim"
  /\ IF running \/ closing
       THEN Leave(t) /\ UNCHANGED running
       ELSE Goto(t, "check") /\ running' = TRUE /\ UNCHANGED session
  /\ UNCHANGED <<closing, sessionVars, authVars, agents, messages, ownerVars, segment,
                 ghostVars>>

\* Mutant: the turn of an expired session returns without releasing the gate.
CheckReturns(t) ==
  /\ Step(t, "check", IF Over(session[t]) THEN "idle" ELSE "say")
  /\ UNCHANGED <<gateVars, sessionVars, authVars, agents, messages, ownerVars, session, segment,
                 ghostVars>>

Check(t) ==
  /\ Step(t, "check", IF Over(session[t]) THEN "expired" ELSE "say")
  /\ UNCHANGED <<gateVars, sessionVars, authVars, agents, messages, ownerVars, session, segment,
                 ghostVars>>

\* The browser took both events about the expired session.
ExpiredTold(t) ==
  /\ pc[t] = "expired" /\ Leave(t)
  /\ ReleaseTurn(t)
  /\ UNCHANGED <<closing, sessionVars, authVars, agents, messages, ownerVars, segment, asked,
                 quiet>>

\* It left in between: the generator is closed where it yields, outside its try.
ExpiredLeft(t) ==
  /\ pc[t] = "expired" /\ Leave(t)
  /\ leaked' = running
  /\ UNCHANGED <<gateVars, sessionVars, authVars, agents, messages, ownerVars, segment, asked,
                 quiet, lost>>

Say(t) ==
  /\ Step(t, "say", "prompt")
  /\ messages' = AddMessage(session[t], t, "user")
  /\ UNCHANGED <<gateVars, sessionVars, authVars, agents, ownerVars, session, segment, ghostVars>>

\* _history(): the prompt is the transcript as it stands.
Prompt(t) ==
  LET now == messages[session[t]] IN
  /\ Step(t, "prompt", "admit")
  /\ asked' = IF now # <<>> /\ now[Len(now)] = [turn |-> t, role |-> "user"]
                THEN asked \cup {t} ELSE asked
  /\ UNCHANGED <<gateVars, sessionVars, authVars, agents, messages, ownerVars, session, segment,
                 quiet, lost, leaked>>

\* Mutant: only a missing CLI is noticed, a disabled generation is waited for.
RefusedEarly(t) ==
  /\ Step(t, "prompt", "report") /\ Decided(t)
  /\ UNCHANGED <<gateVars, sessionVars, authVars, agents, messages, ownerVars, session, segment>>

\* No CLI, no workspace or no usable login, which is told, or the browser left.
Refused(t) ==
  /\ pc[t] \in {"prompt", "admit"} /\ (Goto(t, "report") \/ Goto(t, "cleanup")) /\ Decided(t)
  /\ UNCHANGED <<gateVars, sessionVars, authVars, agents, messages, ownerVars, session, segment>>

\* launch_guard(): only under the enabled generation.
GuardEnter(t) ==
  /\ Step(t, "admit", "guard") /\ enabled = session[t]
  /\ launches' = launches + 1
  /\ UNCHANGED <<gateVars, sessionVars, enabled, agents, messages, ownerVars, session, segment,
                 ghostVars>>

\* Mutant: the guard is entered, the session not looked at again.
GuardCheckNot(t) ==
  /\ Step(t, "guard", "spawn")
  /\ UNCHANGED <<gateVars, sessionVars, authVars, agents, messages, ownerVars, session, segment,
                 ghostVars>>

\* Mutant: the launch is counted out before it happens, and again after.
GuardCheckTwice(t) ==
  /\ Step(t, "guard", IF Over(session[t]) THEN "report" ELSE "spawn")
  /\ launches' = launches - 1
  /\ UNCHANGED <<gateVars, sessionVars, enabled, agents, messages, ownerVars, session, segment,
                 ghostVars>>

\* Inside: a session that is over by now starts nothing.
GuardCheck(t) ==
  /\ pc[t] = "guard"
  /\ IF Over(session[t]) THEN Goto(t, "report") /\ launches' = launches - 1 /\ Decided(t)
                         ELSE Goto(t, "spawn") /\ UNCHANGED <<launches, ghostVars>>
  /\ UNCHANGED <<gateVars, sessionVars, enabled, agents, messages, ownerVars, session, segment>>

\* The process tree of a turn's agent.
Process(t) == [turn |-> t, session |-> session[t]]

\* Mutant: when the browser left during the launch nobody cleans up.
SpawnUnreaped(t) ==
  /\ pc[t] = "spawn" /\ (Goto(t, "feed") \/ Goto(t, "release")) /\ Decided(t)
  /\ agents' = agents \cup {Process(t)}
  /\ launches' = launches - 1
  /\ UNCHANGED <<gateVars, sessionVars, enabled, messages, ownerVars, session, segment>>

\* The agent runs; when the browser left just then nobody will read its output.
Spawn(t) ==
  /\ pc[t] = "spawn" /\ (Goto(t, "feed") \/ Goto(t, "cleanup")) /\ Decided(t)
  /\ agents' = agents \cup {Process(t)}
  /\ launches' = launches - 1
  /\ UNCHANGED <<gateVars, sessionVars, enabled, messages, ownerVars, session, segment>>

SpawnFail(t) ==
  /\ pc[t] = "spawn" /\ (Goto(t, "report") \/ Goto(t, "cleanup")) /\ Decided(t)
  /\ launches' = launches - 1
  /\ UNCHANGED <<gateVars, sessionVars, enabled, agents, messages, ownerVars, session, segment>>

\* _terminate(): the CLI is dead afterwards, but what it started may live: nothing is
\* killed when the CLI has exited by itself, nor outside its process group.
Terminate(t) == agents' \in {agents, agents \ {Process(t)}}

\* _spawn's finally: the rest of the text is stored, and the CLI is dead.  A launch that
\* was refused has neither.
Flush(t) ==
  /\ Goto(t, "cleanup")
  /\ messages' = AddMessages(session[t], Pending(t))
  /\ segment' = segment \ {t}
  /\ Terminate(t)
  /\ UNCHANGED <<gateVars, sessionVars, authVars, ownerVars, session, ghostVars>>

\* On to what waits for something else.
Pass(t, from, to) ==
  /\ Step(t, from, to)
  /\ UNCHANGED <<gateVars, sessionVars, authVars, agents, messages, ownerVars, session, segment,
                 ghostVars>>

\* stdin.drain(): the agent took the prompt, or its pipe broke.
Feed(t) == Pass(t, "feed", "stream") \/ (pc[t] = "feed" /\ Flush(t))

\* A line of output is passed on: prose is collected first, other events are not ...
Text(t) ==
  /\ Step(t, "stream", "yield")
  /\ segment' \in {segment, segment \cup {t}}
  /\ UNCHANGED <<gateVars, sessionVars, authVars, agents, messages, ownerVars, session, ghostVars>>

\* ... and prose is stored before the tool call that follows it.
Tool(t) ==
  /\ Step(t, "stream", "yield")
  /\ messages' = AddMessages(session[t], Pending(t) \o <<[turn |-> t, role |-> "agent"]>>)
  /\ segment' = segment \ {t}
  /\ UNCHANGED <<gateVars, sessionVars, authVars, agents, ownerVars, session, ghostVars>>

\* No more output, or too much of it, or it took too long - both of which are told like
\* any event: the CLI is ended, the rest of its errors is waited for.
ReadEnds(t) ==
  /\ Step(t, "stream", "reap")
  /\ Terminate(t)
  /\ UNCHANGED <<gateVars, sessionVars, authVars, messages, ownerVars, session, segment, ghostVars>>

\* The browser took the event it was sent.
Taken(t) == Pass(t, "yield", "stream") \/ (pc[t] = "report" /\ Flush(t))

\* await stderr_task: nobody holds its other end any more; a bad exit is told.
ReadErrors(t) == Pass(t, "reap", "report") \/ (pc[t] = "reap" /\ Flush(t))

\* The request is cancelled where it waits; at a pipe, and when the last event is told,
\* that leads where a broken pipe and the event taken lead anyway.
BrowserLeaves(t) == pc[t] \in {"stream", "yield"} /\ Flush(t)

\* finally: terminate_descendants() - whoever's they are - ...
Cleanup(t) ==
  /\ Step(t, "cleanup", "release")
  /\ agents' = {}
  /\ UNCHANGED <<gateVars, sessionVars, authVars, messages, ownerVars, session, segment,
                 ghostVars>>

\* ... and release_turn().
Release(t) ==
  /\ pc[t] = "release" /\ Leave(t)
  /\ ReleaseTurn(t)
  /\ UNCHANGED <<closing, sessionVars, authVars, agents, messages, ownerVars, segment, asked,
                 quiet>>

\* The task, already cancelled, is cancelled again while it awaits the clean-up.
CancelledAgain(t) ==
  /\ pc[t] = "release" /\ Leave(t)
  /\ leaked' = running
  /\ UNCHANGED <<gateVars, sessionVars, authVars, agents, messages, ownerVars, segment, asked,
                 quiet, lost>>

-----------------------------------------------------------------------------
OwnerStep ==
  \/ FinishAccept \/ FinishDone \/ FinishError \/ Mark \/ Disable \/ Kill
  \/ ResetTurns \/ BuildOk \/ BuildFail

\* What a turn does by itself, ...
TurnStep(t) ==
  \/ Check(t) \/ Say(t) \/ Prompt(t) \/ Refused(t) \/ GuardEnter(t) \/ GuardCheck(t)
  \/ Spawn(t) \/ SpawnFail(t) \/ Cleanup(t) \/ Release(t) \/ CancelledAgain(t)

\* ... what it does at its pipes to the agent, which have no time limit, ...
Piped == {"feed", "reap"}
PipeStep(t) == Feed(t) \/ ReadErrors(t)

\* ... and what its browser and the agent do.
Served == {"idle", "claim", "expired", "stream", "yield", "report"}
PeerStep(t) ==
  \/ Request(t) \/ Claim(t) \/ ExpiredTold(t) \/ ExpiredLeft(t)
  \/ Text(t) \/ Tool(t) \/ Taken(t) \/ BrowserLeaves(t)

Next ==
  \/ Open \/ FinishGate \/ Expire \/ OwnerStep
  \/ \E t \in Turns : TurnStep(t) \/ PipeStep(t) \/ ReadEnds(t) \/ PeerStep(t)

SafeSpec == Init /\ [][Next]_vars

\* Threads and tasks are scheduled.  A pipe breaks, or ends, when nobody holds its other
\* end.  MAX_TURN_SECONDS is looked at whenever the loop comes round and limits the wait
\* for a line, hence strong fairness: the events in between take the turn away from it.
\* Nothing makes a browser send the rest of its request, take an event or leave.
Spec ==
  /\ SafeSpec
  /\ WF_vars(owner # "rest" /\ OwnerStep)
  /\ \A t \in Turns :
       /\ WF_vars(IF pc[t] \in Piped THEN Process(t) \notin agents /\ PipeStep(t)
                                     ELSE pc[t] \notin Served /\ TurnStep(t))
       /\ SF_vars(ReadEnds(t))

-----------------------------------------------------------------------------
(* Safety.                                                                  *)

\* Turns whose agent is due or running.
Launching ==
  {t \in Turns : pc[t] \in {"say", "prompt", "admit", "guard", "spawn"} \cup Streaming}

\* chat.py: "Do not leave that helper with access to the still-live session
\* broker": an agent has a turn that is reading from it or about to kill it, also
\* when the browser left while it was being started.
AgentHasTurn ==
  \A p \in agents : pc[p.turn] \in Streaming \cup {"cleanup"} /\ session[p.turn] = p.session

\* The agents of a session that was quiesced or revoked are dead and stay dead,
\* whatever its turns were doing at that moment.
QuietStaysQuiet == \A p \in agents : p.session \notin quiet

\* No agent is started on a prompt that lacks the owner's message: a turn whose message
\* was dropped or wiped because its session was revoked does not launch.
PromptIsAsked ==
  \A t \in Turns : pc[t] = "spawn" => t \in asked \/ session[t] \in lost

\* One turn at a time in a session, also one that ends meanwhile - unless the gate was
\* released under it by a turn of a session that is over (see OneTurn).
OneTurnUnlessLost ==
  \A t, u \in Launching :
    session[t] = session[u] => t = u \/ session[t] \in lost

\* A gate that is shut has a turn behind it, or was left shut by a turn whose
\* browser went away; no other way out of a turn forgets to open it.
ShutGateIsHeld == running => Holding # {} \/ leaked

\* The tool records and the text of a turn come after its own message: what
\* precedes them is the message, more of the same turn, or was dropped as oldest.
AnswersFollow ==
  \A s \in Sessions : s \notin lost =>
    \A i \in 2 .. Len(messages[s]) :
      messages[s][i].role # "user" => messages[s][i].turn = messages[s][i - 1].turn

-----------------------------------------------------------------------------
(* What they rest on, as an inductive invariant.                            *)

\* ProviderAuth._launches is what Kill waits for: the turns inside their guard.
InGuard == {t \in Turns : pc[t] \in {"guard", "spawn"}}
LaunchesCounted == launches = Cardinality(InGuard)

\* Sessions are over one by one: what is not over is stored, or about to be marked.
SessionInv ==
  /\ stored <= opened /\ ready \cup finishing \cup revoked \cup quiet \subseteq 1 .. opened
  /\ enabled = 0 \/ enabled \in ready
  /\ \A s \in 1 .. opened : Over(s) \/ s = stored \/ (owner = "mark" /\ s = victim)
  /\ \A s \in ready : Over(s) \/ enabled = s
  /\ \A s \in quiet : Over(s) /\ enabled # s

Clearing == owner \in {"mark", "disable", "kill", "reset"}

\* What the owner is doing, and to which session.
OwnerInv ==
  /\ ~Clearing => then = "rest" /\ victim = 0
  /\ Clearing /\ then = "rest" => stored = 0
  /\ owner \in {"accept", "send"} \/ then = "send" => stored # 0
  /\ owner = "build" \/ then = "build" =>
       stored \notin ready \cup finishing \cup revoked \cup {0, victim}
  /\ victim <= opened /\ (owner \in {"mark", "reset"} => victim # 0)
  /\ owner = "mark" => then # "send"
  /\ Clearing /\ owner # "mark" => Over(victim) \/ victim = 0
  /\ owner = "disable" => \A s \in ready : Over(s)
  /\ owner \in {"kill", "reset", "build"} => enabled = 0
  /\ owner \in {"reset", "build"} => InGuard = {}

\* A request came under a session whose page offered the chat, and it launches nothing
\* for a session that is quiet.
TurnInv ==
  /\ \A t \in Turns : pc[t] # "idle" => session[t] \in ready
  /\ \A t \in InGuard : session[t] \notin quiet

\* Turns that are about to launch, or do.
Admitted(t) == t \in Launching \/ pc[t] = "check"

\* The gate is shut for the turns of a session that is not over, so that one more
\* cannot be admitted, unless the session has lost it.
GateInv ==
  /\ \A t \in Turns :
       Admitted(t) => running \/ session[t] \in lost \/ Over(session[t])
  /\ \A t, u \in Turns :
       Admitted(t) /\ pc[u] = "check" /\ session[t] = session[u]
         => t = u \/ session[t] \in lost \/ Over(session[t])

\* A turn's own message is the last one until it has its prompt, and what follows is
\* its own; but for a session that lost its gate, or its messages.
Wrote(t) ==
  LET now == messages[session[t]]
      wild == session[t] \in lost \cup revoked IN
  /\ pc[t] = "prompt" => wild \/ (now # <<>> /\ now[Len(now)] = [turn |-> t, role |-> "user"])
  /\ pc[t] \in {"admit", "guard", "spawn"} \cup Streaming
       => wild \/ (now # <<>> /\ now[Len(now)].turn = t)
  /\ pc[t] \in {"admit", "guard"} => wild \/ t \in asked
  /\ pc[t] = "spawn" => session[t] \in lost \/ t \in asked

TranscriptInv ==
  /\ \A s \in revoked : messages[s] = <<>>
  /\ \A t \in Turns : Wrote(t)

IInv ==
  /\ TypeOK /\ LaunchesCounted /\ SessionInv /\ OwnerInv /\ TurnInv /\ GateInv
  /\ TranscriptInv /\ AgentHasTurn /\ QuietStaysQuiet /\ OneTurnUnlessLost /\ ShutGateIsHeld
  /\ AnswersFollow

-----------------------------------------------------------------------------
(* Liveness.                                                                *)

\* A turn that waits for its browser to send or take something, or on a pipe to an agent
\* that lives: with QuietStaysQuiet, not one whose session's agents the owner has killed.
Waits(t) ==
  \/ pc[t] \in {"claim", "expired", "yield", "report"}
  \/ pc[t] \in Piped /\ Process(t) \in agents

\* Every turn ends, but one that waits for its browser or its agent for ever: the time
\* limit covers the agent's output only.  None is stuck in a launch, the text it has, a
\* clean-up, or a pipe to an agent that was killed.
TurnEnds == \A t \in Turns : []<>(pc[t] = "idle") \/ <>[]Waits(t)

-----------------------------------------------------------------------------
(* A claim of the code that these interleavings break.                      *)

\* chat.py, TurnCoordinator: "Owns the one-turn/one-close gate for a worker
\* application instance": two agents never work at once.
OneTurn == \A p, q \in agents : p = q
==============================================================================
