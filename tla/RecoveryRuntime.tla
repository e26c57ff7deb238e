--------------------------- MODULE RecoveryRuntime ---------------------------
(***************************************************************************)
(* recovery_worker/app.py: RecoveryRuntime, the one owner of the command   *)
(* broker, the provider environment and the workspace, together with the   *)
(* handlers and threads that drive it: session_start, finish,              *)
(* finish_status, the expiry timer, every broker's own expiry thread       *)
(* (broker.py), and the lifespan shutdown.                                 *)
(*                                                                         *)
(* The session store appears here as SessionSlot, which SessionStore       *)
(* implements; what its callbacks do is modelled step by step.  A session  *)
(* is activated at most once, so its launch code also names its broker,    *)
(* its provider generation and its workspace.                              *)
(***************************************************************************)
EXTENDS SessionSlot, FiniteSets

CONSTANTS
  Requests,     \* threads that run request handlers
  Reapers,      \* timer, broker-expiry and shutdown threads
  None          \* no session, no thread

ASSUME RuntimeAssumption ==
  /\ None \notin Codes \cup Requests \cup Reapers
  /\ Requests \cap Reapers = {}

VARIABLES
  past,         \* sessions whose absolute deadline has passed
  finishing,    \* RecoverySession._finishing
  served,       \* sessions whose page and cookie the browser has
  lock,         \* the thread that holds RecoveryRuntime._lock
  active,       \* session in RecoveryRuntime._active
  broker,       \* [Codes -> BrokerStates]: the CommandBroker of each session
  socket,       \* session whose broker listens behind broker_path
  enabled,      \* session whose generation ProviderAuth has enabled
  creds,        \* session whose owner connected the stored provider credential
  workspace,    \* session whose workspace exists
  prepared,     \* sessions with workspace and provider_generation set
  gate,         \* TurnCoordinator._finishing
  closed,       \* the lifespan shutdown has begun
  pc,           \* per thread: its next step
  about,        \* per thread: the session its operation is about
  target,       \* per thread: the session it revokes or whose broker it stops
  then,         \* per thread: what follows the revocation, stop or clear
  quiesced, reported, \* history, as in SessionStore
  stolen        \* sessions whose socket another broker's stop() unlinked (history)

sessionVars == <<state, past, finishing, served>>
brokerVars  == <<broker, socket>>
ownedVars   == <<enabled, creds, workspace, prepared>>
threadVars  == <<pc, about, target, then>>
ghostVars   == <<quiesced, reported, stolen>>
vars == <<sessionVars, lock, active, brokerVars, ownedVars, gate, closed,
          threadVars, ghostVars>>

Threads      == Requests \cup Reapers
BrokerStates == {"none", "up", "stopping", "down"}
Labels == {"idle", "mark", "revoke", "stop", "unlink", "clear", "check", "activate",
           "build", "gate", "accept", "send", "pop", "expire", "close"}

RuntimeTypeOK ==
  /\ TypeOK
  /\ past \subseteq Codes /\ finishing \subseteq Codes /\ served \subseteq Codes
  /\ lock \in Threads \cup {None}
  /\ broker \in [Codes -> BrokerStates]
  /\ {active, socket, enabled, creds, workspace} \subseteq Codes \cup {None}
  /\ prepared \subseteq Codes
  /\ gate \in BOOLEAN /\ closed \in BOOLEAN
  /\ pc \in [Threads -> Labels]
  /\ then \in [Threads -> {"idle", "check", "send", "report", "build", "expire", "close"}]
  /\ about \in [Threads -> Codes \cup {None}] /\ target \in [Threads -> Codes \cup {None}]
  /\ {quiesced, reported, stolen} \subseteq SUBSET Codes

RuntimeInit ==
  /\ Init
  /\ past = {} /\ finishing = {} /\ served = {}
  /\ lock = None /\ active = None
  /\ broker = [c \in Codes |-> "none"] /\ socket = None
  /\ enabled = None /\ creds = None /\ workspace = None /\ prepared = {}
  /\ gate = FALSE /\ closed = FALSE
  /\ pc = [t \in Threads |-> "idle"] /\ then = [t \in Threads |-> "idle"]
  /\ about = [t \in Threads |-> None] /\ target = [t \in Threads |-> None]
  /\ quiesced = {} /\ reported = {} /\ stolen = {}

-----------------------------------------------------------------------------
Goto(t, label) == pc' = [pc EXCEPT ![t] = label]

Idle(t) == pc[t] = "idle"

Set(f, t, c) == [f EXCEPT ![t] = c]

\* The operation returns or raises.
Leave(t) ==
  /\ Goto(t, "idle")
  /\ about' = Set(about, t, None) /\ target' = Set(target, t, None)
  /\ then' = Set(then, t, "idle")

\* The thread goes to label with session c in hand and a continuation.
Owe(t, label, c, next) ==
  /\ Goto(t, label) /\ UNCHANGED about
  /\ target' = Set(target, t, c) /\ then' = Set(then, t, next)

Live(c) == state[c] \in Reachable /\ c \notin past

-----------------------------------------------------------------------------
(* session_start: the code is exchanged, the session it replaces revoked    *)
(* with reason "replaced", then runtime.activate, then page and cookie.     *)

Start(t, c) ==
  /\ Idle(t) /\ ~closed
  /\ Open(c)
  /\ about' = Set(about, t, c)
  /\ LET replaced == {d \in Codes : state[d] \in Reachable} IN
     IF replaced = {}
       THEN Goto(t, "check") /\ UNCHANGED <<target, then>>
       ELSE /\ Goto(t, "mark") /\ then' = Set(then, t, "check")
            /\ target' = Set(target, t, CHOOSE d \in replaced : TRUE)
  /\ UNCHANGED <<past, finishing, served, lock, active, brokerVars, ownedVars, gate,
                 closed, ghostVars>>

\* activate() reads revoked and the deadline before it takes the runtime lock.
ActivateCheck(t) ==
  /\ pc[t] = "check"
  /\ IF state[about[t]] = "revoked" \/ about[t] \in past
       THEN Leave(t) /\ served' = served \cup {about[t]}
       ELSE Owe(t, "activate", about[t], "build") /\ UNCHANGED served
  /\ UNCHANGED <<state, past, finishing, lock, active, brokerVars, ownedVars, gate,
                 closed, ghostVars>>

\* Mutant: the broker of whatever is active is left alone.
ActivateEnterKeeps(t) ==
  /\ pc[t] = "activate" /\ lock = None
  /\ lock' = t
  /\ Goto(t, "clear")
  /\ UNCHANGED <<sessionVars, active, brokerVars, ownedVars, gate, closed, about, target, then,
                 ghostVars>>

\* Under the lock: the broker of whatever is active is stopped first.
ActivateEnter(t) ==
  /\ pc[t] = "activate" /\ lock = None
  /\ lock' = t
  /\ active' = None
  /\ IF active = None THEN Goto(t, "clear") /\ UNCHANGED target
                      ELSE Goto(t, "stop") /\ target' = Set(target, t, active)
  /\ UNCHANGED <<sessionVars, brokerVars, ownedVars, gate, closed, about, then, ghostVars>>

\* Workspace, provider generation, broker bound and started, turns reset.
BuildOk(t) ==
  LET c == about[t] IN
  /\ pc[t] = "build"
  /\ workspace' = c /\ enabled' = c /\ prepared' = prepared \cup {c}
  /\ broker' = [broker EXCEPT ![c] = "up"] /\ socket' = c
  /\ active' = c
  /\ gate' = FALSE
  /\ lock' = None
  /\ served' = served \cup {c}
  /\ Leave(t)
  /\ UNCHANGED <<state, past, finishing, creds, closed, ghostVars>>

\* Mutant: a failed activation leaves the provider generation enabled.
BuildFailKeepsEnabled(t) ==
  LET c == about[t] IN
  /\ pc[t] = "build"
  /\ workspace' = None /\ enabled' = c /\ creds' = None
  /\ lock' = None
  /\ served' = served \cup {c}
  /\ Leave(t)
  /\ UNCHANGED <<state, past, finishing, active, brokerVars, prepared, gate, closed, ghostVars>>

\* Any step of it raised: what was built is taken down again and the page is
\* served with a readiness_error.
BuildFail(t) ==
  LET c == about[t] IN
  /\ pc[t] = "build"
  /\ workspace' \in {None, c} /\ enabled' = None /\ creds' = None
  /\ socket' \in {socket, None}
  /\ lock' = None
  /\ served' = served \cup {c}
  /\ Leave(t)
  /\ prepared' \in {prepared, prepared \cup {c}}
  /\ UNCHANGED <<state, past, finishing, active, broker, gate, closed, ghostVars>>

-----------------------------------------------------------------------------
(* SessionStore._revoke and RecoveryRuntime.revoke.                         *)

\* RecoverySession.revoke.
Mark(t) ==
  /\ pc[t] = "mark"
  /\ Revoke(target[t]) \/ (state[target[t]] = "revoked" /\ UNCHANGED state)
  /\ Goto(t, "revoke")
  /\ UNCHANGED <<past, finishing, served, lock, active, brokerVars, ownedVars, gate,
                 closed, about, target, then, ghostVars>>

\* The callback returned; the operation it belongs to goes on.
Proceed(t) ==
  /\ quiesced' = IF then[t] = "send" THEN quiesced \cup {about[t]} ELSE quiesced
  /\ reported' = IF then[t] = "report" THEN reported \cup {about[t]} ELSE reported
  /\ UNCHANGED stolen
  /\ IF then[t] \in {"idle", "report"}
       THEN Leave(t)
       ELSE /\ Goto(t, then[t]) /\ UNCHANGED about
            /\ target' = Set(target, t, None) /\ then' = Set(then, t, "idle")

\* Mutant: revoke leaves whatever is active alone, its own session included.
RevokeAnyOther(t) ==
  /\ pc[t] = "revoke" /\ lock = None
  /\ active # None
  /\ Proceed(t)
  /\ UNCHANGED <<sessionVars, lock, active, brokerVars, ownedVars, gate, closed>>

\* Another session is active: revoke returns and leaves everything alone.
RevokeOther(t) ==
  /\ pc[t] = "revoke" /\ lock = None
  /\ active \notin {None, target[t]}
  /\ Proceed(t)
  /\ UNCHANGED <<sessionVars, lock, active, brokerVars, ownedVars, gate, closed>>

\* Mutant: the broker of the revoked session is not stopped.
RevokeEnterNoStop(t) ==
  /\ pc[t] = "revoke" /\ lock = None
  /\ active \in {None, target[t]}
  /\ lock' = t
  /\ active' = None
  /\ prepared' = prepared \ {target[t]}
  /\ Goto(t, "clear")
  /\ UNCHANGED <<sessionVars, brokerVars, enabled, creds, workspace, gate, closed, about,
                 target, then, ghostVars>>

RevokeEnter(t) ==
  /\ pc[t] = "revoke" /\ lock = None
  /\ active \in {None, target[t]}
  /\ lock' = t
  /\ active' = None
  /\ prepared' = prepared \ {target[t]}
  /\ Goto(t, IF active = None THEN "clear" ELSE "stop")
  /\ UNCHANGED <<sessionVars, brokerVars, enabled, creds, workspace, gate, closed, about,
                 target, then, ghostVars>>

\* CommandBroker.stop: only the first caller stops; the others return at once,
\* even while the first is still inside server.shutdown().
StopBegin(t) ==
  /\ pc[t] = "stop"
  /\ IF broker[target[t]] = "up"
       THEN /\ broker' = [broker EXCEPT ![target[t]] = "stopping"]
            /\ Goto(t, "unlink")
       ELSE /\ Goto(t, IF then[t] = "expire" THEN "expire" ELSE "clear")
            /\ UNCHANGED broker
  /\ UNCHANGED <<sessionVars, lock, active, socket, ownedVars, gate, closed, about,
                 target, then, ghostVars>>

\* server_close() and unlink of the path, whoever listens behind it now.
StopEnd(t) ==
  /\ pc[t] = "unlink"
  /\ broker' = [broker EXCEPT ![target[t]] = "down"]
  /\ socket' = None
  /\ stolen' = stolen \cup ({socket} \ {None, target[t]})
  /\ Goto(t, IF then[t] = "expire" THEN "expire" ELSE "clear")
  /\ UNCHANGED <<sessionVars, lock, active, ownedVars, gate, closed, about, target, then,
                 quiesced, reported>>

\* providers.clear() and workspaces.clear(); revoke and close then reset the
\* turn gate and let the lock go, activate goes on to build.
ClearOk(t) ==
  /\ pc[t] = "clear"
  /\ enabled' = None /\ creds' = None /\ workspace' = None
  /\ IF then[t] = "build"
       THEN /\ Goto(t, "build")
            /\ UNCHANGED <<lock, gate, about, target, then, ghostVars>>
       ELSE lock' = None /\ gate' = FALSE /\ Proceed(t)
  /\ UNCHANGED <<sessionVars, active, brokerVars, prepared, closed>>

\* Mutant: a page is kept whatever was being cleared, and for whomever.
ClearRaiseServes(t) ==
  /\ pc[t] = "clear"
  /\ enabled' = None
  /\ lock' = None
  /\ served' = served \cup {about[t]}
  /\ Leave(t)
  /\ UNCHANGED <<state, past, finishing, active, brokerVars, creds, workspace, prepared, gate,
                 closed, ghostVars>>

\* A file could not be removed: the rest is skipped and the operation raises.
\* session_start keeps the page of a session it was activating.
ClearRaise(t) ==
  /\ pc[t] = "clear"
  /\ enabled' = None
  /\ \/ UNCHANGED <<creds, workspace>>
     \/ creds' = None /\ UNCHANGED workspace
  /\ lock' = None
  /\ served' = IF then[t] = "build" THEN served \cup {about[t]} ELSE served
  /\ Leave(t)
  /\ UNCHANGED <<state, past, finishing, active, brokerVars, prepared, gate, closed, ghostVars>>

-----------------------------------------------------------------------------
(* The page of a session that is not closing, nor any other.                *)

Interactive(c) == ~closed /\ c \in served /\ Live(c) /\ c \notin finishing /\ ~gate

\* The owner connects a provider, under whichever generation is enabled.  The
\* page offers it once the session's broker came up and the target answered.
Connect(c) ==
  /\ Interactive(c) /\ broker[c] # "none"
  /\ enabled # None
  /\ creds' = c
  /\ UNCHANGED <<sessionVars, lock, active, brokerVars, enabled, workspace, prepared, gate,
                 closed, threadVars, ghostVars>>

-----------------------------------------------------------------------------
(* /api/finish and /api/finish/status.                                      *)

\* finish(): current() found the session; the body is read before the gate.
FinishRequest(t, c) ==
  /\ Idle(t) /\ ~closed /\ c \in served /\ Live(c)
  /\ about' = Set(about, t, c)
  /\ Goto(t, "gate")
  /\ UNCHANGED <<sessionVars, lock, active, brokerVars, ownedVars, gate, closed, target,
                 then, ghostVars>>

\* finish_status(): poll_finish() wants a session that is already closing.
PollRequest(t, c) ==
  /\ Idle(t) /\ ~closed /\ c \in served /\ Live(c) /\ c \in finishing
  /\ about' = Set(about, t, c)
  /\ Goto(t, "accept")
  /\ UNCHANGED <<sessionVars, lock, active, brokerVars, ownedVars, gate, closed, target,
                 then, ghostVars>>

\* Unless the session is closing already, claim the close; a claimed one is 409.
FinishGate(t) ==
  /\ pc[t] = "gate"
  /\ \/ about[t] \in finishing /\ Goto(t, "accept") /\ UNCHANGED <<gate, about, target, then>>
     \/ /\ about[t] \notin finishing /\ ~gate
        /\ gate' = TRUE
        /\ Goto(t, "accept") /\ UNCHANGED <<about, target, then>>
     \/ about[t] \notin finishing /\ gate /\ Leave(t) /\ UNCHANGED gate
  /\ UNCHANGED <<sessionVars, lock, active, brokerVars, ownedVars, closed, ghostVars>>

\* begin_finish(): 401 when the session is gone; the first finish quiesces.
FinishAccept(t) ==
  LET c == about[t] IN
  /\ pc[t] = "accept"
  /\ \/ /\ state[c] \notin Reachable
        /\ Leave(t) /\ UNCHANGED <<state, finishing>>
     \/ /\ state[c] = "open" /\ Accept(c) /\ finishing' = finishing \cup {c}
        /\ Owe(t, "revoke", c, "send")
     \/ /\ state[c] = "closing"
        /\ Goto(t, "send") /\ UNCHANGED <<state, finishing, about, target, then>>
  /\ UNCHANGED <<past, served, lock, active, brokerVars, ownedVars, gate, closed, ghostVars>>

\* The launcher ends the session, given its capability.
FinishSend(t) ==
  /\ pc[t] = "send" /\ state[about[t]] # "revoked"
  /\ Goto(t, "pop")
  /\ UNCHANGED <<sessionVars, lock, active, brokerVars, ownedVars, gate, closed, about,
                 target, then, ghostVars>>

FinishError(t) ==
  /\ pc[t] \in {"send", "pop"}
  /\ Leave(t)
  /\ UNCHANGED <<sessionVars, lock, active, brokerVars, ownedVars, gate, closed, ghostVars>>

Pop(t) ==
  /\ pc[t] = "pop"
  /\ Remove(about[t]) \/ (state[about[t]] \notin Reachable /\ UNCHANGED state)
  /\ Owe(t, "mark", about[t], "report")
  /\ UNCHANGED <<past, finishing, served, lock, active, brokerVars, ownedVars, gate, closed,
                 ghostVars>>

-----------------------------------------------------------------------------
(* Expiry and shutdown.                                                     *)

Deadline(c) ==
  /\ state[c] # "unused" /\ c \notin past
  /\ past' = past \cup {c}
  /\ UNCHANGED <<state, finishing, served, lock, active, brokerVars, ownedVars, gate, closed,
                 threadVars, ghostVars>>

\* The store takes a session that is past its deadline out, then revokes it.
ExpireSession(t, c) ==
  /\ c \in past /\ Remove(c)
  /\ Owe(t, "mark", c, "idle")
  /\ UNCHANGED <<past, finishing, served, lock, active, brokerVars, ownedVars, gate, closed,
                 ghostVars>>

\* Any request under the cookie of an expired session (SessionStore.get).
GetDead(t, c) == Idle(t) /\ ~closed /\ c \in served /\ ExpireSession(t, c)

\* The store's own timer (SessionStore.expire).
TimerExpire(t, c) == Idle(t) /\ ExpireSession(t, c)

\* Mutant: the broker's thread leaves a session alone that is no longer stored.
BrokerExpireStored(t, c) ==
  /\ Idle(t) /\ c \in past /\ broker[c] = "up" /\ state[c] \in Reachable
  /\ Owe(t, "stop", c, "expire")
  /\ UNCHANGED <<sessionVars, lock, active, brokerVars, ownedVars, gate, closed, ghostVars>>

\* CommandBroker._expire: nobody woke the thread before the deadline, so it
\* stops its broker and then calls SessionStore.expire.
BrokerExpire(t, c) ==
  /\ Idle(t) /\ c \in past /\ broker[c] = "up"
  /\ Owe(t, "stop", c, "expire")
  /\ UNCHANGED <<sessionVars, lock, active, brokerVars, ownedVars, gate, closed, ghostVars>>

OnExpire(t) ==
  /\ pc[t] = "expire"
  /\ \/ \E c \in Codes : ExpireSession(t, c)
     \/ /\ \A c \in past : state[c] \notin Reachable
        /\ Leave(t)
        /\ UNCHANGED <<sessionVars, lock, active, brokerVars, ownedVars, gate, closed, ghostVars>>

\* Shutdown waits for the requests, then SessionStore.close ...
Shutdown(t) ==
  /\ Idle(t) /\ ~closed /\ \A r \in Requests : Idle(r)
  /\ closed' = TRUE
  /\ \/ \E c \in Codes : Remove(c) /\ Owe(t, "mark", c, "close")
     \/ /\ \A c \in Codes : state[c] \notin Reachable
        /\ Goto(t, "close") /\ UNCHANGED <<state, about, target, then>>
  /\ UNCHANGED <<past, finishing, served, lock, active, brokerVars, ownedVars, gate, ghostVars>>

\* ... and RecoveryRuntime.close, whatever is active.
CloseEnter(t) ==
  /\ pc[t] = "close" /\ lock = None
  /\ lock' = t
  /\ active' = None
  /\ IF active = None THEN Goto(t, "clear") /\ UNCHANGED target
                      ELSE Goto(t, "stop") /\ target' = Set(target, t, active)
  /\ UNCHANGED <<sessionVars, brokerVars, ownedVars, gate, closed, about, then, ghostVars>>

-----------------------------------------------------------------------------
\* The steps of an operation that has begun.
Continue(t) ==
  \/ ActivateCheck(t) \/ ActivateEnter(t) \/ BuildOk(t) \/ BuildFail(t)
  \/ Mark(t) \/ RevokeOther(t) \/ RevokeEnter(t)
  \/ StopBegin(t) \/ StopEnd(t) \/ ClearOk(t) \/ ClearRaise(t)
  \/ FinishGate(t) \/ FinishAccept(t) \/ FinishSend(t) \/ FinishError(t) \/ Pop(t)
  \/ OnExpire(t) \/ CloseEnter(t)

RuntimeNext ==
  \/ \E t \in Requests, c \in Codes :
       Start(t, c) \/ FinishRequest(t, c) \/ PollRequest(t, c) \/ GetDead(t, c)
  \/ \E t \in Reapers, c \in Codes : TimerExpire(t, c) \/ BrokerExpire(t, c)
  \/ \E t \in Reapers : Shutdown(t)
  \/ \E t \in Threads : Continue(t)
  \/ \E c \in Codes : Connect(c) \/ Deadline(c)

RuntimeSafeSpec == RuntimeInit /\ [][RuntimeNext]_vars

\* Threads are scheduled, and expiry threads wake up.
RuntimeSpec ==
  /\ RuntimeSafeSpec
  /\ \A t \in Threads : WF_vars(Continue(t))
  /\ \A c \in Codes : WF_vars(\E t \in Reapers : BrokerExpire(t, c))

-----------------------------------------------------------------------------
(* Safety.                                                                  *)

\* A broker that runs holds a session's capability: it belongs to the active
\* session, or the thread that unset _active is about to stop it.  Hence one at
\* most runs, and none outlives a revocation that took it down.
BrokerOwned ==
  \A c \in Codes : broker[c] = "up" =>
    active = c \/ \E t \in Threads : lock = t /\ pc[t] = "stop" /\ target[t] = c

\* Outside the runtime lock the three things a session owns agree: providers are
\* enabled exactly for the active session, and its workspace exists.
OwnerAgrees ==
  lock = None =>
    /\ enabled = active
    /\ active # None => workspace = active /\ active \in prepared

\* A quiesced session is down for good: whatever races with its end - another
\* start, a late activation, the expiry threads - it is not active, its
\* generation is not enabled, its workspace is gone and its broker has stopped.
QuiescedIsDown ==
  \A c \in quiesced \cup reported :
    active # c /\ enabled # c /\ workspace # c /\ broker[c] # "up"

\* README.md: exchanging the handoff "starts the local socket": mobius-ssh reaches
\* the broker of the active session - unless an earlier broker's expiry thread, late
\* in its stop(), unlinked the path after this one was bound to it.  Nothing else,
\* no failed or overtaken activation, takes the path away.
SocketServed ==
  \A c \in Codes :
    lock = None /\ active = c /\ broker[c] = "up" => socket = c \/ c \in stolen

-----------------------------------------------------------------------------
(* What they rest on, as an inductive invariant.                            *)

\* The threads inside a region of the runtime lock; a broker's own expiry thread stops
\* it without that lock.
Inside == {t \in Threads : \/ pc[t] \in {"clear", "build"}
                           \/ pc[t] \in {"stop", "unlink"} /\ then[t] # "expire"}

\* The lock is held by whom is inside, and nothing is active meanwhile.
LockInv ==
  /\ \A t \in Threads : t \in Inside <=> lock = t
  /\ lock # None => active = None

\* What a thread has in hand at each step: what follows the step, which session it
\* revokes or stops, and that a finish is about a session whose page was served.
ThreadInv ==
  \A t \in Threads :
    /\ pc[t] \in {"idle", "check", "gate", "accept", "send", "pop", "close"} => then[t] = "idle"
    /\ pc[t] \in {"mark", "revoke"} => then[t] \notin {"build", "expire"}
    /\ pc[t] \in {"activate", "build"} => then[t] = "build"
    /\ pc[t] = "clear" => then[t] # "expire"
    /\ pc[t] = "expire" => then[t] = "expire"
    /\ pc[t] \in {"mark", "revoke", "stop", "unlink"} => target[t] \in Codes
    /\ pc[t] \in {"gate", "accept", "send", "pop"} => about[t] \in served
    /\ then[t] \in {"send", "report"} => about[t] \in served /\ target[t] = about[t]

Activating(t) == pc[t] \in {"check", "activate", "build"} \/ then[t] \in {"check", "build"}

\* A session is activated by one thread, once: its page is served when that is over.
ActivateInv ==
  /\ \A t \in Threads : Activating(t) =>
       /\ about[t] \in Codes \ served /\ state[about[t]] # "unused"
       /\ \A u \in Threads : Activating(u) /\ about[u] = about[t] => u = t
  /\ \A c \in served : state[c] # "unused"
  /\ quiesced \cup reported \subseteq served

IInv ==
  /\ RuntimeTypeOK /\ LockInv /\ ThreadInv /\ ActivateInv
  /\ BrokerOwned /\ OwnerAgrees /\ QuiescedIsDown /\ SocketServed

-----------------------------------------------------------------------------
(* Liveness.                                                                *)

\* Once its deadline has passed no broker keeps serving a session's capability,
\* even one built by an activation that lost its race with the revocation.
BrokersDie == \A c \in Codes : (c \in past /\ broker[c] = "up") ~> (broker[c] = "down")

-----------------------------------------------------------------------------
(* Claims of the repository that these interleavings break.                 *)

\* README.md: ending "stops provider processes, removes temporary files" and "refuses
\* to report success if credential removal fails": when the end was reported, no
\* credential that the session's owner connected is stored.
FinishRemovesCredentials == \A c \in reported : creds # c

\* app.py, session_start: when the set-up fails the owner keeps "an authenticated
\* page from which the owner can end it safely": with nothing in flight, the close
\* is not already claimed for a session that is not closing, so that its finish
\* would be refused with 409.
FailedSetupCanFinish ==
  (\A t \in Threads : Idle(t)) /\ gate =>
    ~\E c \in served : state[c] = "open" /\ Live(c) /\ active # c
==============================================================================
