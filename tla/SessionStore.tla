---------------------------- MODULE SessionStore ----------------------------
(***************************************************************************)
(* recovery_worker/sessions.py: SessionStore and the life cycle of         *)
(* RecoverySession, with every thread that can be inside it at once.       *)
(*                                                                         *)
(* One action is one critical section of the store's lock, one call to the *)
(* launcher or one callback: that is where threads interleave.  A launch   *)
(* code stands for itself, for the session it buys and for the browser     *)
(* token handed out for that session (all three are fresh per start()).    *)
(*                                                                         *)
(* The store calls back into its owner (on_revoke, on_finish_accepted) and *)
(* out to the launcher (ControlClient); here a callback either returns or  *)
(* raises.  RecoveryRuntime models what the callbacks do.                  *)
(***************************************************************************)
EXTENDS Naturals, FiniteSets

CONSTANTS
  Codes,        \* launch codes the launcher may issue to this worker
  Requests,     \* threads that run request handlers (asyncio.to_thread)
  Reapers,      \* timer, broker-expiry and shutdown threads
  StartBurst,   \* START_ATTEMPT_BURST: capacity of the start() rate bucket
  None          \* no session

ASSUME StoreAssumption ==
  /\ None \notin Codes
  /\ Requests \cap Reapers = {}
  /\ StartBurst \in Nat \ {0}

VARIABLES
  sessions,       \* the stored session (_sessions holds at most one) or None
  usedCodes,      \* _used_codes: codes whose exchange succeeded
  startingCodes,  \* _starting_codes
  startTokens,    \* whole tokens in _start_tokens
  expiryTimer,    \* session the timer held in _expiry_timer was armed for
  ticking,        \* that timer has not fired yet
  past,           \* sessions whose absolute deadline has passed
  revoked,        \* RecoverySession._revoked; the capability is cleared
  finishing,      \* RecoverySession._finishing
  closed,         \* SessionStore.close has run
  pc,             \* per thread: its next step
  subject,        \* per thread: the session start() or begin_finish() is about
  victim,         \* per thread: the session it has to revoke
  then,           \* per thread: what follows the revocation
  quiesced,       \* sessions whose on_finish_accepted returned
  cleaned,        \* sessions for which some on_revoke returned
  ended,          \* sessions the launcher has finished
  handed,         \* sessions whose browser token start() returned
  reported        \* sessions begin_finish reported as finished

storeVars == <<sessions, usedCodes, startingCodes, startTokens, expiryTimer,
               ticking, past, revoked, finishing, closed>>
threadVars == <<pc, subject, victim, then>>
ghostVars  == <<quiesced, cleaned, ended, handed, reported>>
vars == <<storeVars, threadVars, ghostVars>>

Threads == Requests \cup Reapers

Labels == {"idle", "exchange", "mark", "callback", "ack", "lookup", "flag",
           "quiesce", "send", "reply", "pop", "expire"}
Continuations == {"idle", "ack", "report"}

TypeOK ==
  /\ sessions \in Codes \cup {None}
  /\ usedCodes \subseteq Codes /\ startingCodes \subseteq Codes
  /\ startTokens \in 0 .. StartBurst
  /\ expiryTimer \in Codes \cup {None} /\ ticking \in BOOLEAN
  /\ past \subseteq Codes /\ revoked \subseteq Codes
  /\ finishing \subseteq Codes /\ closed \in BOOLEAN
  /\ pc \in [Threads -> Labels] /\ then \in [Threads -> Continuations]
  /\ subject \in [Threads -> Codes \cup {None}]
  /\ victim \in [Threads -> Codes \cup {None}]
  /\ quiesced \subseteq Codes /\ cleaned \subseteq Codes /\ ended \subseteq Codes
  /\ handed \subseteq Codes /\ reported \subseteq Codes

Init ==
  /\ sessions = None /\ usedCodes = {} /\ startingCodes = {}
  /\ startTokens = StartBurst
  /\ expiryTimer = None /\ ticking = FALSE
  /\ past = {} /\ revoked = {} /\ finishing = {} /\ closed = FALSE
  /\ pc = [t \in Threads |-> "idle"] /\ then = [t \in Threads |-> "idle"]
  /\ subject = [t \in Threads |-> None] /\ victim = [t \in Threads |-> None]
  /\ quiesced = {} /\ cleaned = {} /\ ended = {} /\ handed = {} /\ reported = {}

-----------------------------------------------------------------------------
(* The parts critical sections share.                                       *)

Goto(t, label) == pc' = [pc EXCEPT ![t] = label]

Idle(t) == pc[t] = "idle"

\* The operation returns or raises: its thread forgets what it worked on.
Leave(t) ==
  /\ Goto(t, "idle")
  /\ subject' = [subject EXCEPT ![t] = None]
  /\ victim' = [victim EXCEPT ![t] = None]
  /\ then' = [then EXCEPT ![t] = "idle"]

\* _schedule_expiry_locked: forget the held timer and arm one for what is stored
Schedule(stored) == expiryTimer' = stored /\ ticking' = (stored # None)

Live(c) == sessions = c /\ c \notin revoked /\ c \notin past

\* Take c out of _sessions and re-arm the timer for what remains: nothing.
Remove == sessions' = None /\ Schedule(None)

\* The thread leaves its critical section owing SessionStore._revoke(c).
OweRevoke(t, c, next) ==
  /\ Goto(t, "mark") /\ UNCHANGED subject
  /\ victim' = [victim EXCEPT ![t] = c]
  /\ then' = [then EXCEPT ![t] = next]

-----------------------------------------------------------------------------
(* start(): claim the gate, exchange, install, revoke the replaced session, *)
(* acknowledge, return the browser token.                                   *)

Start(t, c) ==
  /\ Idle(t) /\ ~closed
  /\ startTokens > 0 /\ startingCodes = {} /\ c \notin usedCodes
  /\ startTokens' = startTokens - 1
  /\ startingCodes' = startingCodes \cup {c}
  /\ subject' = [subject EXCEPT ![t] = c]
  /\ Goto(t, "exchange")
  /\ UNCHANGED <<sessions, usedCodes, expiryTimer, ticking, past, revoked,
                 finishing, closed, victim, then, ghostVars>>

\* The launcher refused, or both transport attempts failed.
ExchangeFail(t) ==
  /\ pc[t] = "exchange"
  /\ startingCodes' = startingCodes \ {subject[t]}
  /\ Leave(t)
  /\ UNCHANGED <<sessions, usedCodes, startTokens, expiryTimer, ticking, past,
                 revoked, finishing, closed, ghostVars>>

\* Mutant: no timer is armed for the new session.
InstallUnarmed(t) ==
  /\ pc[t] = "exchange"
  /\ startingCodes' = startingCodes \ {subject[t]}
  /\ usedCodes' = usedCodes \cup {subject[t]}
  /\ sessions' = subject[t]
  /\ IF sessions = None THEN Goto(t, "ack") /\ UNCHANGED <<subject, victim, then>>
                        ELSE OweRevoke(t, sessions, "ack")
  /\ UNCHANGED <<startTokens, expiryTimer, ticking, past, revoked, finishing, closed, ghostVars>>

\* Mutant: the replaced session is not revoked.
InstallForgetsReplaced(t) ==
  /\ pc[t] = "exchange"
  /\ startingCodes' = startingCodes \ {subject[t]}
  /\ usedCodes' = usedCodes \cup {subject[t]}
  /\ sessions' = subject[t]
  /\ Schedule(subject[t])
  /\ Goto(t, "ack") /\ UNCHANGED <<subject, victim, then>>
  /\ UNCHANGED <<startTokens, past, revoked, finishing, closed, ghostVars>>

Install(t) ==
  LET c == subject[t] IN
  /\ pc[t] = "exchange"
  /\ startingCodes' = startingCodes \ {c}
  /\ usedCodes' = usedCodes \cup {c}
  /\ sessions' = c
  /\ Schedule(c)
  /\ IF sessions = None THEN Goto(t, "ack") /\ UNCHANGED <<subject, victim, then>>
                        ELSE OweRevoke(t, sessions, "ack")
  /\ UNCHANGED <<startTokens, past, revoked, finishing, closed, ghostVars>>

\* acknowledge() succeeded or raised ProtocolError: start() returns either way.
StartReturn(t) ==
  /\ pc[t] = "ack"
  /\ handed' = handed \cup {subject[t]}
  /\ Leave(t)
  /\ UNCHANGED <<storeVars, quiesced, cleaned, ended, reported>>

\* Mutant: the bucket has no capacity.
RefillUncapped ==
  /\ startTokens' = startTokens + 1
  /\ UNCHANGED <<sessions, usedCodes, startingCodes, expiryTimer, ticking, past,
                 revoked, finishing, closed, threadVars, ghostVars>>

\* START_ATTEMPT_REFILL_SECONDS have passed.
Refill ==
  /\ startTokens < StartBurst
  /\ startTokens' = startTokens + 1
  /\ UNCHANGED <<sessions, usedCodes, startingCodes, expiryTimer, ticking, past,
                 revoked, finishing, closed, threadVars, ghostVars>>

-----------------------------------------------------------------------------
(* SessionStore._revoke: mark the session, then call the owner back.        *)

\* RecoverySession.revoke: set _revoked, clear the capability and the messages.
Mark(t) ==
  /\ pc[t] = "mark"
  /\ revoked' = revoked \cup {victim[t]}
  /\ Goto(t, "callback")
  /\ UNCHANGED <<sessions, usedCodes, startingCodes, startTokens, expiryTimer, ticking,
                 past, finishing, closed, subject, victim, then, ghostVars>>

CallbackReturn(t) ==
  /\ pc[t] = "callback"
  /\ cleaned' = cleaned \cup {victim[t]}
  /\ reported' = IF then[t] = "report" THEN reported \cup {victim[t]} ELSE reported
  /\ IF then[t] = "ack"
       THEN /\ Goto(t, "ack") /\ UNCHANGED subject
            /\ victim' = [victim EXCEPT ![t] = None]
            /\ then' = [then EXCEPT ![t] = "idle"]
       ELSE Leave(t)
  /\ UNCHANGED <<storeVars, quiesced, ended, handed>>

\* Mutant: the exception is swallowed and the finish reported.
CallbackRaiseSwallowed(t) ==
  /\ pc[t] = "callback"
  /\ reported' = IF then[t] = "report" THEN reported \cup {victim[t]} ELSE reported
  /\ Leave(t)
  /\ UNCHANGED <<storeVars, quiesced, cleaned, ended, handed>>

\* on_revoke raised (a file that cannot be removed): the operation raises too.
CallbackRaise(t) ==
  /\ pc[t] = "callback"
  /\ Leave(t)
  /\ UNCHANGED <<storeVars, ghostVars>>

-----------------------------------------------------------------------------
(* Expiry: the deadline, the timer, get() on a dead session, close().       *)

\* The absolute deadline does not move: activity renews the idle one only.
Deadline(c) ==
  /\ c \in usedCodes \ past
  /\ past' = past \cup {c}
  /\ UNCHANGED <<sessions, usedCodes, startingCodes, startTokens, expiryTimer, ticking,
                 revoked, finishing, closed, threadVars, ghostVars>>

\* Mutant: the capability is cleared while the session is still in the store.
GetDeadClearsFirst(t, c) ==
  /\ Idle(t) /\ ~closed /\ c \in handed
  /\ sessions = c /\ ~Live(c)
  /\ revoked' = revoked \cup {c}
  /\ Remove
  /\ OweRevoke(t, c, "idle")
  /\ UNCHANGED <<usedCodes, startingCodes, startTokens, past, finishing, closed, ghostVars>>

\* get() under a token whose session is stored but no longer live.
GetDead(t, c) ==
  /\ Idle(t) /\ ~closed /\ c \in handed
  /\ sessions = c /\ ~Live(c)
  /\ Remove
  /\ OweRevoke(t, c, "idle")
  /\ UNCHANGED <<usedCodes, startingCodes, startTokens, past, revoked, finishing,
                 closed, ghostVars>>

\* The held timer fires: expire() is about to run on its own thread.
TimerFire(t) ==
  /\ Idle(t) /\ ticking /\ expiryTimer \in past
  /\ ticking' = FALSE
  /\ Goto(t, "expire")
  /\ UNCHANGED <<sessions, usedCodes, startingCodes, startTokens, expiryTimer, past,
                 revoked, finishing, closed, subject, victim, then, ghostVars>>

\* expire() called by a broker's expiry thread, or by a timer that an earlier
\* expire() dropped from _expiry_timer without cancelling it.
StrayExpire(t) ==
  /\ Idle(t) /\ past # {}
  /\ Goto(t, "expire")
  /\ UNCHANGED <<storeVars, subject, victim, then, ghostVars>>

\* Mutant: the expired session is dropped without being revoked.
ExpireForgets(t) ==
  /\ pc[t] = "expire"
  /\ IF sessions \in past THEN Remove ELSE Schedule(sessions) /\ UNCHANGED sessions
  /\ Leave(t)
  /\ UNCHANGED <<usedCodes, startingCodes, startTokens, past, revoked, finishing,
                 closed, ghostVars>>

Expire(t) ==
  /\ pc[t] = "expire"
  /\ IF sessions \in past
       THEN Remove /\ OweRevoke(t, sessions, "idle")
       ELSE Schedule(sessions) /\ Leave(t) /\ UNCHANGED sessions
  /\ UNCHANGED <<usedCodes, startingCodes, startTokens, past, revoked, finishing,
                 closed, ghostVars>>

\* Lifespan shutdown: the server has let its requests finish.
Close(t) ==
  /\ Idle(t) /\ ~closed
  /\ \A r \in Requests : Idle(r)
  /\ closed' = TRUE
  /\ Remove
  /\ IF sessions = None THEN UNCHANGED threadVars
                        ELSE OweRevoke(t, sessions, "idle")
  /\ UNCHANGED <<usedCodes, startingCodes, startTokens, past, revoked, finishing,
                 ghostVars>>

-----------------------------------------------------------------------------
(* begin_finish() and poll_finish().                                        *)

FinishLookup(t, c) ==
  /\ sessions = c
  /\ subject' = [subject EXCEPT ![t] = c]
  /\ Goto(t, "flag")
  /\ UNCHANGED <<storeVars, victim, then, ghostVars>>

BeginFinish(t, c) == Idle(t) /\ ~closed /\ c \in handed /\ FinishLookup(t, c)

\* poll_finish(): get() first - here the session it found is live ...
PollFinish(t, c) ==
  /\ Idle(t) /\ ~closed /\ c \in handed /\ Live(c)
  /\ subject' = [subject EXCEPT ![t] = c]
  /\ Goto(t, "lookup")
  /\ UNCHANGED <<storeVars, victim, then, ghostVars>>

\* ... and then begin_finish(), if the session is closing and still stored.
PollLookup(t) ==
  /\ pc[t] = "lookup"
  /\ \/ subject[t] \in finishing /\ FinishLookup(t, subject[t])
     \/ /\ subject[t] \notin finishing \/ sessions # subject[t]
        /\ Leave(t)
        /\ UNCHANGED <<storeVars, ghostVars>>

\* Only the first finish quiesces; every later one goes straight to the launcher.
Flag(t) ==
  /\ pc[t] = "flag"
  /\ finishing' = finishing \cup {subject[t]}
  /\ Goto(t, IF subject[t] \in finishing THEN "send" ELSE "quiesce")
  /\ UNCHANGED <<sessions, usedCodes, startingCodes, startTokens, expiryTimer, ticking,
                 past, revoked, closed, subject, victim, then, ghostVars>>

QuiesceReturn(t) ==
  /\ pc[t] = "quiesce"
  /\ quiesced' = quiesced \cup {subject[t]}
  /\ Goto(t, "send")
  /\ UNCHANGED <<storeVars, subject, victim, then, cleaned, ended, handed, reported>>

QuiesceRaise(t) ==
  /\ pc[t] = "quiesce"
  /\ Leave(t)
  /\ UNCHANGED <<storeVars, ghostVars>>

\* The launcher processes the request: it needs the session's capability,
\* which RecoverySession.revoke clears.
FinishSend(t) ==
  /\ pc[t] = "send" /\ subject[t] \notin revoked
  /\ ended' = ended \cup {subject[t]}
  /\ Goto(t, "reply")
  /\ UNCHANGED <<storeVars, subject, victim, then, quiesced, cleaned, handed, reported>>

\* Refused, or both attempts were lost - before or after the launcher acted.
FinishError(t) ==
  /\ pc[t] \in {"send", "reply"}
  /\ Leave(t)
  /\ UNCHANGED <<storeVars, ghostVars>>

FinishReply(t) ==
  /\ pc[t] = "reply"
  /\ Goto(t, "pop")
  /\ UNCHANGED <<storeVars, subject, victim, then, ghostVars>>

\* Mutant: the finished session stays in the store.
PopKeeps(t) ==
  /\ pc[t] = "pop"
  /\ OweRevoke(t, subject[t], "report")
  /\ UNCHANGED <<sessions, expiryTimer, ticking, usedCodes, startingCodes, startTokens, past,
                 revoked, finishing, closed, ghostVars>>

Pop(t) ==
  /\ pc[t] = "pop"
  /\ IF sessions = subject[t] THEN Remove
                              ELSE UNCHANGED <<sessions, expiryTimer, ticking>>
  /\ OweRevoke(t, subject[t], "report")
  /\ UNCHANGED <<usedCodes, startingCodes, startTokens, past, revoked, finishing,
                 closed, ghostVars>>

-----------------------------------------------------------------------------
RequestStep(t) ==
  \/ \E c \in Codes : Start(t, c) \/ GetDead(t, c) \/ BeginFinish(t, c) \/ PollFinish(t, c)
  \/ ExchangeFail(t) \/ Install(t) \/ StartReturn(t)
  \/ PollLookup(t) \/ Flag(t) \/ QuiesceReturn(t) \/ QuiesceRaise(t)
  \/ FinishSend(t) \/ FinishError(t) \/ FinishReply(t) \/ Pop(t)

ReaperStep(t) == TimerFire(t) \/ StrayExpire(t) \/ Expire(t) \/ Close(t)

RevokeStep(t) == Mark(t) \/ CallbackReturn(t) \/ CallbackRaise(t)

Next ==
  \/ \E t \in Requests : RequestStep(t)
  \/ \E t \in Reapers : ReaperStep(t)
  \/ \E t \in Threads : RevokeStep(t)
  \/ Refill
  \/ \E c \in Codes : Deadline(c)

\* A started operation keeps running: every call in it returns or raises (the
\* launcher client has timeouts).
Continue(t) ==
  \/ ExchangeFail(t) \/ Install(t) \/ StartReturn(t) \/ RevokeStep(t) \/ PollLookup(t)
  \/ Flag(t) \/ QuiesceReturn(t) \/ QuiesceRaise(t) \/ FinishSend(t) \/ FinishError(t)
  \/ FinishReply(t) \/ Pop(t) \/ Expire(t)

SafeSpec == Init /\ [][Next]_vars

\* Threads are scheduled and an armed timer fires; nothing else is promised.
Fairness ==
  /\ \A t \in Threads : WF_vars(Continue(t))
  /\ WF_vars(\E t \in Reapers : TimerFire(t))

Spec == SafeSpec /\ Fairness

-----------------------------------------------------------------------------
(* Safety.                                                                  *)

\* t holds the duty to revoke c, and has not discharged it yet.
Owes(t, c) == pc[t] = "mark" /\ victim[t] = c

\* No session is lost: one that a code bought and that is no longer stored has
\* had its capability cleared, or a running thread is about to clear it.  Every
\* path that takes a session out of _sessions (start, get, expire, close,
\* begin_finish) drops the lock before it revokes.
NoOrphan ==
  \A c \in usedCodes :
    sessions = c \/ c \in revoked \/ \E t \in Threads : Owes(t, c)

\* The converse: what can be looked up still has its capability, no thread is
\* about to take it away, and the code that bought it is spent.
StoredSessionIsLive ==
  sessions # None =>
    /\ sessions \in usedCodes \ revoked
    /\ \A t \in Threads : ~Owes(t, sessions)

\* A stored session always has a way to expire: the held timer was armed for
\* it and has not fired, or a thread is about to run expire().
TimerCovers ==
  sessions # None =>
    /\ expiryTimer = sessions
    /\ ticking \/ \E t \in Reapers : pc[t] = "expire"

\* start() is single-flight: the gate holds exactly the codes being exchanged,
\* one at most, and never a code that was already spent.
StartGate ==
  /\ startingCodes = {subject[t] : t \in {u \in Threads : pc[u] = "exchange"}}
  /\ startingCodes \cap usedCodes = {}
  /\ \A t, u \in Threads : pc[t] = "exchange" /\ pc[u] = "exchange" => t = u

\* When the owner is told that recovery is finished it is over everywhere: the
\* launcher has ended it, the capability is cleared, the session cannot be
\* looked up again, and the owner's clean-up for it returned without error.
ReportedIsOver ==
  \A c \in reported :
    c \in ended /\ c \in revoked /\ c \in cleaned /\ sessions # c

\* Two concurrent ends of one session run on_finish_accepted once.
QuiesceOnce ==
  \A t \in Threads : pc[t] = "quiesce" =>
    /\ subject[t] \notin quiesced
    /\ \A u \in Threads \ {t} : pc[u] = "quiesce" => subject[u] # subject[t]

-----------------------------------------------------------------------------
(* What the safety properties rest on, as an inductive invariant.           *)

Finishing == {"lookup", "flag", "quiesce", "send", "reply", "pop"}
Revoking  == {"mark", "callback"}

\* What a thread's place in an operation says about the session it works on.
ThreadInv ==
  \A t \in Threads :
    /\ pc[t] = "exchange" => subject[t] \in Codes
    /\ pc[t] \in Finishing \cup {"ack"} => subject[t] \in usedCodes
    /\ pc[t] = "quiesce" => subject[t] \in finishing
    /\ pc[t] \in {"reply", "pop"} => subject[t] \in ended
    /\ pc[t] \in Revoking => victim[t] \in usedCodes /\ victim[t] # sessions
    /\ pc[t] = "callback" => victim[t] \in revoked
    /\ pc[t] \in Revoking /\ then[t] = "ack" => subject[t] \in usedCodes
    /\ pc[t] \in Revoking /\ then[t] = "report" => victim[t] \in ended
    /\ pc[t] = "expire" => t \in Reapers

\* Where the sets of sessions lie in one another.
SetsInv ==
  /\ revoked \subseteq usedCodes /\ handed \subseteq usedCodes
  /\ quiesced \subseteq finishing /\ finishing \subseteq usedCodes
  /\ reported \subseteq ended \cap revoked \cap cleaned

IInv ==
  TypeOK /\ ThreadInv /\ SetsInv /\ NoOrphan /\ StoredSessionIsLive
    /\ TimerCovers /\ StartGate /\ QuiesceOnce

-----------------------------------------------------------------------------
(* Action and liveness properties.                                          *)

\* A code, once spent, never opens a session again; a session that left the
\* store never comes back to it.
NoComeback ==
  [][\A c \in Codes : c \in usedCodes /\ sessions # c => sessions' # c]_vars

\* A session past its deadline leaves the store, whoever holds the timer.
ExpiryHappens ==
  \A c \in Codes : (sessions = c /\ c \in past) ~> (sessions # c)

-----------------------------------------------------------------------------
(* The store implements SessionSlot.                                        *)

slotState ==
  [c \in Codes |->
    CASE sessions = c /\ c \notin finishing  -> "open"
      [] sessions = c /\ c \in finishing     -> "closing"
      [] sessions # c /\ c \notin usedCodes  -> "unused"
      [] sessions # c /\ c \in usedCodes /\ c \notin revoked -> "removed"
      [] OTHER -> "revoked"]

Slot == INSTANCE SessionSlot WITH state <- slotState

\* Every step of the store is a step of the slot, or none: one session reachable
\* at a time, and out of the store before its capability goes.
SlotSafeSpec == Slot!SafeSpec

\* And what leaves the store is revoked in the end.
SlotSpec == Slot!Spec
=============================================================================
