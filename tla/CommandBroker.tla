---------------------------- MODULE CommandBroker ----------------------------
(***************************************************************************)
(* recovery_worker/broker.py: one CommandBroker, its _UnixServer and the   *)
(* handler threads, from mobius-ssh connecting (command_cli.py,            *)
(* broker_request) to the launcher running the command (control.py: exec), *)
(* against stop(), the deadline and the revocation of the session.         *)
(*                                                                         *)
(* A client is one mobius-ssh invocation; its name is used again when both *)
(* it and its handler are done.                                            *)
(***************************************************************************)
EXTENDS Naturals, Sequences, FiniteSets

CONSTANTS
  Clients,   \* mobius-ssh invocations that may overlap
  None       \* no client

ASSUME BrokerAssumption == IsFiniteSet(Clients) /\ None \notin Clients

VARIABLES
  stage,      \* stop(): not called, or its next step, or returned
  revoked,    \* _UnixServer.revoked
  closers,    \* who set it and has yet to close the connections: clients, "stop"
  serving,    \* serve_forever is running
  backlog,    \* clients the kernel has queued, first come first served
  accepting,  \* the client in get_request()
  registered, \* _connections
  open,       \* clients whose connection is not closed
  pc,         \* per client: where its handler is
  answer,     \* per client: the response its handler prepared
  got,        \* per client: what mobius-ssh was told
  past,       \* expires_at has passed
  cleared,    \* ExchangeResult.clear: the capability is gone
  ran         \* per client: how often the target ran its command (history)

serverVars == <<stage, revoked, closers, serving, backlog, accepting, registered>>
clientVars == <<open, pc, answer, got>>
timeVars   == <<past, cleared>>
vars == <<serverVars, clientVars, timeVars, ran>>

Stages == {"up", "revoke", "shutdown", "close", "down"}
Labels == {"idle", "queued", "active", "read", "exec", "wait", "check", "reply", "close"}

TypeOK ==
  /\ stage \in Stages /\ revoked \in BOOLEAN /\ serving \in BOOLEAN
  /\ closers \subseteq Clients \cup {None, "stop"}
  /\ backlog \in Seq(Clients) /\ Len(backlog) <= Cardinality(Clients)
  /\ accepting \in Clients \cup {None}
  /\ registered \subseteq Clients /\ open \subseteq Clients
  /\ pc \in [Clients -> Labels]
  /\ answer \in [Clients -> {"ok", "error"}] /\ got \in [Clients -> {"ok", "error"}]
  /\ past \in BOOLEAN /\ cleared \in BOOLEAN
  /\ ran \in [Clients -> Nat]

\* The broker after start().
Init ==
  /\ stage = "up" /\ revoked = FALSE /\ closers = {} /\ serving = TRUE
  /\ backlog = <<>> /\ accepting = None /\ registered = {} /\ open = {}
  /\ pc = [c \in Clients |-> "idle"]
  /\ answer = [c \in Clients |-> "error"] /\ got = [c \in Clients |-> "error"]
  /\ past = FALSE /\ cleared = FALSE
  /\ ran = [c \in Clients |-> 0]

-----------------------------------------------------------------------------
Goto(c, label) == pc' = [pc EXCEPT ![c] = label]

Active == ~revoked /\ ~past

\* _UnixServer.revoke, first half: set the flag - or return, if it is set.
RevokeFlag(who) ==
  /\ revoked' = TRUE
  /\ closers' = IF revoked THEN closers ELSE closers \cup {who}

\* ensure_active() failed.
Inactive(who) == ~Active /\ RevokeFlag(who)

\* Second half, by whoever set it: the connections it finds are closed.
CloseConnections(who) ==
  /\ who \in closers /\ closers' = closers \ {who}
  /\ open' = open \ registered
  /\ registered' = {}
  /\ UNCHANGED <<stage, revoked, serving, backlog, accepting, pc, answer, got, timeVars, ran>>

\* A thread that is closing connections does nothing else.
Busy(who) == who \in closers

-----------------------------------------------------------------------------
(* Connecting and accepting: the server thread.                             *)

\* connect() and sendall(): the kernel queues it while the path is bound.
Connect(c) ==
  /\ pc[c] = "idle" /\ c \notin open
  /\ stage # "down"
  /\ Goto(c, "queued") /\ open' = open \cup {c}
  /\ backlog' = Append(backlog, c)
  /\ ran' = [ran EXCEPT ![c] = 0]
  /\ answer' = [answer EXCEPT ![c] = "error"] /\ got' = [got EXCEPT ![c] = "error"]
  /\ UNCHANGED <<stage, revoked, closers, serving, accepting, registered, timeVars>>

\* Mutant: the connection that is accepted stays queued.
AcceptPeeks ==
  /\ serving /\ accepting = None /\ ~Busy(None)
  /\ backlog # <<>> /\ Active
  /\ accepting' = Head(backlog)
  /\ UNCHANGED <<stage, revoked, closers, serving, backlog, registered, clientVars, timeVars,
                 ran>>

\* get_request(): accept() and the first ensure_active().
Accept ==
  /\ serving /\ accepting = None /\ ~Busy(None)
  /\ backlog # <<>> /\ Active
  /\ accepting' = Head(backlog) /\ backlog' = Tail(backlog)
  /\ UNCHANGED <<stage, revoked, closers, serving, registered, clientVars, timeVars, ran>>

\* It fails: the connection is closed, and the ProtocolError, which is no OSError,
\* ends serve_forever.
AcceptRefuse ==
  /\ serving /\ accepting = None /\ ~Busy(None)
  /\ backlog # <<>> /\ Inactive(None)
  /\ serving' = FALSE
  /\ open' = open \ {Head(backlog)} /\ Goto(Head(backlog), "idle")
  /\ backlog' = Tail(backlog)
  /\ UNCHANGED <<stage, accepting, registered, answer, got, timeVars, ran>>

\* Mutant: revoked is not looked at again under the lock.
RegisterUnchecked ==
  /\ accepting # None
  /\ accepting' = None
  /\ registered' = registered \cup {accepting}
  /\ Goto(accepting, "active")
  /\ UNCHANGED <<stage, revoked, closers, serving, backlog, open, answer, got, timeVars, ran>>

\* Under _connections_lock: register it, unless it was revoked meanwhile.
Register ==
  /\ accepting # None
  /\ accepting' = None
  /\ IF revoked
       THEN /\ open' = open \ {accepting} /\ Goto(accepting, "idle")
            /\ serving' = FALSE /\ UNCHANGED registered
       ELSE /\ registered' = registered \cup {accepting}
            /\ Goto(accepting, "active") /\ UNCHANGED <<open, serving>>
  /\ UNCHANGED <<stage, revoked, closers, backlog, answer, got, timeVars, ran>>

-----------------------------------------------------------------------------
(* A handler thread.                                                        *)

EnsureActive(c) ==
  /\ pc[c] = "active"
  /\ \/ Active /\ Goto(c, "read") /\ UNCHANGED <<revoked, closers>>
     \/ Inactive(c) /\ Goto(c, "reply")
  /\ UNCHANGED <<stage, serving, backlog, accepting, registered, open, answer, got, timeVars, ran>>

\* readline(): the request, which may be no exec; or nothing, because the
\* connection was closed.
Read(c) ==
  /\ pc[c] = "read"
  /\ \/ c \in open /\ Goto(c, "exec")
     \/ Goto(c, "reply")
  /\ UNCHANGED <<serverVars, open, answer, got, timeVars, ran>>

\* control.exec: the launcher runs the command if it knows the capability.
Exec(c) ==
  /\ pc[c] = "exec" /\ ~cleared
  /\ ran' = [ran EXCEPT ![c] = @ + 1]
  /\ Goto(c, "wait")
  /\ UNCHANGED <<serverVars, open, answer, got, timeVars>>

\* It answered with the result.
ExecOk(c) ==
  /\ pc[c] = "wait" /\ ~past
  /\ Goto(c, "check")
  /\ UNCHANGED <<serverVars, open, answer, got, timeVars, ran>>

\* Mutant: exec() is repeated when its answer is lost.
ExecFailRetries(c) ==
  /\ \/ pc[c] = "exec" /\ Goto(c, "reply")
     \/ pc[c] = "wait" /\ Goto(c, "exec")
  /\ UNCHANGED <<serverVars, open, answer, got, timeVars, ran>>

\* It refused, could not be reached, or its answer was lost or malformed or has a
\* deadline that is over: exec() is not repeated.
ExecFail(c) ==
  /\ pc[c] \in {"exec", "wait"}
  /\ Goto(c, "reply")
  /\ UNCHANGED <<serverVars, open, answer, got, timeVars, ran>>

\* The second ensure_active().
Check(c) ==
  /\ pc[c] = "check"
  /\ Goto(c, "reply")
  /\ \/ Active /\ answer' = [answer EXCEPT ![c] = "ok"] /\ UNCHANGED <<revoked, closers>>
     \/ Inactive(c) /\ UNCHANGED answer
  /\ UNCHANGED <<stage, serving, backlog, accepting, registered, open, got, timeVars, ran>>

\* The response is written, if the connection is still there.
Reply(c) ==
  /\ pc[c] = "reply" /\ ~Busy(c)
  /\ got' = [got EXCEPT ![c] = IF c \in open THEN answer[c] ELSE @]
  /\ Goto(c, "close")
  /\ UNCHANGED <<serverVars, open, answer, timeVars, ran>>

\* close_request().
CloseRequest(c) ==
  /\ pc[c] = "close"
  /\ registered' = registered \ {c} /\ open' = open \ {c}
  /\ Goto(c, "idle")
  /\ UNCHANGED <<stage, revoked, closers, serving, backlog, accepting, answer, got, timeVars, ran>>

-----------------------------------------------------------------------------
(* stop(), the deadline, the revocation of the session.                     *)

\* Whoever calls it first: RecoveryRuntime, or the expiry thread.
StopBegin ==
  /\ stage = "up"
  /\ stage' = "revoke"
  /\ UNCHANGED <<revoked, closers, serving, backlog, accepting, registered, clientVars, timeVars, ran>>

StopRevoke ==
  /\ stage = "revoke"
  /\ RevokeFlag("stop")
  /\ stage' = "shutdown"
  /\ UNCHANGED <<serving, backlog, accepting, registered, clientVars, timeVars, ran>>

\* server.shutdown(): serve_forever ends between two requests, or has ended.
StopShutdown ==
  /\ stage = "shutdown" /\ ~Busy("stop") /\ accepting = None /\ ~Busy(None)
  /\ serving' = FALSE
  /\ stage' = "close"
  /\ UNCHANGED <<revoked, closers, backlog, accepting, registered, clientVars, timeVars, ran>>

\* Mutant: the queue is left to the kernel.
StopCloseQueued ==
  /\ stage = "close"
  /\ stage' = "down"
  /\ UNCHANGED <<revoked, closers, serving, backlog, accepting, registered, clientVars, timeVars,
                 ran>>

\* server_close() and unlink(): what was queued is reset; handlers are not awaited.
StopClose ==
  LET queued == {c \in Clients : pc[c] = "queued"} IN
  /\ stage = "close"
  /\ stage' = "down"
  /\ backlog' = <<>>
  /\ open' = open \ queued
  /\ pc' = [c \in Clients |-> IF c \in queued THEN "idle" ELSE pc[c]]
  /\ UNCHANGED <<revoked, closers, serving, accepting, registered, answer, got, timeVars,
                 ran>>

Deadline ==
  /\ ~past /\ past' = TRUE
  /\ UNCHANGED <<serverVars, clientVars, cleared, ran>>

ClearCapability ==
  /\ ~cleared /\ cleared' = TRUE
  /\ UNCHANGED <<serverVars, clientVars, past, ran>>

-----------------------------------------------------------------------------
Server == Accept \/ AcceptRefuse \/ Register

Handler(c) ==
  \/ EnsureActive(c) \/ Read(c) \/ Exec(c) \/ ExecOk(c) \/ ExecFail(c) \/ Check(c)
  \/ Reply(c) \/ CloseRequest(c)

Stop == StopRevoke \/ StopShutdown \/ StopClose

Closer == \E who \in closers : CloseConnections(who)

Next ==
  \/ Server \/ Closer \/ StopBegin \/ Stop \/ Deadline \/ ClearCapability
  \/ \E c \in Clients : Connect(c) \/ Handler(c)

SafeSpec == Init /\ [][Next]_vars

\* Threads are scheduled, calls to the launcher time out, and the expiry thread
\* stops the broker when the deadline has passed.
Spec ==
  /\ SafeSpec
  /\ WF_vars(Server) /\ WF_vars(Closer) /\ WF_vars(Stop)
  /\ WF_vars(past /\ StopBegin)
  /\ \A c \in Clients : WF_vars(Handler(c))

-----------------------------------------------------------------------------
(* Safety.                                                                  *)

\* A command the agent asked for once is run at most once, though answers get
\* lost; and a client is told of success only if it ran.
RunsOnce ==
  \A c \in Clients : ran[c] <= 1 /\ (got[c] = "ok" => ran[c] = 1)

\* A connection that stop() did not find is one it never missed: when stop() has
\* returned, every connection is closed or some thread is just closing it.
StopClosesAll == stage = "down" => open = {} \/ closers # {}

-----------------------------------------------------------------------------
(* What they rest on, as an inductive invariant.                            *)

\* Who is queued, or about to be registered, is queued once and has not begun.
QueueInv ==
  /\ \A i \in 1 .. Len(backlog) : pc[backlog[i]] = "queued" /\ backlog[i] # accepting
  /\ \A i, j \in 1 .. Len(backlog) : backlog[i] = backlog[j] => i = j
  /\ accepting # None => pc[accepting] = "queued"

\* A command has not run before its call to the launcher, and has once that is answered;
\* success is prepared only then, and told only what was prepared.
CallInv ==
  \A c \in Clients :
    /\ ran[c] <= 1
    /\ pc[c] \in {"queued", "active", "read", "exec"} => ran[c] = 0
    /\ pc[c] \in {"wait", "check"} => ran[c] = 1
    /\ answer[c] = "ok" => ran[c] = 1 /\ pc[c] \in {"idle", "reply", "close"}
    /\ got[c] = "ok" => ran[c] = 1 /\ pc[c] \in {"idle", "close"}

\* Every open connection is registered or still queued, and who sets revoked will close
\* those that are registered; stop() goes on only when that is certain.
StopInv ==
  /\ open \subseteq registered \cup {c \in Clients : pc[c] = "queued"}
  /\ revoked => registered = {} \/ closers # {}
  /\ stage \in {"shutdown", "close", "down"} => revoked
  /\ stage \in {"close", "down"} => ~serving /\ accepting = None
  /\ stage = "down" => \A c \in Clients : pc[c] # "queued"

IInv == TypeOK /\ QueueInv /\ CallInv /\ StopInv

-----------------------------------------------------------------------------
(* Liveness.                                                                *)

\* Every mobius-ssh call returns, also one that was queued when the server thread
\* died: it has no timeout of its own.
ClientsReturn == \A c \in Clients : (c \in open) ~> (c \notin open)
==============================================================================
