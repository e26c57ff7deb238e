---------------------------- MODULE ProviderAuth ----------------------------
(***************************************************************************)
(* recovery_worker/providers.py: ProviderAuth, the provider logins and     *)
(* child processes of one worker, and the launch of a turn's agent         *)
(* (chat.py: _spawn) that it guards.                                       *)
(*                                                                         *)
(* The owner (RecoveryRuntime, under its lock) calls clear() and enable()  *)
(* one after the other; any number of request threads and turns run        *)
(* meanwhile.  A generation number fences them: what read generation g may *)
(* start a process or store a credential only while g is still enabled.    *)
(* Files are their presence and the generation that wrote them.            *)
(***************************************************************************)
EXTENDS Naturals, FiniteSets

CONSTANTS
  Threads,        \* request threads and turns
  MaxGeneration,  \* bound on _generation, so that the model is finite
  None            \* no process, no thread

ASSUME ProviderAssumption ==
  /\ IsFiniteSet(Threads)
  /\ None \notin Threads
  /\ MaxGeneration \in Nat \ {0}

VARIABLES
  enabled, generation, launches,  \* _enabled, _generation, _launches
  pkce,         \* _pkce is set: a Claude login has been started
  codex,        \* _codex["proc"]: the login process it remembers, or None
  procs,        \* live child processes
  claudeFile,   \* generation that wrote claude/.credentials.json; 0 when absent
  authFile,     \* generation whose login wrote codex/auth.json; 0 when absent
  temps,        \* threads whose temporary credential file exists
  refresher,    \* the thread that holds _claude_refresh_lock
  owner,        \* where clear() is; "off" when it has returned, "on" when enabled
  todo,         \* what rmtree has listed and not removed yet
  leftover,     \* an rmtree gave up on files it had listed
  pc,           \* per thread: its next step
  gen           \* per thread: the generation it read

fileVars   == <<claudeFile, authFile, temps>>
ownerVars  == <<owner, todo, leftover>>
fenceVars  == <<enabled, generation>>
vars == <<fenceVars, launches, pkce, codex, procs, fileVars, refresher, ownerVars, pc, gen>>

Generations == 0 .. MaxGeneration
Process(kind) == [kind : {kind}, by : Threads, gen : Generations]
Logins == Process("login")
Agents == Process("agent")
Files  == {"claude", "codex"} \cup Threads   \* a thread names its temporary file

OwnerLabels == {"on", "drain", "kill", "forget", "list", "remove", "off", "failed"}
Labels == {"idle", "pop", "token", "refresh", "temp", "commit", "unlink",
           "guard", "leave", "reject", "popen", "banner"}

TypeOK ==
  /\ enabled \in BOOLEAN /\ generation \in Generations /\ launches \in Nat
  /\ pkce \in BOOLEAN
  /\ codex \in Logins \cup {None} /\ procs \subseteq Logins \cup Agents
  /\ claudeFile \in Generations /\ authFile \in Generations
  /\ temps \subseteq Threads /\ refresher \in Threads \cup {None}
  /\ owner \in OwnerLabels /\ todo \subseteq Files /\ leftover \in BOOLEAN
  /\ pc \in [Threads -> Labels] /\ gen \in [Threads -> Generations]

\* __init__: enabled, though no session exists yet; the first activation clears.
Init ==
  /\ enabled = TRUE /\ generation = 0 /\ launches = 0
  /\ pkce = FALSE /\ codex = None /\ procs = {}
  /\ claudeFile = 0 /\ authFile = 0 /\ temps = {}
  /\ refresher = None
  /\ owner = "on" /\ todo = {} /\ leftover = FALSE
  /\ pc = [t \in Threads |-> "idle"] /\ gen = [t \in Threads |-> 0]

-----------------------------------------------------------------------------
Goto(t, label) == pc' = [pc EXCEPT ![t] = label]

Step(t, from, to) == pc[t] = from /\ Goto(t, to)

\* The test every fenced operation makes under _state_lock.
Current(t) == enabled /\ gen[t] = generation

\* Every route asks for a session's page, and that exists once the session was
\* activated - cleared and enabled: nothing runs under generation 0.
Serving == enabled /\ generation > 0

\* active_generation(): reads the generation, or raises when disabled.
ReadGeneration(t) == Serving /\ gen' = [gen EXCEPT ![t] = generation]

-----------------------------------------------------------------------------
(* The owner: enable(), clear().                                            *)

\* activate() enables only after a clear() that returned.
Enable ==
  /\ owner = "off" /\ generation < MaxGeneration
  /\ generation' = generation + 1 /\ enabled' = TRUE
  /\ owner' = "on"
  /\ UNCHANGED <<launches, pkce, codex, procs, fileVars, refresher, todo, leftover, pc, gen>>

ClearBegin ==
  /\ owner \in {"on", "off", "failed"} /\ generation < MaxGeneration
  /\ enabled' = FALSE /\ generation' = generation + 1
  /\ owner' = "drain"
  /\ UNCHANGED <<launches, pkce, codex, procs, fileVars, refresher, todo, leftover, pc, gen>>

\* Mutant: clear() does not wait for launches.
ClearUndrained ==
  /\ owner = "drain"
  /\ owner' = "kill"
  /\ UNCHANGED <<fenceVars, launches, pkce, codex, procs, fileVars, refresher, todo, leftover,
                 pc, gen>>

\* The condition variable: no launch is inside its guard.
ClearDrained ==
  /\ owner = "drain" /\ launches = 0
  /\ owner' = "kill"
  /\ UNCHANGED <<fenceVars, launches, pkce, codex, procs, fileVars, refresher, todo, leftover,
                 pc, gen>>

\* terminate() and terminate_descendants().
ClearKill ==
  /\ owner = "kill"
  /\ procs' = {}
  /\ owner' = "forget"
  /\ UNCHANGED <<fenceVars, launches, pkce, codex, fileVars, refresher, todo, leftover, pc, gen>>

ClearForget ==
  /\ owner = "forget"
  /\ pkce' = FALSE /\ codex' = None
  /\ owner' = "list"
  /\ UNCHANGED <<fenceVars, launches, procs, fileVars, refresher, todo, leftover, pc, gen>>

Present ==
  temps \cup (IF claudeFile # 0 THEN {"claude"} ELSE {})
        \cup (IF authFile # 0 THEN {"codex"} ELSE {})

\* rmtree lists the directories first ...
ClearList ==
  /\ owner = "list"
  /\ todo' = Present
  /\ owner' = "remove"
  /\ UNCHANGED <<fenceVars, launches, pkce, codex, procs, fileVars, refresher, leftover, pc, gen>>

\* ... and unlinks what it listed, in any order.
ClearRemove(f) ==
  /\ owner = "remove" /\ f \in todo \cap Present
  /\ todo' = todo \ {f}
  /\ claudeFile' = IF f = "claude" THEN 0 ELSE claudeFile
  /\ authFile' = IF f = "codex" THEN 0 ELSE authFile
  /\ temps' = temps \ {f}
  /\ UNCHANGED <<fenceVars, launches, pkce, codex, procs, refresher, owner, leftover, pc, gen>>

\* A listed file is gone already: rmtree raises FileNotFoundError, which clear()
\* takes for an absent directory - and returns.
ClearVanished ==
  /\ owner = "remove" /\ todo \ Present # {}
  /\ leftover' = (leftover \/ todo \cap Present # {})
  /\ todo' = {} /\ owner' = "off"
  /\ UNCHANGED <<fenceVars, launches, pkce, codex, procs, fileVars, refresher, pc, gen>>

\* The directories are removed, unless a file appeared after the listing.
ClearDone ==
  /\ owner = "remove" /\ todo = {}
  /\ owner' = IF Present = {} THEN "off" ELSE "failed"
  /\ UNCHANGED <<fenceVars, launches, pkce, codex, procs, fileVars, refresher, todo, leftover,
                 pc, gen>>

\* Any other OSError of rmtree.
ClearFail ==
  /\ owner = "remove"
  /\ owner' = "failed" /\ todo' = {}
  /\ UNCHANGED <<fenceVars, launches, pkce, codex, procs, fileVars, refresher, leftover, pc, gen>>

-----------------------------------------------------------------------------
(* Claude login: claude_start, claude_exchange, _private_json.              *)

ClaudeStart ==
  /\ Serving
  /\ pkce' = TRUE
  /\ UNCHANGED <<fenceVars, launches, codex, procs, fileVars, refresher, ownerVars, pc, gen>>

ExchangeBegin(t) ==
  /\ Step(t, "idle", "pop")
  /\ ReadGeneration(t)
  /\ UNCHANGED <<fenceVars, launches, pkce, codex, procs, fileVars, refresher, ownerVars>>

\* The started login is used up, whatever becomes of it; without one: 400.
ExchangePop(t) ==
  /\ Step(t, "pop", IF pkce THEN "token" ELSE "idle")
  /\ pkce' = FALSE
  /\ UNCHANGED <<fenceVars, launches, codex, procs, fileVars, refresher, ownerVars, gen>>

\* The token endpoint refused, timed out or answered nonsense; or the directory
\* the file belongs in has just been removed.
ExchangeFail(t) ==
  /\ pc[t] \in {"token", "temp"} /\ refresher # t
  /\ Goto(t, "idle")
  /\ UNCHANGED <<fenceVars, launches, pkce, codex, procs, fileVars, refresher, ownerVars, gen>>

TokenOk(t) ==
  /\ Step(t, "token", "temp")
  /\ UNCHANGED <<fenceVars, launches, pkce, codex, procs, fileVars, refresher, ownerVars, gen>>

WriteTemp(t) ==
  /\ Step(t, "temp", "commit")
  /\ temps' = temps \cup {t}
  /\ UNCHANGED <<fenceVars, launches, pkce, codex, procs, claudeFile, authFile, refresher,
                 ownerVars, gen>>

\* Mutant: the credential is stored whatever the generation is by now.
CommitUnfenced(t) ==
  /\ Step(t, "commit", "unlink")
  /\ claudeFile' = gen[t] /\ temps' = temps \ {t}
  /\ UNCHANGED <<fenceVars, launches, pkce, codex, procs, authFile, refresher, ownerVars, gen>>

\* Under _state_lock: replace the credential, if the generation still stands.
Commit(t) ==
  /\ Step(t, "commit", "unlink")
  /\ IF Current(t) THEN claudeFile' = gen[t] /\ temps' = temps \ {t}
                   ELSE UNCHANGED <<claudeFile, temps>>
  /\ UNCHANGED <<fenceVars, launches, pkce, codex, procs, authFile, refresher, ownerVars, gen>>

\* finally: the temporary file goes, and with it a refresh's lock.
Unlink(t) ==
  /\ Step(t, "unlink", "idle")
  /\ temps' = temps \ {t}
  /\ refresher' = IF refresher = t THEN None ELSE refresher
  /\ UNCHANGED <<fenceVars, launches, pkce, codex, procs, claudeFile, authFile, ownerVars, gen>>

-----------------------------------------------------------------------------
(* A turn: ensure_claude, launch_guard, the agent; invalidate.              *)

\* ensure_claude under the refresh lock: the stored token is about to expire.
RefreshBegin(t) ==
  /\ Step(t, "idle", "token")
  /\ refresher = None /\ refresher' = t
  /\ ReadGeneration(t) /\ claudeFile # 0
  /\ UNCHANGED <<fenceVars, launches, pkce, codex, procs, fileVars, ownerVars>>

\* invalidate(): the refresh was rejected, under the same generation.
Invalidate(t) ==
  /\ Step(t, "token", "idle") /\ refresher = t
  /\ claudeFile' = IF Current(t) THEN 0 ELSE claudeFile
  /\ refresher' = None
  /\ UNCHANGED <<fenceVars, launches, pkce, codex, procs, authFile, temps, ownerVars, gen>>

\* The refresh failed otherwise: the credential stays.
RefreshFail(t) ==
  /\ pc[t] \in {"token", "temp"} /\ refresher = t
  /\ Goto(t, "idle")
  /\ refresher' = None
  /\ UNCHANGED <<fenceVars, launches, pkce, codex, procs, fileVars, ownerVars, gen>>

\* A turn uses its session's generation, which may be one of long ago.
GuardEnter(t, g) ==
  /\ Step(t, "idle", "guard")
  /\ Serving /\ g = generation
  /\ gen' = [gen EXCEPT ![t] = g]
  /\ launches' = launches + 1
  /\ UNCHANGED <<fenceVars, pkce, codex, procs, fileVars, refresher, ownerVars>>

Spawn(t) ==
  /\ Step(t, "guard", "leave")
  /\ procs' = procs \cup {[kind |-> "agent", by |-> t, gen |-> gen[t]]}
  /\ UNCHANGED <<fenceVars, launches, pkce, codex, fileVars, refresher, ownerVars, gen>>

\* Mutant: an exception inside the guard is not counted out.
SpawnRefusedUncounted(t) ==
  /\ Step(t, "guard", "idle")
  /\ UNCHANGED <<fenceVars, launches, pkce, codex, procs, fileVars, refresher, ownerVars, gen>>

\* Mutant: it is counted out twice.
SpawnRefusedTwice(t) ==
  /\ Step(t, "guard", "leave")
  /\ launches' = launches - 1
  /\ UNCHANGED <<fenceVars, pkce, codex, procs, fileVars, refresher, ownerVars, gen>>

\* The session is revoked or closing, or the process could not start.
SpawnRefused(t) ==
  /\ Step(t, "guard", "leave")
  /\ UNCHANGED <<fenceVars, launches, pkce, codex, procs, fileVars, refresher, ownerVars, gen>>

GuardLeave(t) ==
  /\ Step(t, "leave", "idle")
  /\ launches' = launches - 1
  /\ UNCHANGED <<fenceVars, pkce, codex, procs, fileVars, refresher, ownerVars, gen>>

\* The agent exits complaining about its login: the turn will invalidate it.
AgentRejected(t) ==
  /\ Step(t, "idle", "reject")
  /\ \E p \in procs \cap Agents :
       p.by = t /\ procs' = procs \ {p} /\ gen' = [gen EXCEPT ![t] = p.gen]
  /\ UNCHANGED <<fenceVars, launches, pkce, codex, fileVars, refresher, ownerVars>>

TurnInvalidate(t) ==
  /\ Step(t, "reject", "idle")
  /\ \/ Current(t) /\ claudeFile' = 0 /\ UNCHANGED authFile
     \/ Current(t) /\ authFile' = 0 /\ UNCHANGED claudeFile
     \/ ~Current(t) /\ UNCHANGED <<claudeFile, authFile>>
  /\ UNCHANGED <<fenceVars, launches, pkce, codex, procs, temps, refresher, ownerVars, gen>>

\* A turn ends, its agent gone or not: terminate_descendants spares nobody's
\* children, a running Codex login included.
TurnEnd(t) ==
  /\ pc[t] = "idle" /\ procs # {}
  /\ procs' = {}
  /\ UNCHANGED <<fenceVars, launches, pkce, codex, fileVars, refresher, ownerVars, pc, gen>>

-----------------------------------------------------------------------------
(* Codex login: codex_start and the process it starts.                      *)

\* The login it remembers is killed first.
CodexStart(t) ==
  /\ Step(t, "idle", "popen")
  /\ ReadGeneration(t)
  /\ procs' = procs \ {codex}
  /\ UNCHANGED <<fenceVars, launches, pkce, codex, fileVars, refresher, ownerVars>>

\* Mutant: the generation is not checked again before the login starts.
CodexSpawnUnfenced(t) ==
  LET p == [kind |-> "login", by |-> t, gen |-> gen[t]] IN
  /\ Step(t, "popen", "banner")
  /\ procs' = procs \cup {p} /\ codex' = p
  /\ UNCHANGED <<fenceVars, launches, pkce, fileVars, refresher, ownerVars, gen>>

CodexSpawn(t) ==
  LET p == [kind |-> "login", by |-> t, gen |-> gen[t]] IN
  /\ Step(t, "popen", IF Current(t) THEN "banner" ELSE "idle")
  /\ IF Current(t) THEN procs' = procs \cup {p} /\ codex' = p
                   ELSE UNCHANGED <<procs, codex>>
  /\ UNCHANGED <<fenceVars, launches, pkce, fileVars, refresher, ownerVars, gen>>

\* The device code was read, or not, or the session is over: then it is killed.
CodexBanner(t) ==
  LET p == [kind |-> "login", by |-> t, gen |-> gen[t]] IN
  /\ Step(t, "banner", "idle")
  /\ \/ procs' = procs \ {p}
     \/ Current(t) /\ UNCHANGED procs
  /\ UNCHANGED <<fenceVars, launches, pkce, codex, fileVars, refresher, ownerVars, gen>>

\* The owner of the account approves: the login stores the credential and exits.
LoginDone(p) ==
  /\ p \in procs /\ p.kind = "login"
  /\ authFile' = p.gen
  /\ procs' = procs \ {p}
  /\ UNCHANGED <<fenceVars, launches, pkce, codex, claudeFile, temps, refresher, ownerVars,
                 pc, gen>>

\* A process exits by itself, or the watchdog of codex_start kills it.
Exit(p) ==
  /\ p \in procs
  /\ procs' = procs \ {p}
  /\ UNCHANGED <<fenceVars, launches, pkce, codex, fileVars, refresher, ownerVars, pc, gen>>

-----------------------------------------------------------------------------
Clear ==
  \/ ClearBegin \/ ClearDrained \/ ClearKill \/ ClearForget \/ ClearList
  \/ (\E f \in Files : ClearRemove(f)) \/ ClearVanished \/ ClearDone \/ ClearFail

Claude(t) ==
  \/ ExchangeBegin(t) \/ ExchangePop(t) \/ ExchangeFail(t) \/ TokenOk(t)
  \/ WriteTemp(t) \/ Commit(t) \/ Unlink(t)
  \/ RefreshBegin(t) \/ Invalidate(t) \/ RefreshFail(t)

Turn(t) ==
  \/ (\E g \in Generations : GuardEnter(t, g))
  \/ Spawn(t) \/ SpawnRefused(t) \/ GuardLeave(t)
  \/ AgentRejected(t) \/ TurnInvalidate(t) \/ TurnEnd(t)

Codex(t) == CodexStart(t) \/ CodexSpawn(t) \/ CodexBanner(t)

Next ==
  \/ Enable \/ Clear \/ ClaudeStart
  \/ \E t \in Threads : Claude(t) \/ Turn(t) \/ Codex(t)
  \/ \E p \in procs : LoginDone(p) \/ Exit(p)

SafeSpec == Init /\ [][Next]_vars

\* clear() runs on, and a launch that is inside its guard leaves it.
ClearRuns ==
  \/ ClearDrained \/ ClearKill \/ ClearForget \/ ClearList
  \/ (\E f \in Files : ClearRemove(f)) \/ ClearVanished \/ ClearDone \/ ClearFail

Spec ==
  /\ SafeSpec
  /\ WF_vars(ClearRuns)
  /\ \A t \in Threads : WF_vars(Spawn(t) \/ SpawnRefused(t) \/ GuardLeave(t))

-----------------------------------------------------------------------------
(* Safety.                                                                  *)

Killed == owner \in {"forget", "list", "remove", "off", "failed"}

\* "If revocation wins, no child starts; if launch wins, cleanup observes and
\* kills" (chat.py, _spawn): from the moment clear() has killed the children
\* until the next enable() there is none and none can start, though launches and
\* logins that read the old generation are still running.
NoChildAfterClear == Killed => procs = {} /\ ~enabled

InGuard == {t \in Threads : pc[t] \in {"guard", "leave"}}

\* clear() waits for exactly the launches that are inside their guard.
LaunchesCounted == launches = Cardinality(InGuard)

\* What clear() forgot stays forgotten until the next enable().
ForgottenAfterClear ==
  owner \in {"list", "remove", "off", "failed"} => ~pkce /\ codex = None

\* A child process belongs to the generation that is enabled or, while clear()
\* waits and kills, to the one it has just ended.
ChildIsCurrent ==
  \A p \in procs : p.gen = IF enabled THEN generation ELSE generation - 1

\* A stored credential was connected under the enabled generation - never by an
\* exchange, a refresh or a login that a clear() overtook - as long as no clear()
\* gave up on files it had listed.
CredentialIsCurrent ==
  enabled /\ ~leftover => {claudeFile, authFile} \subseteq {0, generation}

-----------------------------------------------------------------------------
(* What they rest on, as an inductive invariant.                            *)

\* A launch is inside its guard only until clear() has waited for it; until then
\* its generation is the one that is, or was last, enabled.
GuardInv ==
  \A t \in InGuard :
    owner \in {"on", "drain"} /\ gen[t] = IF enabled THEN generation ELSE generation - 1

\* rmtree has listed what there is to remove, and nothing is written meanwhile;
\* unless it gave up, nothing is left when clear() has returned.
RemoveInv ==
  /\ owner = "remove" => (claudeFile # 0 => "claude" \in todo) /\ (authFile # 0 => "codex" \in todo)
  /\ owner = "off" /\ ~leftover => claudeFile = 0 /\ authFile = 0

IInv ==
  /\ TypeOK /\ LaunchesCounted /\ GuardInv /\ RemoveInv
  /\ enabled <=> owner = "on"
  /\ NoChildAfterClear /\ ForgottenAfterClear /\ ChildIsCurrent /\ CredentialIsCurrent

-----------------------------------------------------------------------------
\* clear() comes to an end.
ClearEnds == (owner = "drain") ~> (owner \in {"off", "failed"})
==============================================================================
