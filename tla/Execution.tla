----------------------------- MODULE Execution -----------------------------
(***************************************************************************)
(* The worker of one runtime adapter (apps/worker) and the turns it runs   *)
(* (packages/runtime-sdk and the six CLI adapters): the worker's probe and *)
(* subscription, the run's workspace, the CLI process with the tools it is *)
(* given, the provider sessions turns leave and resume, and their end by   *)
(* an answer, a deadline, a cancellation or the worker's own.              *)
(*                                                                         *)
(* A turn that is given up reports without its adapter's call, which goes  *)
(* on in the background: process, workspace and session are shared with a  *)
(* call nobody waits for.                                                  *)
(***************************************************************************)
EXTENDS Integers, FiniteSets, TLC

CONSTANTS
    Jobs,         \* run attempts, numbered
    Agents,
    Conversations,
    Setups,       \* the jobs' agents and conversations, and the agents' tool policies
    NoSession,
    Concurrency,  \* WORKER_CONCURRENCY
    MaxAccess,    \* bound: changes of an agent's channel grants
    MaxFailures   \* bound: everything that goes wrong

NativeTools == {"read", "write", "exec", "webSearch", "webFetch"}
Verdicts == {"allow", "deny", "ask", "unlisted"}

ASSUME ExecutionAssumption ==
    /\ Jobs \subseteq Nat \ {0} /\ Concurrency \in Nat \ {0}
    /\ {MaxAccess, MaxFailures} \subseteq Nat
    /\ Setups \subseteq [agentOf: [Jobs -> Agents], conversationOf: [Jobs -> Conversations],
                         policyOf: [Agents -> [NativeTools -> Verdicts]]]

VARIABLES
    adapter,      \* the worker's adapter
    installed,    \* the CLI on the worker's host
    host,         \* the worker
    setup,        \* who each job is for, what it is about, what its agent may use
    access,       \* how often an agent's channel grants changed
    job,          \* the queue's jobs, with the session each was offered
    turn,         \* processRunJob and executeTurn of each job
    call,         \* the adapter's call, and its process
    workspaces,   \* the jobs with a directory
    definitions,  \* the agent definitions in Kiro's home
    transcripts,  \* the provider's sessions
    held,         \* runtime_sessions: the session the Gateway would resume for an agent
    failures      \* what went wrong so far

executionVars == <<adapter, installed, host, setup, access, job, turn,
                   call, workspaces, definitions, transcripts, held, failures>>
setting == <<adapter, setup>>
ground == <<workspaces, definitions, transcripts>>

-----------------------------------------------------------------------------
(* Tools. *)

agentOf == setup.agentOf
conversationOf == setup.conversationOf
policyOf == setup.policyOf

Web == {"webSearch", "webFetch"}

\* nativeToolGrants: writing and running both read, and commands write.
Blocked(policy) == {t \in NativeTools : policy[t] \in {"deny", "ask"}}
NativeGrants(policy) ==
    LET allowed == {t \in NativeTools : policy[t] = "allow"}
        direct == {t \in allowed : /\ t \in {"write", "exec"} => "read" \notin Blocked(policy)
                                   /\ t = "exec" => "write" \notin Blocked(policy)}
    IN  IF direct \cap {"write", "exec"} = {} THEN direct ELSE direct \cup {"read"}

\* confinedGrants: a tool the runtime cannot confine is withheld.
ConfinedGrants(grants, confinable) ==
    LET can == grants \cap confinable
    IN  IF "read" \in can THEN can ELSE can \ {"write", "exec"}

\* What each CLI's flags and configuration give a call.  Codex reads files only by running
\* commands and has no fetch; Hermes fetches only in a toolset that also searches.
ClaudeTools(grants) == grants
CodexTools(grants) ==
    (grants \cap {"write", "exec", "webSearch"}) \cup IF "exec" \in grants THEN {"read"} ELSE {}
GrokTools(grants) == ConfinedGrants(grants, Web)
HermesTools(grants) ==
    LET confined == ConfinedGrants(grants, Web)
    IN  IF "webSearch" \in confined THEN confined ELSE {}
KiroTools(grants) == ConfinedGrants(grants, Web)
OpencodeTools(grants) == ConfinedGrants(grants, NativeTools \ {"exec"})

Adapters == {"claude-code", "codex", "grok", "hermes", "kiro", "opencode-go"}
ToolsFor(grants) ==
    CASE adapter = "claude-code" -> ClaudeTools(grants)
      [] adapter = "codex" -> CodexTools(grants)
      [] adapter = "grok" -> GrokTools(grants)
      [] adapter = "hermes" -> HermesTools(grants)
      [] adapter = "kiro" -> KiroTools(grants)
      [] OTHER -> OpencodeTools(grants)
Wanted(j) == ToolsFor(NativeGrants(policyOf[agentOf[j]]))

\* Mutant: one definition for every call.
OneAgentName(tools) == {}

\* agentName: one definition per set of tools, so that concurrent calls share none.
AgentName(tools) == tools

-----------------------------------------------------------------------------
(* Sessions. *)

ResumesSessions == adapter # "opencode-go"

\* What a turn sees: a conversation, under the grants it was queued with.
Content(j) == [conversation |-> conversationOf[j], access |-> job[j].access]

\* sessionScope: a channel given again keeps its id.
Scope(j, changes) == [conversation |-> conversationOf[j], granted |-> changes % 2]

NotHeld == [id |-> NoSession, version |-> 0, scope |-> [conversation |-> NoSession, granted |-> 0]]

\* storedSession: offered when the attempt is queued.
Offer(j) ==
    LET stored == held[agentOf[j]]
    IN  IF stored.id # NoSession /\ stored.scope = Scope(j, access[agentOf[j]]) THEN stored
        ELSE NotHeld

\* resumableSession: the worker resumes only what a run of its own version left.
Resumable(j) ==
    ResumesSessions /\ job[j].offer.id # NoSession /\ job[j].offer.version = turn[j].version

\* The session a call works in.
SessionOf(j) == IF call[j].kind = "continue" THEN job[j].offer.id ELSE <<j, call[j].kind>>
Wrote(id, j) ==
    LET earlier == {t \in transcripts : t.id = id}
    IN  (transcripts \ earlier)
            \cup {[id |-> id, holds |-> (UNION {t.holds : t \in earlier}) \cup {Content(j)}]}

\* Only a session handed back may be resumed: Grok, Hermes and Kiro remove another one they
\* know, never the one the Gateway still holds; OpenCode keeps none.  Claude and Codex keep
\* what they were told to.
Forgets(j, kept) ==
    CASE adapter \in {"claude-code", "codex"} -> {}
      [] adapter = "grok" -> IF kept \/ call[j].kind = "continue" THEN {} ELSE {<<j, call[j].kind>>}
      [] adapter = "opencode-go" -> {<<j, call[j].kind>>}
      [] OTHER -> IF kept THEN {} ELSE {<<j, call[j].kind>>}

\* Mutant: the grants that changed meanwhile are not looked at.
PersistAny(j, id) ==
    IF job[j].state # "active" \/ id = NoSession THEN held
    ELSE [held EXCEPT ![agentOf[j]] = [id |-> id, version |-> turn[j].version,
                                       scope |-> Scope(j, job[j].access)]]

\* persistSession, of a completed run the controller still has in progress: not when a grant
\* changed since it was queued.
PersistSession(j, id) ==
    IF job[j].state # "active" \/ id = NoSession \/ access[agentOf[j]] # job[j].access THEN held
    ELSE [held EXCEPT ![agentOf[j]] = [id |-> id, version |-> turn[j].version,
                                       scope |-> Scope(j, job[j].access)]]

-----------------------------------------------------------------------------
\* How a CLI ends: with an answer, valid or not; a crash, or no answer; a refused login; an option
\* or a model it rejects; throttling, in words that read like a refused login; a limit on turns
\* or tokens.
Endings == {"valid", "invalid", "crash", "auth", "config", "throttled", "limit"}
Results == {"valid", "invalid", "retryable", "permanent", "stopped"}

Failure == failures < MaxFailures /\ failures' = failures + 1
NoJob == [state |-> "none", access |-> 0, offer |-> NotHeld]
NoTurn ==
    [pc |-> "none", version |-> 0, abort |-> "none", outcome |-> "none", session |-> NoSession]
NoCall == [pc |-> "idle", kind |-> "start", tools |-> {}, result |-> "none"]
HostDown == [up |-> FALSE, stopping |-> FALSE, ok |-> FALSE, version |-> 0, taking |-> 0,
             pc |-> "idle"]
InFlight == {j \in Jobs : turn[j].pc \notin {"none", "done", "lost"}}

ExecutionTypeOK ==
    /\ adapter \in Adapters /\ installed \in [version: 1..2, ok: BOOLEAN]
    /\ DOMAIN definitions \subseteq SUBSET NativeTools
    /\ host \in [up: BOOLEAN, stopping: BOOLEAN, ok: BOOLEAN, version: 0..2, taking: 0..2,
                 pc: {"idle", "off", "on"}]
    /\ setup \in [agentOf: [Jobs -> Agents], conversationOf: [Jobs -> Conversations],
                  policyOf: [Agents -> [NativeTools -> Verdicts]]]
    /\ access \in [Agents -> 0..MaxAccess]
    /\ \A j \in Jobs :
        /\ job[j].state \in {"none", "queued", "active", "cancelled", "settled", "failed"}
        /\ turn[j].pc \in {"none", "taken", "calling", "cancel", "cleanup", "report", "done",
                           "lost"}
        /\ turn[j].abort \in {"none", "timeout", "cancelled"}
        /\ turn[j].outcome \in {"none", "completed", "retryable", "permanent"}
        /\ call[j].pc \in {"idle", "prepare", "spawn", "run", "exited"}
        /\ call[j].kind \in {"start", "continue", "repair"} /\ call[j].tools \subseteq NativeTools
        /\ call[j].result \in Results \cup {"none"}
    /\ workspaces \subseteq Jobs /\ failures \in 0..MaxFailures

-----------------------------------------------------------------------------
(* The controller. *)

\* An agent has one run in progress.
QueueJob(j) ==
    /\ job[j].state = "none"
    /\ \A k \in Jobs : k < j => job[k].state # "none"
                             /\ (agentOf[k] = agentOf[j] => job[k].state \in {"settled", "failed"})
    /\ job' = [job EXCEPT ![j] = [state |-> "queued", access |-> access[agentOf[j]],
                                  offer |-> Offer(j)]]
    /\ UNCHANGED <<setting, installed, host, access, turn, call, ground, held, failures>>

\* A pause, a run cancel or a kill-all: the run is over for the controller.
CancelJob(j) ==
    /\ job[j].state \in {"queued", "active"}
    /\ job' = [job EXCEPT ![j].state = "cancelled"]
    /\ UNCHANGED <<setting, installed, host, access, turn, call, ground, held, failures>>

\* A channel granted or revoked; endAgentRuntimeSessions.  Bound: between two jobs' queueing,
\* where it can matter.
ChangeGrant(a) ==
    /\ access[a] < MaxAccess
    /\ \E j, k \in Jobs : /\ agentOf[j] = a /\ agentOf[k] = a
                          /\ job[j].state = "none" /\ job[k].state # "none"
    /\ access' = [access EXCEPT ![a] = @ + 1]
    /\ held' = [held EXCEPT ![a] = NotHeld]
    /\ UNCHANGED <<setting, installed, host, job, turn, call, ground, failures>>

-----------------------------------------------------------------------------
(* The worker. *)

\* The CLI is replaced in place, or loses its login.
ReplaceCli ==
    /\ installed.version = 1 /\ Failure
    /\ installed' = [installed EXCEPT !.version = 2]
    /\ UNCHANGED <<setting, host, access, job, turn, call, ground, held>>
LoseLogin ==
    /\ installed.ok /\ Failure
    /\ installed' = [installed EXCEPT !.ok = FALSE]
    /\ UNCHANGED <<setting, host, access, job, turn, call, ground, held>>

StartWorker ==
    /\ ~host.up
    /\ host' = [HostDown EXCEPT !.up = TRUE]
    /\ UNCHANGED <<setting, installed, access, job, turn, call, ground, held, failures>>

\* What each runtime's probe may say of a login that is there or not: Codex asks nothing of an
\* API key, Hermes without a provider cannot, OpenCode only looks for a stored credential.
ClaudeProbe(login) == {login}
CodexProbe(login) == {login, TRUE}
GrokProbe(login) == {login}
HermesProbe(login) == {login, TRUE}
KiroProbe(login) == {login}
OpencodeProbe(login) == {login, TRUE}
ProbeResults ==
    CASE adapter = "claude-code" -> ClaudeProbe(installed.ok)
      [] adapter = "codex" -> CodexProbe(installed.ok)
      [] adapter = "grok" -> GrokProbe(installed.ok)
      [] adapter = "hermes" -> HermesProbe(installed.ok)
      [] adapter = "kiro" -> KiroProbe(installed.ok)
      [] OTHER -> OpencodeProbe(installed.ok)

\* check: no subscription while the probe fails, and only one that reports the version the
\* runtime has now.
Probe ==
    /\ host.up /\ ~host.stopping /\ host.pc = "idle"
    /\ \E ok \in ProbeResults :
        host' = [host EXCEPT !.ok = ok, !.version = installed.version,
                             !.pc = IF host.taking = 0 THEN "on"
                                    ELSE IF ~ok \/ host.taking # installed.version THEN "off"
                                    ELSE "idle"]
    /\ UNCHANGED <<setting, installed, access, job, turn, call, ground, held, failures>>

Aborts(j, why) ==
    [turn[j] EXCEPT !.abort = IF @ = "none" THEN why ELSE @,
                    !.pc = IF @ = "calling" THEN "cancel" ELSE @]

\* A subscription that cannot be removed would keep fetching jobs: giveUp stops the turns.
StopTaking ==
    /\ host.pc = "off"
    /\ \/ host' = [host EXCEPT !.taking = 0, !.pc = "on"] /\ UNCHANGED turn
       \/ /\ host' = [host EXCEPT !.stopping = TRUE, !.pc = "idle"]
          /\ turn' = [j \in Jobs |-> IF j \in InFlight THEN Aborts(j, "cancelled") ELSE turn[j]]
    /\ UNCHANGED <<setting, installed, access, job, call, ground, held, failures>>
StartTaking ==
    /\ host.pc = "on"
    /\ \/ host' = [host EXCEPT !.taking = IF host.ok /\ ~host.stopping THEN host.version ELSE @,
                               !.pc = "idle"]
          /\ UNCHANGED failures
       \/ host.ok /\ Failure /\ host' = [host EXCEPT !.ok = FALSE, !.pc = "idle"]
    /\ UNCHANGED <<setting, installed, access, job, turn, call, ground, held>>

\* stop: no new jobs; running ones finish.
StopWorker ==
    /\ host.up /\ ~host.stopping /\ Failure
    /\ host' = [host EXCEPT !.stopping = TRUE, !.taking = 0]
    /\ UNCHANGED <<setting, installed, access, job, turn, call, ground, held>>
WorkerExits ==
    /\ host.up /\ host.stopping /\ InFlight = {}
    /\ host' = HostDown
    /\ call' = [j \in Jobs |-> IF call[j].pc = "run" THEN call[j] ELSE NoCall]
    /\ UNCHANGED <<setting, installed, access, job, turn, ground, held, failures>>

\* The worker dies: its CLIs are process groups of their own and outlive it.
WorkerDies ==
    /\ host.up /\ Failure
    /\ host' = HostDown
    /\ turn' = [j \in Jobs |-> IF j \in InFlight THEN [turn[j] EXCEPT !.pc = "lost"] ELSE turn[j]]
    /\ call' = [j \in Jobs |-> IF call[j].pc = "run" THEN call[j] ELSE NoCall]
    /\ job' = [j \in Jobs |-> IF j \in InFlight /\ job[j].state = "active"
                              THEN [job[j] EXCEPT !.state = "failed"] ELSE job[j]]
    /\ UNCHANGED <<setting, installed, access, ground, held>>

\* pruneRunWorkspaces: what a crashed worker left, after longer than any run takes.
Prune ==
    /\ host.up
    /\ \E j \in workspaces : turn[j].pc = "lost" /\ workspaces' = workspaces \ {j}
    /\ UNCHANGED <<setting, installed, host, access, job, turn, call, definitions, transcripts,
                   held, failures>>

-----------------------------------------------------------------------------
(* A job. *)

Take(j) ==
    /\ host.up /\ host.taking # 0 /\ job[j].state = "queued"
    /\ Cardinality(InFlight) < Concurrency
    /\ job' = [job EXCEPT ![j].state = "active"]
    /\ turn' = [turn EXCEPT ![j] = [NoTurn EXCEPT !.pc = "taken", !.version = host.taking]]
    /\ UNCHANGED <<setting, installed, host, access, call, ground, held, failures>>

\* Fail closed while a subscription that should be gone still gets jobs.
Accepting(j) == ~host.stopping /\ host.ok /\ host.version = turn[j].version

Calls(j, kind) == [NoCall EXCEPT !.pc = "prepare", !.kind = kind]

\* The started report, then an empty workspace and the turn: the adapter is called even when
\* the job was aborted meanwhile.
Begin(j) ==
    /\ turn[j].pc = "taken"
    /\ \/ /\ Accepting(j)
          /\ workspaces' = workspaces \cup {j}
          /\ call' = [call EXCEPT ![j] = Calls(j, IF Resumable(j) THEN "continue" ELSE "start")]
          /\ turn' = [turn EXCEPT ![j].pc = IF turn[j].abort = "none" THEN "calling" ELSE "cancel"]
          /\ UNCHANGED failures
       \/ /\ IF Accepting(j) THEN Failure ELSE UNCHANGED failures
          /\ turn' = [turn EXCEPT ![j] = [@ EXCEPT !.pc = "report", !.outcome = "retryable"]]
          /\ UNCHANGED <<call, workspaces>>
    /\ UNCHANGED <<setting, installed, host, access, job, definitions, transcripts, held>>

\* The job's own check finds it cancelled, or the deadline passes.
CheckJob(j) ==
    /\ job[j].state = "cancelled" /\ turn[j].pc \in {"taken", "calling"} /\ turn[j].abort = "none"
    /\ turn' = [turn EXCEPT ![j] = Aborts(j, "cancelled")]
    /\ UNCHANGED <<setting, installed, host, access, job, call, ground, held, failures>>
Deadline(j) ==
    /\ turn[j].pc = "calling" /\ Failure
    /\ turn' = [turn EXCEPT ![j] = Aborts(j, "timeout")]
    /\ UNCHANGED <<setting, installed, host, access, job, call, ground, held>>

\* An aborted turn first waits, in cancel, until the run's processes are gone; there may be none
\* yet.  A workspace that cannot be removed does not cost the report.
Cleanup(j) ==
    /\ turn[j].pc = "cleanup" \/ (turn[j].pc = "cancel" /\ call[j].pc # "run")
    /\ \/ workspaces' = workspaces \ {j} /\ UNCHANGED failures
       \/ UNCHANGED workspaces /\ Failure
    /\ turn' = [turn EXCEPT ![j] = [@ EXCEPT !.pc = "report",
                                             !.outcome = IF turn[j].pc = "cleanup"
                                                         THEN turn[j].outcome
                                                         ELSE IF turn[j].abort = "timeout"
                                                         THEN "retryable" ELSE "permanent"]]
    /\ UNCHANGED <<setting, installed, host, access, job, call, definitions, transcripts, held>>

\* The report, and what the controller makes of it; one that cannot be sent fails the job.
SendReport(j) ==
    /\ turn[j].pc = "report"
    /\ turn' = [turn EXCEPT ![j].pc = "done"]
    /\ \/ /\ job' = [job EXCEPT ![j].state = "settled"]
          /\ held' = IF turn[j].outcome = "completed" THEN PersistSession(j, turn[j].session)
                     ELSE held
          /\ UNCHANGED failures
       \/ Failure /\ job' = [job EXCEPT ![j].state = "failed"] /\ UNCHANGED held
    /\ UNCHANGED <<setting, installed, host, access, call, ground>>

-----------------------------------------------------------------------------
(* The adapter's call. *)

\* What Kiro's home holds once an agent with these tools is defined.
Defined(tools) ==
    [name \in DOMAIN definitions \cup {AgentName(tools)} |->
        IF name = AgentName(tools) THEN tools ELSE definitions[name]]

\* configure: the definitions of Kiro's agents are brought to their content before every call.
WriteDefinitions(j) ==
    /\ host.up /\ call[j].pc = "prepare"
    /\ call' = [call EXCEPT ![j].pc = "spawn"]
    /\ definitions' = IF adapter = "kiro" THEN Defined(Wanted(j)) ELSE definitions
    /\ UNCHANGED <<setting, installed, host, access, job, turn, workspaces, transcripts, held,
                   failures>>

GivenTools(j) == IF adapter = "kiro" THEN definitions[AgentName(Wanted(j))] ELSE Wanted(j)

\* Mutant: a process is started whatever became of its turn.
SpawnAlways(j) ==
    /\ host.up /\ call[j].pc = "spawn"
    /\ call' = [call EXCEPT ![j] = [@ EXCEPT !.pc = "run", !.tools = GivenTools(j)]]
    /\ transcripts' = Wrote(SessionOf(j), j)
    /\ UNCHANGED <<setting, installed, host, access, job, turn, workspaces, definitions, held,
                   failures>>

\* runProcess: nothing is started for an aborted call, or in a workspace that is gone.
Spawn(j) ==
    /\ host.up /\ call[j].pc = "spawn"
    /\ IF turn[j].abort # "none" \/ j \notin workspaces
       THEN /\ call' = [call EXCEPT ![j] = [@ EXCEPT !.pc = "exited", !.result = "stopped"]]
            /\ UNCHANGED transcripts
       ELSE /\ call' = [call EXCEPT ![j] = [@ EXCEPT !.pc = "run", !.tools = GivenTools(j)]]
            /\ transcripts' = Wrote(SessionOf(j), j)
    /\ UNCHANGED <<setting, installed, host, access, job, turn, workspaces, definitions, held,
                   failures>>

Answered(e) == IF e = "crash" THEN "retryable" ELSE e

ClaudeResult(e) ==
    IF e \in {"auth", "config", "throttled", "limit"} THEN "permanent" ELSE Answered(e)
CodexResult(e) ==
    CASE e \in {"auth", "config", "throttled"} -> "permanent"
      [] e = "limit" -> "retryable"
      [] OTHER -> Answered(e)
GrokResult(e) ==
    CASE e \in {"auth", "config", "limit"} -> "permanent"
      [] e = "throttled" -> "retryable"
      [] OTHER -> Answered(e)
HermesResult(e) ==
    CASE e \in {"auth", "config"} -> "permanent"
      [] e \in {"throttled", "limit"} -> "retryable"
      [] OTHER -> Answered(e)
KiroResult(e) ==
    CASE e \in {"auth", "config"} -> "permanent"
      [] e \in {"throttled", "limit"} -> "retryable"
      [] OTHER -> Answered(e)
OpencodeResult(e) ==
    CASE e \in {"auth", "config", "limit"} -> "permanent"
      [] e = "throttled" -> "retryable"
      [] OTHER -> Answered(e)
ResultOf(e) ==
    CASE adapter = "claude-code" -> ClaudeResult(e)
      [] adapter = "codex" -> CodexResult(e)
      [] adapter = "grok" -> GrokResult(e)
      [] adapter = "hermes" -> HermesResult(e)
      [] adapter = "kiro" -> KiroResult(e)
      [] OTHER -> OpencodeResult(e)

\* The process ends, in a resumed session as in a new one; signalled, its whole group does.
Exit(j) ==
    /\ call[j].pc = "run"
    /\ \E e \in Endings :
        /\ IF e = "invalid" THEN Failure ELSE UNCHANGED failures
        /\ call' = [call EXCEPT ![j] = [@ EXCEPT !.pc = "exited",
                                                 !.result = IF turn[j].abort # "none" THEN "stopped"
                                                            ELSE ResultOf(e)]]
    /\ UNCHANGED <<setting, installed, host, access, job, turn, ground, held>>

\* interpret, and what executeTurn makes of it: a resumed session that fails is left for a fresh
\* start, an invalid answer is repaired once.  Nobody waits for the call of an aborted turn.
Interpret(j) ==
    LET r == call[j].result
        again == IF call[j].kind = "continue" /\ r \in {"retryable", "permanent"} THEN "start"
                 ELSE IF call[j].kind # "repair" /\ r = "invalid" THEN "repair" ELSE "none"
        kept == ResumesSessions /\ r \in {"valid", "invalid"}
    IN /\ host.up /\ call[j].pc = "exited"
       /\ transcripts' = {t \in transcripts : t.id \notin Forgets(j, kept)}
       /\ IF turn[j].pc # "calling" THEN call' = [call EXCEPT ![j] = NoCall] /\ UNCHANGED turn
          ELSE IF again # "none" THEN call' = [call EXCEPT ![j] = Calls(j, again)] /\ UNCHANGED turn
          ELSE /\ call' = [call EXCEPT ![j] = NoCall]
               /\ turn' = [turn EXCEPT
                                ![j] = [@ EXCEPT !.pc = "cleanup",
                                                 !.outcome = IF r = "valid" THEN "completed"
                                                             ELSE IF r = "retryable" THEN r
                                                             ELSE "permanent",
                                                 !.session = IF kept THEN SessionOf(j)
                                                             ELSE NoSession]]
       /\ UNCHANGED <<setting, installed, host, access, job, workspaces, definitions, held,
                      failures>>

-----------------------------------------------------------------------------
ExecutionInit ==
    /\ adapter \in Adapters /\ installed = [version |-> 1, ok |-> TRUE]
    /\ host = HostDown
    /\ setup \in Setups /\ access = [a \in Agents |-> 0]
    /\ job = [j \in Jobs |-> NoJob] /\ turn = [j \in Jobs |-> NoTurn]
    /\ call = [j \in Jobs |-> NoCall]
    /\ workspaces = {} /\ definitions = <<>> /\ transcripts = {}
    /\ held = [a \in Agents |-> NotHeld] /\ failures = 0

ExecutionNext ==
    \/ ReplaceCli \/ LoseLogin
    \/ StartWorker \/ Probe \/ StopTaking \/ StartTaking \/ StopWorker \/ WorkerExits \/ WorkerDies
    \/ Prune
    \/ \E a \in Agents : ChangeGrant(a)
    \/ \E j \in Jobs :
        \/ QueueJob(j) \/ CancelJob(j) \/ Take(j) \/ Begin(j) \/ CheckJob(j) \/ Deadline(j)
        \/ Cleanup(j) \/ SendReport(j)
        \/ WriteDefinitions(j) \/ Spawn(j) \/ Exit(j) \/ Interpret(j)

ExecutionSpec == ExecutionInit /\ [][ExecutionNext]_executionVars

-----------------------------------------------------------------------------
\* Once a turn has reported, none of its processes runs or will, whenever its deadline, its
\* cancellation or its worker's end came.  A worker that died reports nothing.
NothingRunsOn == \A j \in Jobs : turn[j].pc = "done" => call[j].pc # "run"

\* A CLI is never given a tool whose use, or what its use implies, the policy denies or asks
\* about, nor one its runtime cannot confine: whatever definitions concurrent calls write.  It
\* reads only where the policy allows that, or writing or running, which imply it; OpenCode
\* reads even though what implied it is withheld.
ToolsWithinPolicy ==
    \A j \in Jobs : call[j].pc = "run" =>
        LET policy == policyOf[agentOf[j]]
            given == call[j].tools
            does == given \cup IF "exec" \in given THEN {"read", "write"}
                               ELSE IF "write" \in given THEN {"read"} ELSE {}
        IN  /\ does \cap Blocked(policy) = {}
            /\ \A t \in given \ {"read"} : policy[t] = "allow"
            /\ "read" \in given => \E t \in {"read", "write", "exec"} : policy[t] = "allow"
            /\ adapter \in {"grok", "hermes", "kiro"} => given \subseteq Web
            /\ adapter = "opencode-go" => "exec" \notin given

\* A turn sees, in the session it resumes, only its own conversation under the grants it was
\* queued with: no transcript of a channel taken away and given again comes back.
TranscriptsStayInScope ==
    \A j \in Jobs : call[j].pc = "run" =>
        \A t \in transcripts : t.id = SessionOf(j) => t.holds = {Content(j)}

=============================================================================
