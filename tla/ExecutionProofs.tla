-------------------------- MODULE ExecutionProofs --------------------------
(***************************************************************************)
(* Proofs about Execution: once a turn has reported nothing of it runs on, *)
(* a CLI is given no tool its agent's policy withholds, and a resumed      *)
(* session holds nothing but the turn's own conversation under the grants  *)
(* the turn was queued with.                                               *)
(***************************************************************************)
EXTENDS Execution, TLAPS

JobStates == {"none", "queued", "active", "cancelled", "settled", "failed"}
TurnSteps == {"none", "taken", "calling", "cancel", "cleanup", "report", "done", "lost"}
CallSteps == {"idle", "prepare", "spawn", "run", "exited"}
Kinds == {"start", "continue", "repair"}
Versions == 0..2

\* A session is named after the job and the kind of call that began it.
Sessions == Jobs \X Kinds
Scopes == [conversation: Conversations \cup {NoSession}, granted: {0, 1}]
Offers == [id: Sessions \cup {NoSession}, version: Versions, scope: Scopes]
JobRecords == [state: JobStates, access: 0..MaxAccess, offer: Offers]
TurnRecords == [pc: TurnSteps, version: Versions, abort: {"none", "timeout", "cancelled"},
                outcome: {"none", "completed", "retryable", "permanent"},
                session: Sessions \cup {NoSession}]
CallRecords == [pc: CallSteps, kind: Kinds, tools: SUBSET NativeTools,
                result: Results \cup {"none"}]
Hosts == [up: BOOLEAN, stopping: BOOLEAN, ok: BOOLEAN, version: Versions, taking: Versions,
          pc: {"idle", "off", "on"}]
Installations == [version: 1..2, ok: BOOLEAN]
SetupRecords == [agentOf: [Jobs -> Agents], conversationOf: [Jobs -> Conversations],
                 policyOf: [Agents -> [NativeTools -> Verdicts]]]

\* What every variable is.
ExecutionTypes ==
    /\ adapter \in Adapters /\ installed \in Installations /\ host \in Hosts
    /\ setup \in SetupRecords
    /\ access \in [Agents -> 0..MaxAccess]
    /\ job \in [Jobs -> JobRecords] /\ turn \in [Jobs -> TurnRecords]
    /\ call \in [Jobs -> CallRecords] /\ held \in [Agents -> Offers]
    /\ DOMAIN definitions \subseteq SUBSET NativeTools
    /\ workspaces \subseteq Jobs /\ failures \in 0..MaxFailures

\* How far a job, its turn and the adapter's call may be from one another.  A turn that is
\* over may have a call that has not begun its process only if that call is aborted.
InStep(q, t, c) ==
    /\ q.state \in {"none", "queued"} => t.pc = "none"
    /\ t.pc = "none" => t.session = NoSession
    /\ t.pc \in {"none", "taken", "cleanup"} => c.pc = "idle"
    /\ t.pc = "calling" => t.abort = "none"
    /\ t.pc = "cancel" => t.abort # "none"
    /\ t.pc \in {"report", "done"} => /\ c.pc # "run"
                                      /\ c.pc \in {"prepare", "spawn"} => t.abort # "none"
    /\ c.pc # "idle" /\ c.kind = "continue" => q.offer.id # NoSession
AllInStep == \A j \in Jobs : InStep(job[j], turn[j], call[j])

\* Kiro's definitions each give the tools they are named for, and a call that is about to
\* start finds its own.
ToolsAsWanted ==
    /\ \A t \in DOMAIN definitions : definitions[t] = t
    /\ \A j \in Jobs : /\ call[j].pc = "spawn" /\ adapter = "kiro" => Wanted(j) \in DOMAIN definitions
                       /\ call[j].pc = "run" => call[j].tools = Wanted(j)

\* Session s was begun by a job like j: of its agent, about its conversation, queued under the
\* same grants.
BegunLike(s, j) ==
    /\ s \in Sessions /\ job[j].state # "none" /\ job[s[1]].state # "none"
    /\ agentOf[s[1]] = agentOf[j] /\ conversationOf[s[1]] = conversationOf[j]
    /\ job[s[1]].access = job[j].access

\* A transcript holds what the job that began it was about, and nothing else.
TranscriptsHoldOne ==
    \A t \in transcripts : /\ t.id \in Sessions /\ job[t.id[1]].state # "none"
                           /\ t.holds = {Content(t.id[1])}

\* A job is offered, and a turn leaves, a session begun by a job like it.
JobsInScope ==
    \A j \in Jobs : /\ job[j].offer.id # NoSession => BegunLike(job[j].offer.id, j)
                    /\ turn[j].session # NoSession => BegunLike(turn[j].session, j)

\* The session held for an agent was begun under the grants the agent has now.
HeldFor(a, h) ==
    h.id # NoSession =>
        /\ h.id \in Sessions /\ job[h.id[1]].state # "none"
        /\ agentOf[h.id[1]] = a /\ job[h.id[1]].access = access[a]
        /\ h.scope = Scope(h.id[1], access[a])
HeldInScope == \A a \in Agents : HeldFor(a, held[a])

ExecutionInv ==
    /\ ExecutionTypes /\ AllInStep /\ ToolsAsWanted
    /\ TranscriptsHoldOne /\ JobsInScope /\ HeldInScope

-----------------------------------------------------------------------------
(* Types. *)

\* No version is known yet, and one is installed.
LEMMA VersionNumbers == 0 \in Versions /\ 1..2 \subseteq Versions
BY DEF Versions

\* The records a job begins with.
LEMMA Blanks ==
    /\ NotHeld \in Offers /\ NoJob \in JobRecords /\ NoTurn \in TurnRecords /\ NoCall \in CallRecords
    /\ \A j \in Jobs, kind \in Kinds : Calls(j, kind) \in CallRecords
    /\ HostDown \in Hosts
<1>1. NotHeld \in Offers
  BY VersionNumbers DEF NotHeld, Offers, Scopes
<1>2. NoJob \in JobRecords
  BY <1>1, ExecutionAssumption DEF NoJob, JobRecords, JobStates
<1>3. NoTurn \in TurnRecords
  BY VersionNumbers DEF NoTurn, TurnRecords, TurnSteps
<1>4. NoCall \in CallRecords
  BY DEF NoCall, CallRecords, CallSteps, Kinds, Results
<1>5. \A j \in Jobs, kind \in Kinds : Calls(j, kind) \in CallRecords
  BY <1>4 DEF Calls, CallRecords, CallSteps
<1>6. HostDown \in Hosts
  BY VersionNumbers DEF HostDown, Hosts
<1> QED BY <1>1, <1>2, <1>3, <1>4, <1>5, <1>6

\* The assignments to a record's fields that the actions make.
LEMMA HostEdits ==
    ASSUME NEW h \in Hosts
    PROVE  /\ [h EXCEPT !.stopping = TRUE, !.pc = "idle"] \in Hosts
           /\ [h EXCEPT !.stopping = TRUE, !.taking = 0] \in Hosts
BY VersionNumbers DEF Hosts

\* A turn that moves on, whatever else it notes, is a turn, and has the rest as it was.
LEMMA TurnEdits ==
    ASSUME NEW t \in TurnRecords, NEW pc \in TurnSteps
    PROVE  /\ [t EXCEPT !.pc = pc] \in TurnRecords
           /\ \A o \in {"none", "completed", "retryable", "permanent"} :
                /\ [t EXCEPT !.pc = pc, !.outcome = o] \in TurnRecords
                /\ \A s \in Sessions \cup {NoSession} :
                    [t EXCEPT !.pc = pc, !.outcome = o, !.session = s] \in TurnRecords
BY DEF TurnRecords

\* A tool call that moves on is a tool call.
LEMMA CallEdits ==
    ASSUME NEW c \in CallRecords, NEW pc \in CallSteps
    PROVE  /\ [c EXCEPT !.pc = pc] \in CallRecords
           /\ \A r \in Results : [c EXCEPT !.pc = pc, !.result = r] \in CallRecords
           /\ \A tools \in SUBSET NativeTools : [c EXCEPT !.pc = pc, !.tools = tools] \in CallRecords
BY DEF CallRecords

\* A job that is finished, or handed back, is a job.
LEMMA JobEdits ==
    ASSUME NEW q \in JobRecords, NEW state \in JobStates
    PROVE  [q EXCEPT !.state = state] \in JobRecords
BY DEF JobRecords

\* Every CLI's ending is classified.
LEMMA ResultType == ASSUME NEW e \in Endings PROVE ResultOf(e) \in Results
BY DEF ResultOf, Endings, Results, ClaudeResult, CodexResult, GrokResult, HermesResult, KiroResult,
       OpencodeResult, Answered

\* Only native tools are granted.
LEMMA GrantsType ==
    ASSUME NEW policy PROVE NativeGrants(policy) \subseteq NativeTools
BY DEF NativeGrants, NativeTools

\* What a turn is to be given are native tools.
LEMMA WantedType == ASSUME NEW j \in Jobs PROVE Wanted(j) \subseteq NativeTools
BY GrantsType DEF Wanted, ToolsFor, ClaudeTools, CodexTools, GrokTools, HermesTools, KiroTools,
   OpencodeTools, ConfinedGrants, NativeTools

\* An abort keeps a turn's type.
LEMMA AbortsType ==
    ASSUME NEW t \in TurnRecords, NEW why \in {"timeout", "cancelled"}
    PROVE  [t EXCEPT !.abort = IF @ = "none" THEN why ELSE @,
                     !.pc = IF @ = "calling" THEN "cancel" ELSE @] \in TurnRecords
BY DEF TurnRecords, TurnSteps

\* The offer made to a job, and the session a completed one leaves.
LEMMA OfferType == ASSUME ExecutionTypes, NEW j \in Jobs PROVE Offer(j) \in Offers
BY Blanks DEF Offer, ExecutionTypes, SetupRecords, agentOf

\* The session a job resumes is one there is, or none.
LEMMA SessionType ==
    ASSUME ExecutionTypes, NEW j \in Jobs PROVE SessionOf(j) \in Sessions \cup {NoSession}
BY DEF SessionOf, ExecutionTypes, JobRecords, CallRecords, Offers, Sessions

\* What is kept after a turn has the type of what was kept before.
LEMMA PersistType ==
    ASSUME ExecutionTypes, NEW j \in Jobs
    PROVE  PersistSession(j, turn[j].session) \in [Agents -> Offers]
<1>0. job[j].access \in Nat /\ conversationOf[j] \in Conversations
  BY ExecutionAssumption DEF ExecutionTypes, JobRecords, SetupRecords, conversationOf
<1>1. Scope(j, job[j].access) \in Scopes
  <2>1. job[j].access % 2 \in {0, 1}
    BY <1>0
  <2> QED BY <1>0, <2>1 DEF Scope, Scopes
<1> DEFINE new == [id |-> turn[j].session, version |-> turn[j].version,
                   scope |-> Scope(j, job[j].access)]
<1>2. new \in Offers
  BY <1>1 DEF Offers, ExecutionTypes, TurnRecords
<1> HIDE DEF new
<1>3. [held EXCEPT ![agentOf[j]] = new] \in [Agents -> Offers]
  BY <1>2 DEF ExecutionTypes
<1> QED BY <1>3 DEF PersistSession, ExecutionTypes, new

-----------------------------------------------------------------------------
(* Every action keeps the types. *)

\* Every step keeps the types.
LEMMA TypesStep ==
    ASSUME ExecutionTypes, ToolsAsWanted, [ExecutionNext]_executionVars PROVE ExecutionTypes'
<1>t. /\ installed \in Installations /\ host \in Hosts /\ job \in [Jobs -> JobRecords]
      /\ turn \in [Jobs -> TurnRecords] /\ call \in [Jobs -> CallRecords]
  BY DEF ExecutionTypes
<1>f. Failure => failures' \in 0..MaxFailures
  BY ExecutionAssumption DEF Failure, ExecutionTypes
<1>1. CASE ReplaceCli \/ LoseLogin
  <2>1. installed' \in Installations
    <3>1. \/ installed' = [installed EXCEPT !.version = 2]
          \/ installed' = [installed EXCEPT !.ok = FALSE]
      BY <1>1 DEF ReplaceCli, LoseLogin
    <3>2. [installed EXCEPT !.version = 2] \in Installations
      BY <1>t DEF Installations
    <3>3. [installed EXCEPT !.ok = FALSE] \in Installations
      BY <1>t DEF Installations
    <3> QED BY <3>1, <3>2, <3>3
  <2> QED BY <1>1, <1>f, <2>1 DEF ReplaceCli, LoseLogin, ExecutionTypes, setting, ground
<1>2. CASE StartWorker \/ Probe
  <2>1. host' \in Hosts
    <3>1. CASE StartWorker
      BY <3>1, Blanks DEF StartWorker, Hosts
    <3>2. CASE Probe
      <4>1. PICK ok \in ProbeResults :
              host' = [host EXCEPT !.ok = ok, !.version = installed.version,
                                   !.pc = IF host.taking = 0 THEN "on"
                                          ELSE IF ~ok \/ host.taking # installed.version THEN "off"
                                          ELSE "idle"]
        BY <3>2 DEF Probe
      <4>2. installed.ok \in BOOLEAN /\ installed.version \in Versions
        BY <1>t, VersionNumbers DEF Installations
      <4>3. ok \in BOOLEAN
        BY <4>2 DEF ProbeResults, ClaudeProbe, CodexProbe, GrokProbe, HermesProbe, KiroProbe,
                    OpencodeProbe
      <4> QED BY <1>t, <4>1, <4>2, <4>3 DEF Hosts
    <3> QED BY <1>2, <3>1, <3>2
  <2> QED BY <1>2, <2>1 DEF StartWorker, Probe, ExecutionTypes, setting, ground
<1>3. CASE StopTaking
  <2>1. host' \in Hosts
    <3>1. \/ host' = [host EXCEPT !.taking = 0, !.pc = "on"]
          \/ host' = [host EXCEPT !.stopping = TRUE, !.pc = "idle"]
      BY <1>3 DEF StopTaking
    <3>2. [host EXCEPT !.taking = 0, !.pc = "on"] \in Hosts
      BY <1>t, VersionNumbers DEF Hosts
    <3>3. [host EXCEPT !.stopping = TRUE, !.pc = "idle"] \in Hosts
      BY <1>t, HostEdits
    <3> QED BY <3>1, <3>2, <3>3
  <2>2. turn' \in [Jobs -> TurnRecords]
    <3>1. \A j \in Jobs : Aborts(j, "cancelled") \in TurnRecords
      BY <1>t, AbortsType DEF Aborts
    <3> QED BY <1>3, <1>t, <3>1 DEF StopTaking
  <2> QED BY <1>3, <2>1, <2>2 DEF StopTaking, ExecutionTypes, setting, ground
<1>4. CASE StartTaking \/ StopWorker
  <2>1. host' \in Hosts
    <3> DEFINE taken == IF host.ok /\ ~host.stopping THEN host.version ELSE host.taking
    <3>1. \/ host' = [host EXCEPT !.taking = taken, !.pc = "idle"]
          \/ host' = [host EXCEPT !.ok = FALSE, !.pc = "idle"]
          \/ host' = [host EXCEPT !.stopping = TRUE, !.taking = 0]
      BY <1>4 DEF StartTaking, StopWorker
    <3>2. taken \in Versions
      BY <1>t DEF Hosts
    <3> HIDE DEF taken
    <3>3. [host EXCEPT !.taking = taken, !.pc = "idle"] \in Hosts
      BY <1>t, <3>2 DEF Hosts
    <3>4. [host EXCEPT !.ok = FALSE, !.pc = "idle"] \in Hosts
      BY <1>t DEF Hosts
    <3>5. [host EXCEPT !.stopping = TRUE, !.taking = 0] \in Hosts
      BY <1>t, HostEdits
    <3> QED BY <3>1, <3>3, <3>4, <3>5
  <2> QED BY <1>4, <1>f, <2>1 DEF StartTaking, StopWorker, ExecutionTypes, setting, ground
<1>5. CASE WorkerExits
  BY <1>5, Blanks DEF WorkerExits, ExecutionTypes, setting, ground
<1>6. CASE WorkerDies
  <2>1. turn' \in [Jobs -> TurnRecords]
    BY <1>6, TurnEdits DEF WorkerDies, ExecutionTypes, TurnSteps
  <2>2. job' \in [Jobs -> JobRecords]
    BY <1>6, JobEdits DEF WorkerDies, ExecutionTypes, JobStates
  <2> QED BY <1>6, <1>f, <2>1, <2>2, Blanks DEF WorkerDies, ExecutionTypes, setting, ground
<1>7. CASE Prune
  BY <1>7 DEF Prune, ExecutionTypes, setting
<1>8. ASSUME NEW a \in Agents, ChangeGrant(a) PROVE ExecutionTypes'
  <2>1. access' \in [Agents -> 0..MaxAccess]
    BY <1>8, ExecutionAssumption DEF ChangeGrant, ExecutionTypes
  <2> QED BY <1>8, <2>1, Blanks DEF ChangeGrant, ExecutionTypes, setting, ground
<1>9. ASSUME NEW j \in Jobs, QueueJob(j) PROVE ExecutionTypes'
  <2>1. [state |-> "queued", access |-> access[agentOf[j]], offer |-> Offer(j)] \in JobRecords
    BY OfferType DEF ExecutionTypes, JobRecords, JobStates, SetupRecords, agentOf
  <2> QED BY <1>9, <2>1 DEF QueueJob, ExecutionTypes, setting, ground
<1>10. ASSUME NEW j \in Jobs, CancelJob(j) \/ Take(j) PROVE ExecutionTypes'
  <2>1. job' \in [Jobs -> JobRecords]
    <3>1. PICK state \in JobStates : job' = [job EXCEPT ![j] = [job[j] EXCEPT !.state = state]]
      BY <1>10 DEF CancelJob, Take, JobStates
    <3> QED BY <1>t, <3>1, JobEdits
  <2>2. [NoTurn EXCEPT !.pc = "taken", !.version = host.taking] \in TurnRecords
    BY DEF NoTurn, ExecutionTypes, Hosts, TurnRecords, TurnSteps
  <2> QED BY <1>10, <2>1, <2>2 DEF CancelJob, Take, ExecutionTypes, setting, ground
<1>11. ASSUME NEW j \in Jobs, Begin(j) PROVE ExecutionTypes'
  <2>1. turn' \in [Jobs -> TurnRecords]
    <3>1. \/ \E pc \in TurnSteps : turn' = [turn EXCEPT ![j] = [turn[j] EXCEPT !.pc = pc]]
          \/ turn' = [turn EXCEPT ![j] = [turn[j] EXCEPT !.pc = "report", !.outcome = "retryable"]]
      BY <1>11 DEF Begin, TurnSteps
    <3>2. \A pc \in TurnSteps : [turn[j] EXCEPT !.pc = pc] \in TurnRecords
      BY <1>t, TurnEdits
    <3>3. [turn[j] EXCEPT !.pc = "report", !.outcome = "retryable"] \in TurnRecords
      BY <1>t, TurnEdits DEF TurnSteps
    <3> QED BY <1>t, <3>1, <3>2, <3>3
  <2>2. call' \in [Jobs -> CallRecords]
    BY <1>11, Blanks DEF Begin, ExecutionTypes, Kinds
  <2> QED BY <1>11, <1>f, <2>1, <2>2 DEF Begin, ExecutionTypes, setting
<1>12. ASSUME NEW j \in Jobs, CheckJob(j) \/ Deadline(j) PROVE ExecutionTypes'
  <2>1. turn' \in [Jobs -> TurnRecords]
    BY <1>12, AbortsType DEF CheckJob, Deadline, ExecutionTypes, Aborts
  <2> QED BY <1>12, <1>f, <2>1 DEF CheckJob, Deadline, ExecutionTypes, setting, ground
<1>13. ASSUME NEW j \in Jobs, Cleanup(j) PROVE ExecutionTypes'
  <2>1. turn' \in [Jobs -> TurnRecords]
    <3>1. turn[j].outcome \in {"none", "completed", "retryable", "permanent"}
      BY <1>t DEF TurnRecords
    <3> DEFINE o == IF turn[j].pc = "cleanup" THEN turn[j].outcome
                    ELSE IF turn[j].abort = "timeout" THEN "retryable" ELSE "permanent"
    <3>2. turn' = [turn EXCEPT ![j] = [turn[j] EXCEPT !.pc = "report", !.outcome = o]]
      BY <1>13 DEF Cleanup
    <3>3. o \in {"none", "completed", "retryable", "permanent"}
      BY <3>1
    <3> HIDE DEF o
    <3>4. [turn[j] EXCEPT !.pc = "report", !.outcome = o] \in TurnRecords
      BY <1>t, <3>3, TurnEdits DEF TurnSteps
    <3> QED BY <1>t, <3>2, <3>4
  <2> QED BY <1>13, <1>f, <2>1 DEF Cleanup, ExecutionTypes, setting
<1>14. ASSUME NEW j \in Jobs, SendReport(j) PROVE ExecutionTypes'
  <2>1. turn' \in [Jobs -> TurnRecords]
    BY <1>14, TurnEdits DEF SendReport, ExecutionTypes, TurnSteps
  <2>2. job' \in [Jobs -> JobRecords]
    <3>1. PICK state \in JobStates : job' = [job EXCEPT ![j] = [job[j] EXCEPT !.state = state]]
      BY <1>14 DEF SendReport, JobStates
    <3> QED BY <1>t, <3>1, JobEdits
  <2>3. held' \in [Agents -> Offers]
    BY <1>14, PersistType DEF SendReport, ExecutionTypes
  <2> QED BY <1>14, <1>f, <2>1, <2>2, <2>3 DEF SendReport, ExecutionTypes, setting, ground
<1>15. ASSUME NEW j \in Jobs, WriteDefinitions(j) PROVE ExecutionTypes'
  <2>1. call' \in [Jobs -> CallRecords]
    BY <1>15, CallEdits DEF WriteDefinitions, ExecutionTypes, CallSteps
  <2>2. DOMAIN definitions' \subseteq SUBSET NativeTools
    BY <1>15, WantedType DEF WriteDefinitions, ExecutionTypes, Defined, AgentName
  <2> QED BY <1>15, <2>1, <2>2 DEF WriteDefinitions, ExecutionTypes, setting
<1>16. ASSUME NEW j \in Jobs, Spawn(j) PROVE ExecutionTypes'
  <2>0. GivenTools(j) \in SUBSET NativeTools
    BY <1>16, WantedType DEF GivenTools, AgentName, Spawn, ToolsAsWanted
  <2>1. call' \in [Jobs -> CallRecords]
    <3>1. \/ call' = [call EXCEPT ![j] = [call[j] EXCEPT !.pc = "exited", !.result = "stopped"]]
          \/ call' = [call EXCEPT ![j] = [call[j] EXCEPT !.pc = "run", !.tools = GivenTools(j)]]
      BY <1>16 DEF Spawn
    <3>2. [call[j] EXCEPT !.pc = "exited", !.result = "stopped"] \in CallRecords
      BY <1>t, CallEdits DEF CallSteps, Results
    <3>3. [call[j] EXCEPT !.pc = "run", !.tools = GivenTools(j)] \in CallRecords
      BY <1>t, <2>0, CallEdits DEF CallSteps
    <3> QED BY <1>t, <3>1, <3>2, <3>3
  <2> QED BY <1>16, <2>1 DEF Spawn, ExecutionTypes, setting
<1>17. ASSUME NEW j \in Jobs, Exit(j) PROVE ExecutionTypes'
  <2>1. PICK e \in Endings :
          /\ IF e = "invalid" THEN Failure ELSE UNCHANGED failures
          /\ call' = [call EXCEPT ![j] = [@ EXCEPT !.pc = "exited",
                                                   !.result = IF turn[j].abort # "none" THEN "stopped"
                                                              ELSE ResultOf(e)]]
    BY <1>17 DEF Exit
  <2>2. [call[j] EXCEPT !.pc = "exited", !.result = IF turn[j].abort # "none" THEN "stopped"
                                                    ELSE ResultOf(e)] \in CallRecords
    BY ResultType, CallEdits DEF ExecutionTypes, CallSteps, Results
  <2> QED BY <1>17, <1>f, <2>1, <2>2 DEF Exit, ExecutionTypes, setting, ground
<1>18. ASSUME NEW j \in Jobs, Interpret(j) PROVE ExecutionTypes'
  <2>1. call' \in [Jobs -> CallRecords]
    BY <1>18, Blanks DEF Interpret, ExecutionTypes, Kinds
  <2>2. turn' \in [Jobs -> TurnRecords]
    <3>1. \/ turn' = turn
          \/ \E o \in {"none", "completed", "retryable", "permanent"},
                 s \in Sessions \cup {NoSession} :
                turn' = [turn EXCEPT ![j] = [turn[j] EXCEPT !.pc = "cleanup", !.outcome = o,
                                                            !.session = s]]
      BY <1>18, SessionType DEF Interpret
    <3>2. ASSUME NEW o \in {"none", "completed", "retryable", "permanent"},
                 NEW s \in Sessions \cup {NoSession}
          PROVE  [turn[j] EXCEPT !.pc = "cleanup", !.outcome = o, !.session = s] \in TurnRecords
      BY <1>t, TurnEdits DEF TurnSteps
    <3> QED BY <1>t, <3>1, <3>2
  <2> QED BY <1>18, <2>1, <2>2 DEF Interpret, ExecutionTypes, setting
<1>19. CASE UNCHANGED executionVars
  BY <1>19 DEF executionVars, ExecutionTypes
<1> QED BY <1>1, <1>2, <1>3, <1>4, <1>5, <1>6, <1>7, <1>8, <1>9, <1>10, <1>11, <1>12, <1>13, <1>14,
           <1>15, <1>16, <1>17, <1>18, <1>19 DEF ExecutionNext

-----------------------------------------------------------------------------
(* Every action keeps a job, its turn and its call in step. *)

\* An aborted turn.
LEMMA AbortKeepsStep ==
    ASSUME NEW q, NEW t \in TurnRecords, NEW c, NEW why \in {"timeout", "cancelled"},
           InStep(q, t, c), t.pc \notin {"none", "done", "lost"}
    PROVE  InStep(q, [t EXCEPT !.abort = IF @ = "none" THEN why ELSE @,
                               !.pc = IF @ = "calling" THEN "cancel" ELSE @], c)
BY DEF InStep, TurnRecords, TurnSteps

\* A step of one job.
LEMMA OneJob ==
    ASSUME ExecutionTypes, AllInStep, NEW j \in Jobs,
           NEW q, NEW t, NEW c,
           job' = [job EXCEPT ![j] = q], turn' = [turn EXCEPT ![j] = t],
           call' = [call EXCEPT ![j] = c], InStep(q, t, c)
    PROVE  AllInStep'
<1> SUFFICES ASSUME NEW k \in Jobs PROVE InStep(job'[k], turn'[k], call'[k])
  BY DEF AllInStep
<1>1. CASE k = j
  <2>1. job'[k] = q /\ turn'[k] = t /\ call'[k] = c
    BY <1>1 DEF ExecutionTypes
  <2> QED BY <2>1
<1>2. CASE k # j
  <2>1. job'[k] = job[k] /\ turn'[k] = turn[k] /\ call'[k] = call[k]
    BY <1>2 DEF ExecutionTypes
  <2> QED BY <2>1 DEF AllInStep
<1> QED BY <1>1, <1>2

\* A variable that a step leaves alone.
LEMMA Same ==
    ASSUME ExecutionTypes, NEW j \in Jobs
    PROVE  /\ job = [job EXCEPT ![j] = job[j]] /\ turn = [turn EXCEPT ![j] = turn[j]]
           /\ call = [call EXCEPT ![j] = call[j]]
BY DEF ExecutionTypes

\* Every step keeps the turn, its calls and its job in step.
LEMMA StepStep ==
    ASSUME ExecutionTypes, AllInStep, [ExecutionNext]_executionVars PROVE AllInStep'
<1>t. /\ job \in [Jobs -> JobRecords] /\ turn \in [Jobs -> TurnRecords]
      /\ call \in [Jobs -> CallRecords]
  BY DEF ExecutionTypes
<1>1. CASE UNCHANGED <<job, turn, call>>
  BY <1>1 DEF AllInStep
<1>3. CASE StopTaking
  <2>1. \/ turn' = turn
        \/ turn' = [j \in Jobs |-> IF j \in InFlight THEN Aborts(j, "cancelled") ELSE turn[j]]
    BY <1>3 DEF StopTaking
  <2>2. ASSUME NEW j \in InFlight PROVE InStep(job[j], Aborts(j, "cancelled"), call[j])
    BY <1>t, AbortKeepsStep DEF Aborts, AllInStep, InFlight
  <2> QED BY <1>3, <2>1, <2>2 DEF StopTaking, AllInStep
<1>5. CASE WorkerExits
  <2>1. ASSUME NEW j \in Jobs PROVE InStep(job[j], turn[j], NoCall)
    BY DEF InStep, NoCall, AllInStep
  <2> QED BY <1>5, <2>1 DEF WorkerExits, AllInStep
<1>6. CASE WorkerDies
  <2> SUFFICES ASSUME NEW j \in Jobs PROVE InStep(job'[j], turn'[j], call'[j])
    BY DEF AllInStep
  <2>1. InStep(job[j], turn[j], call[j]) /\ job[j] \in JobRecords /\ turn[j] \in TurnRecords
    BY <1>t DEF AllInStep
  <2>2. call'[j] = call[j] \/ call'[j] = NoCall
    BY <1>6 DEF WorkerDies
  <2>3. CASE j \notin InFlight
    <3>1. job'[j] = job[j] /\ turn'[j] = turn[j]
      BY <1>6, <2>3 DEF WorkerDies
    <3> QED BY <2>1, <2>2, <3>1 DEF InStep, NoCall
  <2>4. CASE j \in InFlight
    <3>1. turn'[j] = [turn[j] EXCEPT !.pc = "lost"] /\ turn[j].pc # "none"
      BY <1>6, <2>4 DEF WorkerDies, InFlight
    <3>2. job'[j] = job[j] \/ job'[j] = [job[j] EXCEPT !.state = "failed"]
      BY <1>6, <2>4 DEF WorkerDies
    <3>3. turn'[j].pc = "lost" /\ job'[j].offer = job[j].offer
          /\ job'[j].state \in {job[j].state, "failed"}
      BY <2>1, <3>1, <3>2 DEF TurnRecords, JobRecords
    <3> QED BY <2>1, <2>2, <3>1, <3>3 DEF InStep, NoCall
  <2> QED BY <2>3, <2>4
<1>9. ASSUME NEW j \in Jobs, QueueJob(j) PROVE AllInStep'
  <2> DEFINE q == [state |-> "queued", access |-> access[agentOf[j]], offer |-> Offer(j)]
  <2>1. InStep(q, turn[j], call[j])
    BY <1>9 DEF QueueJob, AllInStep, InStep
  <2>2. job' = [job EXCEPT ![j] = q] /\ turn' = turn /\ call' = call
    BY <1>9 DEF QueueJob
  <2> HIDE DEF q
  <2> QED BY <2>1, <2>2, OneJob, Same
<1>10. ASSUME NEW j \in Jobs, CancelJob(j) PROVE AllInStep'
  <2> DEFINE q == [job[j] EXCEPT !.state = "cancelled"]
  <2>1. InStep(q, turn[j], call[j])
    BY <1>t, <1>10 DEF CancelJob, AllInStep, InStep, JobRecords
  <2>2. job' = [job EXCEPT ![j] = q] /\ turn' = turn /\ call' = call
    BY <1>10 DEF CancelJob
  <2> HIDE DEF q
  <2> QED BY <2>1, <2>2, OneJob, Same
<1>11. ASSUME NEW j \in Jobs, Take(j) PROVE AllInStep'
  <2> DEFINE q == [job[j] EXCEPT !.state = "active"]
             t == [NoTurn EXCEPT !.pc = "taken", !.version = host.taking]
  <2>1. InStep(q, t, call[j])
    BY <1>t, <1>11 DEF Take, AllInStep, InStep, JobRecords, NoTurn
  <2>2. job' = [job EXCEPT ![j] = q] /\ turn' = [turn EXCEPT ![j] = t] /\ call' = call
    BY <1>11 DEF Take
  <2> HIDE DEF q, t
  <2> QED BY <2>1, <2>2, OneJob, Same
<1>12. ASSUME NEW j \in Jobs, Begin(j) PROVE AllInStep'
  <2>1. InStep(job[j], turn[j], call[j]) /\ turn[j].pc = "taken" /\ turn[j] \in TurnRecords
    BY <1>12, <1>t DEF AllInStep, Begin
  <2>2. CASE /\ call' = [call EXCEPT ![j] = Calls(j, IF Resumable(j) THEN "continue" ELSE "start")]
             /\ turn' = [turn EXCEPT ![j].pc = IF turn[j].abort = "none" THEN "calling" ELSE "cancel"]
    <3> DEFINE c == Calls(j, IF Resumable(j) THEN "continue" ELSE "start")
               t == [turn[j] EXCEPT !.pc = IF turn[j].abort = "none" THEN "calling" ELSE "cancel"]
    <3>1. InStep(job[j], t, c)
      BY <2>1 DEF InStep, Calls, NoCall, Resumable, TurnRecords
    <3>2. job' = job /\ turn' = [turn EXCEPT ![j] = t] /\ call' = [call EXCEPT ![j] = c]
      BY <1>12, <2>2 DEF Begin
    <3> HIDE DEF c, t
    <3> QED BY <3>1, <3>2, OneJob, Same
  <2>3. CASE /\ turn' = [turn EXCEPT ![j] = [@ EXCEPT !.pc = "report", !.outcome = "retryable"]]
             /\ call' = call
    <3> DEFINE t == [turn[j] EXCEPT !.pc = "report", !.outcome = "retryable"]
    <3>1. InStep(job[j], t, call[j])
      BY <2>1 DEF InStep, TurnRecords
    <3>2. job' = job /\ turn' = [turn EXCEPT ![j] = t]
      BY <1>12, <2>3 DEF Begin
    <3> HIDE DEF t
    <3> QED BY <2>3, <3>1, <3>2, OneJob, Same
  <2> QED BY <1>12, <2>2, <2>3 DEF Begin
<1>13. ASSUME NEW j \in Jobs, CheckJob(j) \/ Deadline(j) PROVE AllInStep'
  <2>1. ASSUME NEW why \in {"timeout", "cancelled"}, turn' = [turn EXCEPT ![j] = Aborts(j, why)]
        PROVE  AllInStep'
    <3>1. turn[j].pc \notin {"none", "done", "lost"} /\ job' = job /\ call' = call
      BY <1>13 DEF CheckJob, Deadline
    <3>2. InStep(job[j], Aborts(j, why), call[j])
      BY <1>t, <3>1, AbortKeepsStep DEF Aborts, AllInStep
    <3> QED BY <2>1, <3>1, <3>2, OneJob, Same
  <2> QED BY <1>13, <2>1 DEF CheckJob, Deadline
<1>14. ASSUME NEW j \in Jobs, Cleanup(j) PROVE AllInStep'
  <2> DEFINE o == IF turn[j].pc = "cleanup" THEN turn[j].outcome
                  ELSE IF turn[j].abort = "timeout" THEN "retryable" ELSE "permanent"
             t == [turn[j] EXCEPT !.pc = "report", !.outcome = o]
  <2>1. InStep(job[j], turn[j], call[j]) /\ turn[j] \in TurnRecords
        /\ (turn[j].pc = "cleanup" \/ (turn[j].pc = "cancel" /\ call[j].pc # "run"))
    BY <1>t, <1>14 DEF AllInStep, Cleanup
  <2>2. turn' = [turn EXCEPT ![j] = t] /\ job' = job /\ call' = call
    BY <1>14 DEF Cleanup
  <2> HIDE DEF o
  <2>3. InStep(job[j], t, call[j])
    BY <2>1 DEF InStep, TurnRecords
  <2> HIDE DEF t
  <2> QED BY <2>2, <2>3, OneJob, Same
<1>15. ASSUME NEW j \in Jobs, SendReport(j) PROVE AllInStep'
  <2> DEFINE t == [turn[j] EXCEPT !.pc = "done"]
  <2>1. PICK state \in {"settled", "failed"} :
          job' = [job EXCEPT ![j] = [job[j] EXCEPT !.state = state]]
    BY <1>15 DEF SendReport
  <2>2. turn' = [turn EXCEPT ![j] = t] /\ call' = call /\ turn[j].pc = "report"
    BY <1>15 DEF SendReport
  <2>3. InStep([job[j] EXCEPT !.state = state], t, call[j])
    BY <1>t, <2>2 DEF AllInStep, InStep, TurnRecords, JobRecords
  <2> HIDE DEF t
  <2> QED BY <2>1, <2>2, <2>3, OneJob, Same
<1>16. ASSUME NEW j \in Jobs, WriteDefinitions(j) PROVE AllInStep'
  <2> DEFINE c == [call[j] EXCEPT !.pc = "spawn"]
  <2>1. InStep(job[j], turn[j], c)
    BY <1>t, <1>16 DEF AllInStep, InStep, WriteDefinitions, CallRecords
  <2>2. job' = job /\ turn' = turn /\ call' = [call EXCEPT ![j] = c]
    BY <1>16 DEF WriteDefinitions
  <2> HIDE DEF c
  <2> QED BY <2>1, <2>2, OneJob, Same
<1>17. ASSUME NEW j \in Jobs, Spawn(j) PROVE AllInStep'
  <2>1. InStep(job[j], turn[j], call[j]) /\ call[j] \in CallRecords /\ call[j].pc = "spawn"
        /\ job' = job /\ turn' = turn
    BY <1>t, <1>17 DEF AllInStep, Spawn
  <2>2. CASE call' = [call EXCEPT ![j] = [@ EXCEPT !.pc = "exited", !.result = "stopped"]]
    <3> DEFINE c == [call[j] EXCEPT !.pc = "exited", !.result = "stopped"]
    <3>1. InStep(job[j], turn[j], c)
      BY <2>1 DEF InStep, CallRecords
    <3> HIDE DEF c
    <3>2. call' = [call EXCEPT ![j] = c]
      BY <2>2 DEF c
    <3> QED BY <2>1, <3>1, <3>2, OneJob, Same
  <2>3. CASE /\ turn[j].abort = "none"
             /\ call' = [call EXCEPT ![j] = [@ EXCEPT !.pc = "run", !.tools = GivenTools(j)]]
    <3> DEFINE c == [call[j] EXCEPT !.pc = "run", !.tools = GivenTools(j)]
    <3>1. InStep(job[j], turn[j], c)
      BY <2>1, <2>3 DEF InStep, CallRecords
    <3> HIDE DEF c
    <3>2. call' = [call EXCEPT ![j] = c]
      BY <2>3 DEF c
    <3> QED BY <2>1, <3>1, <3>2, OneJob, Same
  <2> QED BY <1>17, <2>2, <2>3 DEF Spawn
<1>18. ASSUME NEW j \in Jobs, Exit(j) PROVE AllInStep'
  <2>1. PICK r : call' = [call EXCEPT ![j] = [call[j] EXCEPT !.pc = "exited", !.result = r]]
    BY <1>18 DEF Exit
  <2>2. job' = job /\ turn' = turn /\ call[j].pc = "run"
    BY <1>18 DEF Exit
  <2>3. InStep(job[j], turn[j], [call[j] EXCEPT !.pc = "exited", !.result = r])
    BY <1>t, <2>2 DEF InStep, AllInStep, CallRecords
  <2> QED BY <2>1, <2>2, <2>3, OneJob, Same
<1>19. ASSUME NEW j \in Jobs, Interpret(j) PROVE AllInStep'
  <2>1. InStep(job[j], turn[j], call[j]) /\ turn[j] \in TurnRecords /\ call[j].pc = "exited"
        /\ job' = job
    BY <1>t, <1>19 DEF AllInStep, Interpret
  <2>2. CASE call' = [call EXCEPT ![j] = NoCall] /\ turn' = turn
    <3>1. InStep(job[j], turn[j], NoCall)
      BY <2>1 DEF InStep, NoCall
    <3> QED BY <2>1, <2>2, <3>1, OneJob, Same
  <2>3. ASSUME NEW again \in {"start", "repair"}, turn[j].pc = "calling",
               call' = [call EXCEPT ![j] = Calls(j, again)], turn' = turn
        PROVE  AllInStep'
    <3>1. InStep(job[j], turn[j], Calls(j, again))
      BY <2>1, <2>3 DEF InStep, NoCall, Calls
    <3> QED BY <2>1, <2>3, <3>1, OneJob, Same
  <2>4. ASSUME NEW o, NEW s, call' = [call EXCEPT ![j] = NoCall],
               turn' = [turn EXCEPT ![j] = [turn[j] EXCEPT !.pc = "cleanup", !.outcome = o,
                                                           !.session = s]],
               turn[j].pc = "calling"
        PROVE  AllInStep'
    <3>1. InStep(job[j], [turn[j] EXCEPT !.pc = "cleanup", !.outcome = o, !.session = s], NoCall)
      BY <2>1, <2>4 DEF InStep, NoCall, TurnRecords
    <3> QED BY <2>1, <2>4, <3>1, OneJob, Same
  <2> DEFINE r == call[j].result
             again == IF call[j].kind = "continue" /\ r \in {"retryable", "permanent"} THEN "start"
                      ELSE IF call[j].kind # "repair" /\ r = "invalid" THEN "repair" ELSE "none"
             kept == ResumesSessions /\ r \in {"valid", "invalid"}
             outcome == IF r = "valid" THEN "completed"
                        ELSE IF r = "retryable" THEN r ELSE "permanent"
             session == IF kept THEN SessionOf(j) ELSE NoSession
  <2>5. CASE turn[j].pc # "calling"
    BY <1>19, <2>2, <2>5 DEF Interpret
  <2>6. CASE turn[j].pc = "calling" /\ again # "none"
    <3>1. call' = [call EXCEPT ![j] = Calls(j, again)] /\ turn' = turn
      BY <1>19, <2>6 DEF Interpret
    <3>2. again \in {"start", "repair"}
      BY <2>6
    <3> HIDE DEF again
    <3> QED BY <2>3, <2>6, <3>1, <3>2
  <2>7. CASE turn[j].pc = "calling" /\ again = "none"
    <3>1. /\ call' = [call EXCEPT ![j] = NoCall]
          /\ turn' = [turn EXCEPT ![j] = [turn[j] EXCEPT !.pc = "cleanup", !.outcome = outcome,
                                                         !.session = session]]
      BY <1>19, <2>7 DEF Interpret
    <3> HIDE DEF outcome, session
    <3> QED BY <2>4, <2>7, <3>1
  <2> QED BY <2>5, <2>6, <2>7
<1>20. CASE \/ ReplaceCli \/ LoseLogin \/ StartWorker \/ Probe \/ StartTaking \/ StopWorker \/ Prune
            \/ (\E a \in Agents : ChangeGrant(a)) \/ UNCHANGED executionVars
  <2>1. UNCHANGED <<job, turn, call>>
    BY <1>20 DEF ReplaceCli, LoseLogin, StartWorker, Probe, StartTaking, StopWorker, Prune,
                 ChangeGrant, executionVars
  <2> QED BY <1>1, <2>1
<1> QED BY <1>3, <1>5, <1>6, <1>9, <1>10, <1>11, <1>12, <1>13, <1>14, <1>15, <1>16, <1>17, <1>18,
           <1>19, <1>20 DEF ExecutionNext

-----------------------------------------------------------------------------
(* Every action keeps the calls' tools what the policy and the adapter make them. *)

\* Who a job is for and what its agent may use never change.
LEMMA SameSetting ==
    ASSUME [ExecutionNext]_executionVars PROVE UNCHANGED <<adapter, setup>>
BY DEF ExecutionNext, executionVars, setting, ReplaceCli, LoseLogin, StartWorker, Probe, StopTaking,
       StartTaking, StopWorker, WorkerExits, WorkerDies, Prune, ChangeGrant, QueueJob, CancelJob,
       Take, Begin, CheckJob, Deadline, Cleanup, SendReport, WriteDefinitions, Spawn, Exit, Interpret

\* The policy and the setup of a job do not change while it runs.
LEMMA SameTools ==
    ASSUME [ExecutionNext]_executionVars, NEW j \in Jobs PROVE Wanted(j)' = Wanted(j)
<1>1. UNCHANGED <<adapter, setup>>
  BY SameSetting
<1> QED BY <1>1 DEF Wanted, ToolsFor, policyOf, agentOf

\* A step that starts no process and prepares none.
LEMMA NothingStarts ==
    ASSUME ToolsAsWanted, [ExecutionNext]_executionVars, definitions' = definitions,
           \A j \in Jobs : \/ call'[j].pc \notin {"spawn", "run"}
                           \/ call'[j] = call[j]
    PROVE  ToolsAsWanted'
BY SameTools, SameSetting DEF ToolsAsWanted

\* Every step keeps to the tools a turn was to be given.
LEMMA ToolsStep ==
    ASSUME ExecutionTypes, ToolsAsWanted, [ExecutionNext]_executionVars PROVE ToolsAsWanted'
<1>t. call \in [Jobs -> CallRecords]
  BY DEF ExecutionTypes
<1>1. CASE UNCHANGED <<call, definitions>>
  BY <1>1, NothingStarts
<1>2. CASE WorkerExits \/ WorkerDies
  BY <1>2, <1>t, NothingStarts DEF WorkerExits, WorkerDies, NoCall, ground
<1>3. ASSUME NEW j \in Jobs, NEW c, call' = [call EXCEPT ![j] = c], definitions' = definitions,
             c.pc \notin {"spawn", "run"}
      PROVE  ToolsAsWanted'
  BY <1>3, <1>t, NothingStarts
<1>4. ASSUME NEW j \in Jobs, Begin(j) PROVE ToolsAsWanted'
  <2>1. definitions' = definitions
    BY <1>4 DEF Begin
  <2>2. CASE call' = call
    BY <1>1, <2>1, <2>2
  <2>3. ASSUME NEW kind, call' = [call EXCEPT ![j] = Calls(j, kind)] PROVE ToolsAsWanted'
    BY <1>3, <2>1, <2>3 DEF Calls, NoCall
  <2> QED BY <1>4, <2>2, <2>3 DEF Begin
<1>5. ASSUME NEW j \in Jobs, WriteDefinitions(j) PROVE ToolsAsWanted'
  <2> DEFINE c == [call[j] EXCEPT !.pc = "spawn"]
  <2>1. c.pc = "spawn" /\ call' = [call EXCEPT ![j] = c]
    BY <1>5, <1>t DEF WriteDefinitions, CallRecords
  <2>2. /\ \A k \in Jobs \ {j} : call'[k] = call[k]
        /\ call'[j].pc = "spawn"
    <3> HIDE DEF c
    <3> QED BY <1>t, <2>1
  <2>3. /\ \A t \in DOMAIN definitions' : definitions'[t] = t
        /\ DOMAIN definitions \subseteq DOMAIN definitions'
        /\ adapter = "kiro" => Wanted(j) \in DOMAIN definitions'
    BY <1>5 DEF WriteDefinitions, Defined, AgentName, ToolsAsWanted
  <2>4. adapter' = adapter /\ \A k \in Jobs : Wanted(k)' = Wanted(k)
    BY SameTools, SameSetting
  <2> QED BY <2>2, <2>3, <2>4 DEF ToolsAsWanted
<1>6. ASSUME NEW j \in Jobs, Spawn(j) PROVE ToolsAsWanted'
  <2>1. definitions' = definitions /\ call[j].pc = "spawn"
    BY <1>6 DEF Spawn
  <2>2. CASE call' = [call EXCEPT ![j] = [@ EXCEPT !.pc = "exited", !.result = "stopped"]]
    <3>1. [call[j] EXCEPT !.pc = "exited", !.result = "stopped"].pc = "exited"
      BY <1>t DEF CallRecords
    <3> QED BY <1>3, <2>1, <2>2, <3>1
  <2>3. CASE call' = [call EXCEPT ![j] = [@ EXCEPT !.pc = "run", !.tools = GivenTools(j)]]
    <3> DEFINE c == [call[j] EXCEPT !.pc = "run", !.tools = GivenTools(j)]
    <3>1. c.pc = "run" /\ c.tools = GivenTools(j) /\ call' = [call EXCEPT ![j] = c]
      BY <1>t, <2>3 DEF CallRecords
    <3>2. call'[j].pc = "run" /\ call'[j].tools = GivenTools(j)
          /\ \A k \in Jobs \ {j} : call'[k] = call[k]
      <4> HIDE DEF c
      <4> QED BY <1>t, <3>1
    <3>3. GivenTools(j) = Wanted(j)
      BY <2>1 DEF GivenTools, AgentName, ToolsAsWanted
    <3>4. adapter' = adapter /\ \A k \in Jobs : Wanted(k)' = Wanted(k)
      BY SameTools, SameSetting
    <3> QED BY <2>1, <3>2, <3>3, <3>4 DEF ToolsAsWanted
  <2> QED BY <1>6, <2>2, <2>3 DEF Spawn
<1>7. ASSUME NEW j \in Jobs, Exit(j) PROVE ToolsAsWanted'
  <2>1. PICK r : call' = [call EXCEPT ![j] = [call[j] EXCEPT !.pc = "exited", !.result = r]]
    BY <1>7 DEF Exit
  <2>2. [call[j] EXCEPT !.pc = "exited", !.result = r].pc = "exited"
    BY <1>t DEF CallRecords
  <2>3. definitions' = definitions
    BY <1>7 DEF Exit, ground
  <2> QED BY <1>3, <2>1, <2>2, <2>3
<1>8. ASSUME NEW j \in Jobs, Interpret(j) PROVE ToolsAsWanted'
  <2>1. definitions' = definitions
    BY <1>8 DEF Interpret
  <2>2. \/ call' = [call EXCEPT ![j] = NoCall]
        \/ \E kind : call' = [call EXCEPT ![j] = Calls(j, kind)]
    BY <1>8 DEF Interpret
  <2>3. NoCall.pc = "idle" /\ \A kind : Calls(j, kind).pc = "prepare"
    BY DEF NoCall, Calls
  <2>4. CASE call' = [call EXCEPT ![j] = NoCall]
    BY <1>3, <2>1, <2>3, <2>4
  <2>5. ASSUME NEW kind, call' = [call EXCEPT ![j] = Calls(j, kind)] PROVE ToolsAsWanted'
    BY <1>3, <2>1, <2>3, <2>5
  <2> QED BY <2>2, <2>4, <2>5
<1>9. CASE \/ ReplaceCli \/ LoseLogin \/ StartWorker \/ Probe \/ StartTaking \/ StopWorker \/ Prune
           \/ StopTaking \/ (\E a \in Agents : ChangeGrant(a)) \/ UNCHANGED executionVars
  <2>1. UNCHANGED <<call, definitions>>
    BY <1>9 DEF ReplaceCli, LoseLogin, StartWorker, Probe, StartTaking, StopWorker, Prune,
                StopTaking, ChangeGrant, executionVars, ground
  <2> QED BY <1>1, <2>1
<1>10. ASSUME NEW j \in Jobs,
              \/ QueueJob(j) \/ CancelJob(j) \/ Take(j) \/ CheckJob(j) \/ Deadline(j) \/ Cleanup(j)
              \/ SendReport(j)
       PROVE  ToolsAsWanted'
  <2>1. UNCHANGED <<call, definitions>>
    BY <1>10 DEF QueueJob, CancelJob, Take, CheckJob, Deadline, Cleanup, SendReport, ground
  <2> QED BY <1>1, <2>1
<1> QED BY <1>2, <1>4, <1>5, <1>6, <1>7, <1>8, <1>9, <1>10 DEF ExecutionNext

-----------------------------------------------------------------------------
(* What the grants and each adapter's flags let a call do. *)

\* nativeToolGrants: nothing granted, and nothing a granted tool can be used for, is blocked.
LEMMA GrantsWithinPolicy ==
    ASSUME NEW policy \in [NativeTools -> Verdicts], NEW t \in NativeGrants(policy)
    PROVE  /\ t \notin Blocked(policy)
           /\ t \in {"write", "exec"} => "read" \notin Blocked(policy)
           /\ t = "exec" => "write" \notin Blocked(policy)
           /\ t # "read" => policy[t] = "allow"
           /\ t = "read" => \/ policy["read"] = "allow"
                            \/ NativeGrants(policy) \cap {"write", "exec"} # {}
<1> DEFINE allowed == {u \in NativeTools : policy[u] = "allow"}
           direct == {u \in allowed : /\ u \in {"write", "exec"} => "read" \notin Blocked(policy)
                                      /\ u = "exec" => "write" \notin Blocked(policy)}
<1>1. \A u \in direct : u \notin Blocked(policy) /\ policy[u] = "allow"
  BY DEF Blocked
<1>2. CASE direct \cap {"write", "exec"} = {}
  <2>1. NativeGrants(policy) = direct
    BY <1>2 DEF NativeGrants
  <2> QED BY <1>1, <2>1
<1>3. CASE direct \cap {"write", "exec"} # {}
  <2>1. NativeGrants(policy) = direct \cup {"read"}
    BY <1>3 DEF NativeGrants
  <2>2. "read" \notin Blocked(policy)
    BY <1>3
  <2> QED BY <1>1, <1>3, <2>1, <2>2
<1> QED BY <1>2, <1>3

\* Granting a tool that writes or runs commands grants reading.
LEMMA GrantsRead ==
    ASSUME NEW policy, NativeGrants(policy) \cap {"write", "exec"} # {}
    PROVE  "read" \in NativeGrants(policy)
BY DEF NativeGrants

\* What a call is given is granted, confined, and not more than its runtime can confine.
LEMMA GivenIsGranted ==
    ASSUME adapter \in Adapters, NEW policy
    PROVE  LET given == ToolsFor(NativeGrants(policy))
           IN  /\ given \subseteq NativeGrants(policy)
               /\ adapter \in {"grok", "hermes", "kiro"} => given \subseteq Web
               /\ adapter = "opencode-go" => "exec" \notin given
<1> DEFINE grants == NativeGrants(policy)
<1>1. grants \cap {"write", "exec"} # {} => "read" \in grants
  BY GrantsRead
<1>2. grants \subseteq NativeTools
  BY GrantsType
<1> HIDE DEF grants
<1>3. CASE adapter \in {"claude-code", "codex"}
  BY <1>1, <1>3 DEF ToolsFor, ClaudeTools, CodexTools, grants
<1>4. CASE adapter \in {"grok", "hermes", "kiro"}
  BY <1>4 DEF ToolsFor, GrokTools, HermesTools, KiroTools, ConfinedGrants, Web, grants
<1>5. CASE adapter = "opencode-go"
  BY <1>5 DEF ToolsFor, OpencodeTools, ConfinedGrants, grants
<1> QED BY <1>3, <1>4, <1>5 DEF Adapters

\* The tools a job's call is given stay within its agent's policy.
LEMMA WantedWithinPolicy ==
    ASSUME ExecutionTypes, NEW j \in Jobs
    PROVE  LET policy == policyOf[agentOf[j]]
               given == Wanted(j)
               does == given \cup IF "exec" \in given THEN {"read", "write"}
                                  ELSE IF "write" \in given THEN {"read"} ELSE {}
           IN  /\ does \cap Blocked(policy) = {}
               /\ \A t \in given \ {"read"} : policy[t] = "allow"
               /\ "read" \in given => \E t \in {"read", "write", "exec"} : policy[t] = "allow"
               /\ adapter \in {"grok", "hermes", "kiro"} => given \subseteq Web
               /\ adapter = "opencode-go" => "exec" \notin given
<1> DEFINE policy == policyOf[agentOf[j]]
           given == Wanted(j)
<1>1. policy \in [NativeTools -> Verdicts] /\ adapter \in Adapters
  BY DEF ExecutionTypes, SetupRecords, policyOf, agentOf
<1>2. /\ given \subseteq NativeGrants(policy)
      /\ adapter \in {"grok", "hermes", "kiro"} => given \subseteq Web
      /\ adapter = "opencode-go" => "exec" \notin given
  BY <1>1, GivenIsGranted DEF Wanted
<1>3. ASSUME NEW t \in NativeGrants(policy)
      PROVE  /\ t \notin Blocked(policy)
             /\ t \in {"write", "exec"} => "read" \notin Blocked(policy)
             /\ t = "exec" => "write" \notin Blocked(policy)
             /\ t # "read" => policy[t] = "allow"
             /\ t = "read" => \E u \in {"read", "write", "exec"} : policy[u] = "allow"
  <2>1. CASE t # "read" \/ policy["read"] = "allow"
    BY <1>1, <2>1, GrantsWithinPolicy
  <2>2. CASE t = "read" /\ policy["read"] # "allow"
    <3>1. PICK u \in {"write", "exec"} : u \in NativeGrants(policy)
      BY <1>1, <2>2, GrantsWithinPolicy
    <3>2. policy[u] = "allow" /\ t \notin Blocked(policy)
      BY <1>1, <3>1, GrantsWithinPolicy
    <3> QED BY <2>2, <3>1, <3>2
  <2> QED BY <2>1, <2>2
<1> HIDE DEF policy, given
<1>4. given \cap Blocked(policy) = {}
  BY <1>2, <1>3
<1>5. "exec" \in given => {"read", "write"} \cap Blocked(policy) = {}
  BY <1>2, <1>3
<1>6. "write" \in given => {"read"} \cap Blocked(policy) = {}
  BY <1>2, <1>3
<1>7. \A t \in given \ {"read"} : policy[t] = "allow"
  BY <1>2, <1>3
<1>8. "read" \in given => \E t \in {"read", "write", "exec"} : policy[t] = "allow"
  BY <1>2, <1>3
<1> QED BY <1>2, <1>4, <1>5, <1>6, <1>7, <1>8 DEF policy, given

-----------------------------------------------------------------------------
(* Every action keeps the sessions in scope. *)

\* What a job is about does not change once it is queued.
LEMMA SameContent ==
    ASSUME ExecutionTypes, [ExecutionNext]_executionVars, NEW j \in Jobs, job[j].state # "none"
    PROVE  job'[j].state # "none" /\ job'[j].access = job[j].access /\ job'[j].offer = job[j].offer
<1>t. job \in [Jobs -> JobRecords]
  BY DEF ExecutionTypes
<1>1. CASE job' = job
  BY <1>1
<1>2. ASSUME NEW k \in Jobs, NEW state \in JobStates \ {"none"},
             job' = [job EXCEPT ![k] = [job[k] EXCEPT !.state = state]]
      PROVE  job'[j].state # "none" /\ job'[j].access = job[j].access /\ job'[j].offer = job[j].offer
  <2>1. job[k] \in JobRecords
    BY <1>t
  <2> DEFINE q == [job[k] EXCEPT !.state = state]
  <2>2. q.state = state /\ q.access = job[k].access /\ q.offer = job[k].offer
    BY <2>1 DEF JobRecords
  <2> HIDE DEF q
  <2>3. job'[j] = IF j = k THEN q ELSE job[j]
    BY <1>2, <1>t DEF q
  <2> QED BY <1>2, <2>2, <2>3
<1>3. CASE WorkerDies
  <2>1. job[j] \in JobRecords
    BY <1>t
  <2>2. job'[j] = job[j] \/ job'[j] = [job[j] EXCEPT !.state = "failed"]
    BY <1>3 DEF WorkerDies
  <2>3. CASE job'[j] = [job[j] EXCEPT !.state = "failed"]
    BY <2>1, <2>3 DEF JobRecords
  <2> QED BY <2>2, <2>3
<1>4. ASSUME NEW k \in Jobs, QueueJob(k)
      PROVE  job'[j].state # "none" /\ job'[j].access = job[j].access /\ job'[j].offer = job[j].offer
  <2>1. job'[j] = job[j]
    BY <1>4, <1>t DEF QueueJob
  <2> QED BY <2>1
<1>5. ASSUME NEW k \in Jobs, CancelJob(k) \/ Take(k) \/ SendReport(k)
      PROVE  job'[j].state # "none" /\ job'[j].access = job[j].access /\ job'[j].offer = job[j].offer
  <2>1. \E state \in JobStates \ {"none"} : job' = [job EXCEPT ![k] = [job[k] EXCEPT !.state = state]]
    BY <1>5 DEF CancelJob, Take, SendReport, JobStates
  <2> QED BY <1>2, <2>1
<1>6. CASE \/ ReplaceCli \/ LoseLogin \/ StartWorker \/ Probe \/ StartTaking \/ StopWorker \/ Prune
           \/ StopTaking \/ WorkerExits \/ (\E a \in Agents : ChangeGrant(a))
           \/ UNCHANGED executionVars
  BY <1>1, <1>6 DEF ReplaceCli, LoseLogin, StartWorker, Probe, StartTaking, StopWorker, Prune,
                    StopTaking, WorkerExits, ChangeGrant, executionVars
<1>7. ASSUME NEW k \in Jobs,
             \/ Begin(k) \/ CheckJob(k) \/ Deadline(k) \/ Cleanup(k) \/ WriteDefinitions(k)
             \/ Spawn(k) \/ Exit(k) \/ Interpret(k)
      PROVE  job'[j].state # "none" /\ job'[j].access = job[j].access /\ job'[j].offer = job[j].offer
  BY <1>1, <1>7 DEF Begin, CheckJob, Deadline, Cleanup, WriteDefinitions, Spawn, Exit, Interpret
<1> QED BY <1>3, <1>4, <1>5, <1>6, <1>7 DEF ExecutionNext

\* So a session begun like a job's stays so.
LEMMA StillBegunLike ==
    ASSUME ExecutionTypes, [ExecutionNext]_executionVars, NEW j \in Jobs, NEW s, BegunLike(s, j)
    PROVE  BegunLike(s, j)'
<1>1. s[1] \in Jobs
  BY DEF BegunLike, Sessions
<1>2. UNCHANGED setup
  BY SameSetting
<1> QED BY <1>1, <1>2, SameContent DEF BegunLike, agentOf, conversationOf

\* A job's call works in a session begun like the job.
LEMMA WorksInScope ==
    ASSUME ExecutionTypes, AllInStep, JobsInScope, NEW j \in Jobs, call[j].pc # "idle"
    PROVE  BegunLike(SessionOf(j), j)
<1>1. job[j].state # "none"
  BY DEF AllInStep, InStep
<1>2. CASE call[j].kind = "continue"
  BY <1>2 DEF SessionOf, AllInStep, InStep, JobsInScope
<1>3. CASE call[j].kind # "continue"
  <2>1. SessionOf(j) = <<j, call[j].kind>> /\ call[j].kind \in Kinds
    BY <1>3 DEF SessionOf, ExecutionTypes, CallRecords
  <2> QED BY <1>1, <2>1 DEF BegunLike, Sessions
<1> QED BY <1>2, <1>3

\* Every step keeps a transcript to the turns of one scope.
LEMMA TranscriptsStep ==
    ASSUME ExecutionInv, [ExecutionNext]_executionVars PROVE TranscriptsHoldOne'
<1> USE DEF ExecutionInv
<1>1. ASSUME NEW s \in Sessions, job[s[1]].state # "none"
      PROVE  job'[s[1]].state # "none" /\ Content(s[1])' = Content(s[1])
  <2>1. s[1] \in Jobs
    BY DEF Sessions
  <2> QED BY <1>1, <2>1, SameContent, SameSetting DEF Content, conversationOf
<1>2. CASE transcripts' \subseteq transcripts
  BY <1>1, <1>2 DEF TranscriptsHoldOne
<1>3. ASSUME NEW j \in Jobs, call[j].pc # "idle", transcripts' = Wrote(SessionOf(j), j)
      PROVE  TranscriptsHoldOne'
  <2>1. BegunLike(SessionOf(j), j)
    BY <1>3, WorksInScope
  <2> DEFINE s == SessionOf(j)
             earlier == {t \in transcripts : t.id = s}
             new == [id |-> s, holds |-> (UNION {t.holds : t \in earlier}) \cup {Content(j)}]
  <2>2. Content(s[1]) = Content(j) /\ s \in Sessions /\ job[s[1]].state # "none"
    BY <2>1 DEF BegunLike, Content
  <2>3. transcripts' = (transcripts \ earlier) \cup {new}
    BY <1>3 DEF Wrote
  <2> HIDE DEF s
  <2>4. \A t \in earlier : t.holds = {Content(j)}
    BY <2>2 DEF TranscriptsHoldOne
  <2>5. (UNION {t.holds : t \in earlier}) \cup {Content(j)} = {Content(j)}
    <3>1. UNION {t.holds : t \in earlier} \subseteq {Content(j)}
      BY <2>4
    <3> QED BY <3>1
  <2>6. new.id = s /\ new.holds = {Content(s[1])}
    BY <2>2, <2>5
  <2> HIDE DEF new
  <2> QED BY <1>1, <2>2, <2>3, <2>6 DEF TranscriptsHoldOne
<1>4. ASSUME NEW j \in Jobs, Spawn(j) PROVE TranscriptsHoldOne'
  BY <1>2, <1>3, <1>4 DEF Spawn
<1>5. ASSUME NEW j \in Jobs, Interpret(j) PROVE TranscriptsHoldOne'
  BY <1>2, <1>5 DEF Interpret
<1>6. CASE \/ ReplaceCli \/ LoseLogin \/ StartWorker \/ Probe \/ StartTaking \/ StopWorker \/ Prune
           \/ StopTaking \/ WorkerExits \/ WorkerDies \/ (\E a \in Agents : ChangeGrant(a))
           \/ UNCHANGED executionVars
  BY <1>2, <1>6 DEF ReplaceCli, LoseLogin, StartWorker, Probe, StartTaking, StopWorker, Prune,
                    StopTaking, WorkerExits, WorkerDies, ChangeGrant, executionVars, ground
<1>7. ASSUME NEW j \in Jobs,
             \/ QueueJob(j) \/ CancelJob(j) \/ Take(j) \/ Begin(j) \/ CheckJob(j) \/ Deadline(j)
             \/ Cleanup(j) \/ SendReport(j) \/ WriteDefinitions(j) \/ Exit(j)
      PROVE  TranscriptsHoldOne'
  BY <1>2, <1>7 DEF QueueJob, CancelJob, Take, Begin, CheckJob, Deadline, Cleanup, SendReport,
                    WriteDefinitions, Exit, ground
<1> QED BY <1>4, <1>5, <1>6, <1>7 DEF ExecutionNext

\* The offer made to a job is of a session begun by a job like it.
LEMMA OfferInScope ==
    ASSUME ExecutionInv, NEW j \in Jobs, QueueJob(j) PROVE JobsInScope'
<1> USE DEF ExecutionInv
<1>t. job \in [Jobs -> JobRecords]
  BY DEF ExecutionTypes
<1>n. [ExecutionNext]_executionVars
  BY DEF ExecutionNext
<1> DEFINE q == [state |-> "queued", access |-> access[agentOf[j]], offer |-> Offer(j)]
<1>1. /\ q.state # "none" /\ q.access = access[agentOf[j]] /\ q.offer = Offer(j)
      /\ job' = [job EXCEPT ![j] = q] /\ turn' = turn /\ setup' = setup
  BY <1>n, SameSetting DEF QueueJob
<1> HIDE DEF q
<1>2. /\ job'[j] = q /\ \A k \in Jobs \ {j} : job'[k] = job[k]
  BY <1>t, <1>1
<1>3. turn[j].session = NoSession /\ job[j].state = "none"
  BY DEF QueueJob, AllInStep, InStep
<1>4. ASSUME NEW s, s = Offer(j).id, s # NoSession PROVE BegunLike(s, j)'
  <2> DEFINE h == held[agentOf[j]]
  <2>1. Offer(j) = h /\ h.id # NoSession /\ h.scope = Scope(j, access[agentOf[j]])
    BY <1>4 DEF Offer, NotHeld
  <2>2. agentOf[j] \in Agents
    BY DEF ExecutionTypes, SetupRecords, agentOf
  <2> DEFINE i == h.id[1]
  <2>3. /\ h.id \in Sessions /\ job[i].state # "none" /\ agentOf[i] = agentOf[j]
        /\ job[i].access = access[agentOf[j]] /\ h.scope = Scope(i, access[agentOf[j]])
    BY <2>1, <2>2 DEF HeldInScope, HeldFor
  <2>4. i \in Jobs /\ i # j
    BY <2>3, <1>3 DEF Sessions
  <2>5. conversationOf[i] = conversationOf[j]
    BY <2>1, <2>3 DEF Scope
  <2>6. job'[i] = job[i]
    BY <1>2, <2>4
  <2> HIDE DEF h, i
  <2>7. s = h.id /\ i = h.id[1]
    BY <1>4, <2>1 DEF i
  <2> QED BY <1>1, <1>2, <2>3, <2>5, <2>6, <2>7 DEF BegunLike, agentOf, conversationOf
<1>5. ASSUME NEW k \in Jobs \ {j}, NEW s, s # NoSession,
             s = job[k].offer.id \/ s = turn[k].session
      PROVE  BegunLike(s, k)'
  BY <1>5, <1>n, StillBegunLike DEF JobsInScope
<1> QED BY <1>1, <1>2, <1>3, <1>4, <1>5 DEF JobsInScope, BegunLike

\* Every step keeps a job's session in the job's scope.
LEMMA JobsStep ==
    ASSUME ExecutionInv, [ExecutionNext]_executionVars PROVE JobsInScope'
<1> USE DEF ExecutionInv
<1>t. turn \in [Jobs -> TurnRecords] /\ job \in [Jobs -> JobRecords]
  BY DEF ExecutionTypes
<1>1. ASSUME NEW j \in Jobs, NEW s, s # NoSession, s = job[j].offer.id \/ s = turn[j].session
      PROVE  BegunLike(s, j)'
  BY <1>1, StillBegunLike DEF JobsInScope
<1>2. ASSUME \A j \in Jobs : job'[j].offer = job[j].offer,
             \A j \in Jobs : \/ turn'[j].session \in {turn[j].session, NoSession}
                             \/ turn'[j].session = SessionOf(j) /\ call[j].pc # "idle"
      PROVE  JobsInScope'
  <2> SUFFICES ASSUME NEW j \in Jobs, NEW s, s # NoSession,
                      s = job'[j].offer.id \/ s = turn'[j].session
               PROVE  BegunLike(s, j)'
    BY DEF JobsInScope, BegunLike
  <2>1. CASE s = job[j].offer.id \/ s = turn[j].session
    BY <1>1, <2>1
  <2>2. CASE s = SessionOf(j) /\ call[j].pc # "idle"
    <3>1. BegunLike(s, j)
      BY <2>2, WorksInScope
    <3> QED BY <3>1, StillBegunLike
  <2> QED BY <1>2, <2>1, <2>2
<1>3. ASSUME NEW j \in Jobs, NEW t, turn' = [turn EXCEPT ![j] = t], job' = job,
             \/ t.session \in {turn[j].session, NoSession}
             \/ t.session = SessionOf(j) /\ call[j].pc # "idle"
      PROVE  JobsInScope'
  BY <1>2, <1>3, <1>t
<1>4. ASSUME NEW j \in Jobs, NEW state, NEW t, turn' = [turn EXCEPT ![j] = t],
             job' = [job EXCEPT ![j] = [job[j] EXCEPT !.state = state]],
             t.session \in {turn[j].session, NoSession}
      PROVE  JobsInScope'
  <2> DEFINE q == [job[j] EXCEPT !.state = state]
  <2>1. job[j] \in JobRecords /\ job' = [job EXCEPT ![j] = q]
    BY <1>t, <1>4
  <2>2. q.offer = job[j].offer
    BY <2>1 DEF JobRecords
  <2> HIDE DEF q
  <2>3. \A k \in Jobs : job'[k].offer = job[k].offer
    BY <1>t, <2>1, <2>2
  <2>4. \A k \in Jobs : turn'[k].session \in {turn[k].session, NoSession}
    BY <1>t, <1>4
  <2> QED BY <1>2, <2>3, <2>4
<1>5. CASE UNCHANGED <<job, turn>>
  BY <1>2, <1>5
<1>6. CASE StopTaking
  <2>1. \A j \in Jobs : Aborts(j, "cancelled").session = turn[j].session
    BY <1>t DEF Aborts, TurnRecords
  <2>2. \A j \in Jobs : turn'[j].session = turn[j].session
    BY <1>6, <2>1 DEF StopTaking
  <2> QED BY <1>2, <1>6, <2>2 DEF StopTaking
<1>7. CASE WorkerDies
  <2>1. \A j \in Jobs : /\ [turn[j] EXCEPT !.pc = "lost"].session = turn[j].session
                        /\ [job[j] EXCEPT !.state = "failed"].offer = job[j].offer
    BY <1>t DEF TurnRecords, JobRecords
  <2>2. \A j \in Jobs : turn'[j].session = turn[j].session /\ job'[j].offer = job[j].offer
    BY <1>7, <2>1 DEF WorkerDies
  <2> QED BY <1>2, <2>2
<1>8. ASSUME NEW j \in Jobs, CancelJob(j) PROVE JobsInScope'
  <2>1. turn' = [turn EXCEPT ![j] = turn[j]]
    BY <1>8, <1>t DEF CancelJob
  <2> QED BY <1>4, <1>8, <2>1 DEF CancelJob
<1>9. ASSUME NEW j \in Jobs, Take(j) PROVE JobsInScope'
  <2>1. [NoTurn EXCEPT !.pc = "taken", !.version = host.taking].session = NoSession
    BY DEF NoTurn
  <2> QED BY <1>4, <1>9, <2>1 DEF Take
<1>10. ASSUME NEW j \in Jobs, SendReport(j) PROVE JobsInScope'
  <2>1. [turn[j] EXCEPT !.pc = "done"].session = turn[j].session
    BY <1>t DEF TurnRecords
  <2>2. turn' = [turn EXCEPT ![j] = [turn[j] EXCEPT !.pc = "done"]]
    BY <1>10 DEF SendReport
  <2>3. PICK state : job' = [job EXCEPT ![j] = [job[j] EXCEPT !.state = state]]
    BY <1>10 DEF SendReport
  <2> QED BY <1>4, <2>1, <2>2, <2>3
<1>11. ASSUME NEW j \in Jobs, Begin(j) \/ Cleanup(j) PROVE JobsInScope'
  <2>1. ASSUME NEW pc, turn' = [turn EXCEPT ![j] = [turn[j] EXCEPT !.pc = pc]] PROVE JobsInScope'
    <3>1. [turn[j] EXCEPT !.pc = pc].session = turn[j].session
      BY <1>t DEF TurnRecords
    <3> QED BY <1>3, <1>11, <2>1, <3>1 DEF Begin, Cleanup
  <2>2. ASSUME NEW pc, NEW o,
               turn' = [turn EXCEPT ![j] = [turn[j] EXCEPT !.pc = pc, !.outcome = o]]
        PROVE  JobsInScope'
    <3>1. [turn[j] EXCEPT !.pc = pc, !.outcome = o].session = turn[j].session
      BY <1>t DEF TurnRecords
    <3> QED BY <1>3, <1>11, <2>2, <3>1 DEF Begin, Cleanup
  <2>3. CASE Begin(j)
    BY <2>1, <2>2, <2>3 DEF Begin
  <2>4. CASE Cleanup(j)
    BY <2>2, <2>4 DEF Cleanup
  <2> QED BY <1>11, <2>3, <2>4
<1>12. ASSUME NEW j \in Jobs, CheckJob(j) \/ Deadline(j) PROVE JobsInScope'
  <2>1. \A why : Aborts(j, why).session = turn[j].session
    BY <1>t DEF Aborts, TurnRecords
  <2> QED BY <1>3, <1>12, <2>1 DEF CheckJob, Deadline
<1>13. ASSUME NEW j \in Jobs, Interpret(j) PROVE JobsInScope'
  <2>1. job' = job /\ call[j].pc # "idle"
    BY <1>13 DEF Interpret
  <2>2. \/ turn' = turn
        \/ \E o, s : /\ turn' = [turn EXCEPT ![j] = [turn[j] EXCEPT !.pc = "cleanup", !.outcome = o,
                                                                    !.session = s]]
                     /\ s \in {SessionOf(j), NoSession}
    BY <1>13 DEF Interpret
  <2>3. ASSUME NEW o, NEW s, s \in {SessionOf(j), NoSession},
               turn' = [turn EXCEPT ![j] = [turn[j] EXCEPT !.pc = "cleanup", !.outcome = o,
                                                           !.session = s]]
        PROVE  JobsInScope'
    <3>1. [turn[j] EXCEPT !.pc = "cleanup", !.outcome = o, !.session = s].session = s
      BY <1>t DEF TurnRecords
    <3> QED BY <1>3, <2>1, <2>3, <3>1
  <2> QED BY <1>5, <2>1, <2>2, <2>3
<1>14. CASE \/ ReplaceCli \/ LoseLogin \/ StartWorker \/ Probe \/ StartTaking \/ StopWorker \/ Prune
            \/ WorkerExits \/ (\E a \in Agents : ChangeGrant(a)) \/ UNCHANGED executionVars
  BY <1>5, <1>14 DEF ReplaceCli, LoseLogin, StartWorker, Probe, StartTaking, StopWorker, Prune,
                     WorkerExits, ChangeGrant, executionVars
<1>15. ASSUME NEW j \in Jobs, WriteDefinitions(j) \/ Spawn(j) \/ Exit(j) PROVE JobsInScope'
  BY <1>5, <1>15 DEF WriteDefinitions, Spawn, Exit
<1> QED BY <1>6, <1>7, <1>8, <1>9, <1>10, <1>11, <1>12, <1>13, <1>14, <1>15, OfferInScope
        DEF ExecutionNext

\* Every step keeps what an adapter holds in the scope of its turn.
LEMMA HeldStep ==
    ASSUME ExecutionInv, [ExecutionNext]_executionVars PROVE HeldInScope'
<1> USE DEF ExecutionInv
<1>t. held \in [Agents -> Offers] /\ access \in [Agents -> 0..MaxAccess]
  BY DEF ExecutionTypes
<1>1. ASSUME NEW a \in Agents, NEW h, HeldFor(a, h), access'[a] = access[a] PROVE HeldFor(a, h)'
  <2>1. h.id \in Sessions => h.id[1] \in Jobs
    BY DEF Sessions
  <2>2. setup' = setup
    BY SameSetting
  <2> QED BY <1>1, <2>1, <2>2, SameContent DEF HeldFor, Scope, agentOf, conversationOf
<1>2. ASSUME NEW a \in Agents PROVE HeldFor(a, NotHeld)'
  BY DEF HeldFor, NotHeld
<1>3. CASE UNCHANGED <<held, access>>
  BY <1>1, <1>3 DEF HeldInScope, HeldFor
<1>4. ASSUME NEW a \in Agents, ChangeGrant(a) PROVE HeldInScope'
  <2>1. held'[a] = NotHeld /\ \A b \in Agents \ {a} : held'[b] = held[b] /\ access'[b] = access[b]
    BY <1>4, <1>t DEF ChangeGrant
  <2>2. ASSUME NEW b \in Agents PROVE HeldFor(b, held[b])'
    <3>1. PICK h : h = held'[b]
      OBVIOUS
    <3>2. HeldFor(b, h)'
      <4>1. CASE b = a
        BY <1>2, <2>1, <3>1, <4>1
      <4>2. CASE b # a
        BY <1>1, <2>1, <3>1, <4>2 DEF HeldInScope
      <4> QED BY <4>1, <4>2
    <3> QED BY <3>1, <3>2 DEF HeldFor
  <2> QED BY <2>2 DEF HeldInScope
<1>5. ASSUME NEW j \in Jobs, SendReport(j) PROVE HeldInScope'
  <2>1. access' = access
    BY <1>5 DEF SendReport
  <2>2. CASE held' = held
    BY <1>3, <2>1, <2>2
  <2>3. CASE held' # held
    <3> DEFINE a == agentOf[j]
               new == [id |-> turn[j].session, version |-> turn[j].version,
                       scope |-> Scope(j, job[j].access)]
    <3>1. /\ turn[j].session # NoSession /\ access[a] = job[j].access
          /\ held' = [held EXCEPT ![a] = new]
      BY <1>5, <2>3 DEF SendReport, PersistSession
    <3>2. a \in Agents /\ new.id = turn[j].session /\ new.scope = Scope(j, job[j].access)
      BY DEF ExecutionTypes, SetupRecords, agentOf
    <3> HIDE DEF a, new
    <3>3. BegunLike(new.id, j)
      BY <3>1, <3>2 DEF JobsInScope
    <3>4. HeldFor(a, new)
      BY <3>1, <3>2, <3>3 DEF HeldFor, BegunLike, Scope, a
    <3>5. held'[a] = new /\ \A b \in Agents \ {a} : held'[b] = held[b]
      BY <1>t, <3>1, <3>2
    <3>6. ASSUME NEW b \in Agents PROVE HeldFor(b, held[b])'
      <4>1. PICK h : h = held'[b]
        OBVIOUS
      <4>2. HeldFor(b, h)
        BY <3>4, <3>5, <4>1 DEF HeldInScope
      <4>3. HeldFor(b, h)'
        BY <1>1, <2>1, <4>2
      <4> QED BY <4>1, <4>3 DEF HeldFor
    <3> QED BY <3>6 DEF HeldInScope
  <2> QED BY <2>2, <2>3
<1>6. CASE \/ ReplaceCli \/ LoseLogin \/ StartWorker \/ Probe \/ StartTaking \/ StopWorker \/ Prune
           \/ StopTaking \/ WorkerExits \/ WorkerDies \/ UNCHANGED executionVars
  BY <1>3, <1>6 DEF ReplaceCli, LoseLogin, StartWorker, Probe, StartTaking, StopWorker, Prune,
                    StopTaking, WorkerExits, WorkerDies, executionVars
<1>7. ASSUME NEW j \in Jobs,
             \/ QueueJob(j) \/ CancelJob(j) \/ Take(j) \/ Begin(j) \/ CheckJob(j) \/ Deadline(j)
             \/ Cleanup(j) \/ WriteDefinitions(j) \/ Spawn(j) \/ Exit(j) \/ Interpret(j)
      PROVE  HeldInScope'
  BY <1>3, <1>7 DEF QueueJob, CancelJob, Take, Begin, CheckJob, Deadline, Cleanup, WriteDefinitions,
                    Spawn, Exit, Interpret
<1> QED BY <1>4, <1>5, <1>6, <1>7 DEF ExecutionNext

-----------------------------------------------------------------------------
(* The theorems. *)

\* The invariant holds at first.
LEMMA ExecutionInitInv == ExecutionInit => ExecutionInv
<1> SUFFICES ASSUME ExecutionInit PROVE ExecutionInv
  OBVIOUS
<1>1. installed \in Installations
  BY DEF ExecutionInit, Installations
<1>2. setup \in SetupRecords
  BY ExecutionAssumption DEF ExecutionInit, SetupRecords
<1>3. DOMAIN definitions = {}
  BY DEF ExecutionInit
<1>4. ExecutionTypes
  BY <1>1, <1>2, <1>3, Blanks, ExecutionAssumption DEF ExecutionInit, ExecutionTypes
<1>5. AllInStep
  BY DEF ExecutionInit, AllInStep, InStep, NoJob, NoTurn, NoCall
<1>6. ToolsAsWanted
  BY <1>3 DEF ExecutionInit, ToolsAsWanted, NoCall
<1>7. TranscriptsHoldOne /\ HeldInScope
  BY DEF ExecutionInit, TranscriptsHoldOne, HeldInScope, HeldFor, NotHeld
<1>8. JobsInScope
  BY DEF ExecutionInit, JobsInScope, NoJob, NoTurn, NotHeld
<1> QED BY <1>4, <1>5, <1>6, <1>7, <1>8 DEF ExecutionInv

\* The invariant always holds.
LEMMA ExecutionInvHolds == ExecutionSpec => []ExecutionInv
<1>1. ExecutionInv /\ [ExecutionNext]_executionVars => ExecutionInv'
  BY TypesStep, StepStep, ToolsStep, TranscriptsStep, JobsStep, HeldStep DEF ExecutionInv
<1> QED BY <1>1, ExecutionInitInv, PTL DEF ExecutionSpec

\* The worker, its host, the jobs, their turns and their calls keep their types.
THEOREM ExecutionTypeCorrect == ExecutionSpec => []ExecutionTypeOK
<1>1. ExecutionInv => ExecutionTypeOK
  BY DEF ExecutionInv, ExecutionTypes, ExecutionTypeOK, Installations, Hosts, Versions, SetupRecords,
         JobRecords, JobStates, TurnRecords, TurnSteps, CallRecords, CallSteps, Kinds
<1> QED BY <1>1, ExecutionInvHolds, PTL

\* Once a turn has reported, none of its processes runs or will (executeTurn, cancel,
\* runProcess): for any number of jobs, at any concurrency.
THEOREM ReportedTurnsAreOver == ExecutionSpec => []NothingRunsOn
<1>1. ExecutionInv => NothingRunsOn
  BY DEF ExecutionInv, AllInStep, InStep, NothingRunsOn
<1> QED BY <1>1, ExecutionInvHolds, PTL

\* No CLI is given a tool its agent's policy withholds or its runtime cannot confine, for every
\* policy and every one of the six adapters, whatever definitions concurrent calls write.
THEOREM ToolsAreGranted == ExecutionSpec => []ToolsWithinPolicy
<1>1. ExecutionInv => ToolsWithinPolicy
  <2> SUFFICES ASSUME ExecutionInv, NEW j \in Jobs, call[j].pc = "run"
               PROVE  LET policy == policyOf[agentOf[j]]
                          given == call[j].tools
                          does == given \cup IF "exec" \in given THEN {"read", "write"}
                                             ELSE IF "write" \in given THEN {"read"} ELSE {}
                      IN  /\ does \cap Blocked(policy) = {}
                          /\ \A t \in given \ {"read"} : policy[t] = "allow"
                          /\ "read" \in given =>
                                \E t \in {"read", "write", "exec"} : policy[t] = "allow"
                          /\ adapter \in {"grok", "hermes", "kiro"} => given \subseteq Web
                          /\ adapter = "opencode-go" => "exec" \notin given
    BY DEF ToolsWithinPolicy
  <2>1. call[j].tools = Wanted(j)
    BY DEF ExecutionInv, ToolsAsWanted
  <2> QED BY <2>1, WantedWithinPolicy DEF ExecutionInv
<1> QED BY <1>1, ExecutionInvHolds, PTL

\* A turn that resumes a session finds there only its own conversation, under the grants it was
\* queued with: for any number of agents, conversations and changes of grants.
THEOREM ResumedIsOwn == ExecutionSpec => []TranscriptsStayInScope
<1>1. ExecutionInv => TranscriptsStayInScope
  <2> SUFFICES ASSUME ExecutionInv, NEW j \in Jobs, call[j].pc = "run",
                      NEW t \in transcripts, t.id = SessionOf(j)
               PROVE  t.holds = {Content(j)}
    BY DEF TranscriptsStayInScope
  <2>1. BegunLike(SessionOf(j), j)
    BY WorksInScope DEF ExecutionInv
  <2> QED BY <2>1 DEF ExecutionInv, TranscriptsHoldOne, BegunLike, Content
<1> QED BY <1>1, ExecutionInvHolds, PTL

=============================================================================
