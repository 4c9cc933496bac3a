# TLA+ specifications of Agent Gateway

Agent Gateway is a control plane for AI agents that talk through Mattermost. PostgreSQL
holds its state, pg-boss its queues; a controller process owns every decision, workers run
the agents, tool runners carry out approved actions, and an outbox performs every post. The
specifications here model its protocols, from the listener that hears a post to the worker
that runs an agent and the backup of the database, check them with TLC on small instances
and prove their safety properties with TLAPS for every size.

Contents: [inventory](#inventory), [modules](#modules), [runs](#runs),
[fairness](#fairness), [proofs](#proofs), [findings](#findings),
[what is not modelled](#what-is-not-modelled), [plan](#plan).

## Inventory

The parts of the system, the state each keeps, what it does, and what makes it correct.
Paths are under `src/`; `services/` is `packages/core/src/services/`.

| Part | State | Operations | Interacts with | Hard behaviour | Correct when |
|---|---|---|---|---|---|
| agent state machine (`packages/core/src/state-machine.ts`) | `agents.state` | the transition table | every use case | illegal transitions roll back | busy exactly while a run is in progress |
| run protocol (`services/runs.ts`, `reconcile.ts`) | `agent_runs`, artifacts | report, deadline, retry, complete, fail, cancel, declare lost | run and report queues, waits, outbox | late, repeated, lost reports; timeouts racing results | one result per run, every run ends |
| scheduler (`services/scheduler.ts`) | `agent_inbox` | schedule, hold, coalesce, sweep | runs, waits, budgets | work that nothing wakes | no event lost, work is taken |
| waits (`services/wait-store.ts`, `wait-timeouts.ts`) | `wait_subscriptions` | create, match, time out, extend, cancel | ingest, approvals | answers before the wait, siblings | a wait ends once and resumes once |
| ingest and routing (`services/ingest.ts`, `packages/core/src/routing.ts`) | `events`, `event_routes` | ingest, route, guard loops | inbox, waits | duplicates, loops, hop limits | each event decided once per agent |
| operator commands (`services/admin.ts`) | `gateway_controls` | pause, resume, enable, disable, cancel, redrive, kill-all | everything | racing the protocol | holds hold, FAILED is left only by a redrive |
| outbox (`packages/outbox`, `packages/mattermost/src/deliver.ts`) | `outbox` | enqueue, claim, deliver, settle, reconcile, redrive, cancel | queue, Mattermost | crash between effect and receipt, lease takeover | one effect per item, every item settles |
| approvals and tool broker (`services/approvals.ts`, `packages/tool-broker`, `apps/tool-runner`) | `approval_requests`, `tool_actions` | request, decide, begin, report, expire, sweep, withdraw, revoke, settle | waits, outbox, tool queues | unknown outcomes, late receipts, kill-all against begin | only granted actions, once, truthfully recorded |
| budgets (`services/budgets.ts`) | usage ledger, reservations | reserve, settle, hold | scheduler, runs | reservations of lost runs | never over the limit, nothing leaks |
| configuration (`services/management.ts`, `admin.ts`, `console-management.ts`, the console's agent pages) | `config_revisions` and snapshots, the agents' projection | read, patch, submit, apply, roll back, import, acknowledge | all agents, approvals, provisioning | stale bases, lost answers, older releases | what is enforced is what is recorded, no unseen overwrite |
| agent lifecycle (`services/agent-lifecycle.ts`, `apps/controller/src/agent-provisioner.ts`) | lifecycle rows, operations | create, provision, retire, restore, retry, reprovision | Mattermost, configuration, outbox | requests between two calls of a pass, retries of half-done provisioning | one live operation, a retired agent has no access, a ready one can post |
| channel grants, membership (`services/channel-grants.ts`, `packages/mattermost/src/membership.ts`) | grants, floors, the grace in memory | judge an add, grant, revoke, leave, sweep the listener | Mattermost, configuration, provisioner, sessions | passes on what they read before, records deleted by people | every grant was given, nobody lingers |
| listener and backfill (`packages/mattermost/src/listener.ts`, `backfill.ts`, `services/mattermost-bridge.ts`) | cursors, floors, the chain of tasks | frames, syncs, scans of a channel's start, retries | ingest, approvals, configuration | lost frames, failed changes, a channel that leaves and returns | no post skipped, none from outside the channel's time |
| Gmail connector (`packages/connector-gmail`, `services/gmail.ts`) | `gmail_mailboxes` | sync, full sync, watch, pull, reset | ingest, Google | forgotten history, another account, three loops | no message lost, none of another account |
| tool catalog (`services/tool-catalog.ts`, `attachment-validation.ts`, `packages/policy`) | entries, attachments | attach, update, detach, adopt, delete | configuration, approvals | one tool implying or denying another | access grows only by a grant |
| worker and runtime adapters (`apps/worker`, `packages/runtime-*`) | subscription, turns, processes, workspaces, sessions | probe, take, run, abort, report, prune | run queue, CLIs | calls that outlive their turn, shared homes | nothing runs on, tools within the policy, transcripts in scope |
| deployment (`packages/db`, `packages/service`, `apps/cli/src/backup.ts`, `scripts`, `deploy`) | migrations, certificates, the deployment lock, archives | start, migrate, certify, back up, restore, test a restore | every process | interrupted upgrades, rollbacks, wrong URLs | services run on their schema, manifests are true |
| runtime health (`services/runtime-health.ts`) | `runtime_workers`, `runtime_availability` | heartbeat, sweep, settle | worker, alerts | late and reordered heartbeats | outages are settled, blips are not |
| alerts, retention (`services/alerts.ts`, `retention.ts`, `apps/controller/src/controller.ts`) | `alert_states`, `maintenance_status` | observe, fire, remind, resolve, claim, end | everything | flapping, restarts, tasks that never succeed | what lasts is alerted once |
| console sessions (`services/console-sessions.ts`) | their rows | sign in, expire | console | staleness | not modelled yet |
| rendering, prompts, CLI parsing, console front end | none of their own | convert text | worker, operators | third-party output | outside these models |

`PROJECT.json` lists the hazards these parts are exposed to, line by line, with the
properties that cover them.

Two facts shape every model. A use case of the controller is one PostgreSQL transaction
that takes the correlation's advisory lock, the controls row, the agent's row and then its
own rows, in that order: it is one action. Everything between two transactions is
interleaved: queue delivery, workers, tool runners, Mattermost calls, and the reads that
sweeps and reconciliation do without a lock.

## Modules

| Module | What it is |
|---|---|
| `AgentRuns` | one agent: state, inbox, runs, waits, run queue and worker, reports, timers, reconciliation, operator commands |
| `Outbox` | one outbox item, its deliveries, Mattermost, reconciliation, redrive, retirement of its agent |
| `OutboxPromise` | what the outbox promises of one side effect; `Outbox` implements it |
| `Approvals` | the requests of one agent, cards, decisions, tool runners, reports, sweeps, holds |
| `Provisioning` | one agent's lifecycle row and journal, the provisioner's pass, the bot's account, token and memberships, configuration and grants |
| `Listener` | one channel: Mattermost's posts, the WebSocket, the listener's chain of tasks, its cursors, the configuration that manages the channel |
| `Membership` | one channel and one agent: membership records, the synchronizer's pass, the grant, the provisioner's adds |
| `Connector` | one Gmail mailbox: Gmail, the sync, watch and pull loops, the mailbox's row |
| `Configuration` | one agent's configuration: the journal, the projection, the catalog, the requests of consoles and command lines; extends `Permissions`, the compilation of attachments into permissions |
| `Execution` | one runtime worker, its turns, the CLI processes, workspaces and sessions, for each of the six adapters |
| `Deployment` | one database: services, migrations, certificates, backups, restores |
| `RuntimeHealth` | one adapter: workers, heartbeats, settled availability |
| `Alerts` | the alert conditions and what they are computed from |
| `MCAgentRuns`, `MCProvisioning`, `MCConversations`, `MCOperations` | instances for TLC (`Outbox` needs none) |
| `AgentRunsProofs`, `OutboxProofs`, `ProvisioningProofs`, `ExecutionProofs`, `ConnectorProofs` | theorems and proofs about the module each is named for |
| `AccessProofs` | theorems and proofs about `Approvals` and `Configuration` |
| `MattermostProofs` | theorems and proofs about `Membership` and `Listener` |
| `OperationsProofs` | theorems and proofs about `Deployment`, `RuntimeHealth` and `Alerts` |

`MCConversations` extends `Approvals`, `Listener`, `Membership`, `Connector` and
`Configuration`; `MCOperations` extends `Execution`, `Deployment`, `RuntimeHealth` and
`Alerts`. These components share no state in the models (where they meet, each has the other
as an input), so interleaving them would only multiply their states. A behaviour picks one
component, its *scene*, in the initial state and takes steps of that component's own
next-state relation while the others stand still: a run explores each component's graph as
its module has it. `Alerts` has one scene for each thing it is computed from.

A definition marked *Mutant* is a plausible wrong version of the definition that follows
it; `PROJECT.json` names the property that notices the difference.

### AgentRuns

One agent stands for any: agents share only the kill switch and the configuration, and
every use case locks the agent. The rows are functions (`run`, `inbox`, `waits`); the
queues are sets (`reports`, `timers`, `waitJobs`) so that jobs arrive in any order; `job`
follows each attempt's queue job and its worker. `ScheduleAgent` is the scheduler every use
case ends with, computed on the rows the caller would write: retire entries whose post is
gone, look for missed answers, apply the holds, choose and coalesce, start a run. A
transition that `requireTransition` refuses disables the action, as the exception rolls the
transaction back. Reconciliation is three actions (`ObserveRun`, `ProbeJob`, `ProbeReport`)
before `FailLostAttempt`, because the code reads three times without a lock.

Abstractions: an event is a model value, and which event answers which condition is the
constant `Answers`; routing's verdict is an input; quota, budget, channel and lifecycle
holds may hold or not at each call; `MaxRuns` bounds the rows, `MaxAttempts` is
`MAX_RUN_ATTEMPTS`, `MaxCoalesced` is `MAX_COALESCED_EVENTS`.

### Outbox and OutboxPromise

The row (`status`, `attempts`, `maxAttempts`, `due`, `lease`), the jobs, and per delivery
the step it is at and the attempt it claimed. `Claim`, `RecordSent`/`RecordFailure`,
`ReconcileOutbox` and `RedriveOutbox` are transactions; `LookUp` and `CreatePost` are the
calls to Mattermost in between. `attempts` is a fencing token: a settlement counts only
while the item is still claimed by that attempt. `RetireAgent` cancels the open item, and
waits for a delivery that holds the configuration while it posts (`whileAgentMayPost`).

Faults are constants: a process dies, a job is dead-lettered, a delivery outlasts its
lease, a lookup is not sure. `Prompt` says that the last two do not happen. The lease is two
minutes and a delivery's calls time out after fifteen seconds each, so a slow delivery
needs a stalled process; a create that Mattermost performs after the client gave up is
covered by the server's own `pending_post_id` and by "unsure" here. Fencing is claimed
without `Prompt`, single effects only with it.

`OutboxPromise` has an item and a count of effects; the mapping takes `pending` and
`sending` to "open" and `posts` to the effects.

### Approvals

`request`, `action`, `told` and `stopping` are the columns of the two tables; `clock` is
how far time has come between the deadlines (expiry; begin window; run grace; end of the
extended wait); `holds` is what stands against execution. A request is granted or denied by
a reply in a delivered card's thread, or refused when the policy no longer permits it. Tool
runners fetch a job, call `gateway_begin_tool_action`, perform, and report; each may die
anywhere, and jobs and reports may be lost or repeated. The sweep selects without a lock
(`SweepSelect`) and settles one request per transaction (`SweepOne`). `effects` counts what
the provider did and `byHand` remembers what an operator wrote; neither is visible to the
code.

Abstractions: who may decide, the exact command and the hash are part of being a valid
decision or a job that begins; every other reply leaves this state alone. The runner's poll
for a stop request only turns a running call into "unknown", which it may become anyway. A
card whose outbox item is cancelled while it is being posted counts as gone. The sweep's
limits (100 requests, 50 late cards, two days) are not modelled: the instances are far
below them, and a card delivered more than two days late gets no last word in the code.

### Provisioning

`status`, `current` and `ops` are the row of `agent_lifecycle` and its journal, each
operation with its checkpoints; `config`, `directory`, `identity` and `grants` are what the
control plane knows; `bot`, `tokens`, `file`, `botTeams` and `members` are Mattermost and the
token file. A request (`Create`, `Retire`, `Restore`, `Retry`, `EditChannels`, `ChangeTeam`,
`GrantChannel`, `RevokeGrant`) is one transaction under the row lock. `pass` is the
provisioner's position and what it has read: one action per Mattermost call and per
transaction, named `Pass...`, because a request may commit between any two. An advisory lock
keeps passes apart, so there is one. `PassSave` is `checkpointOperation`, where a pass learns
that it was superseded, one call too late. `PassRefused` is a permanent failure
(`settleFailure`), `PassAbort` a transient one or a crash: what was read is lost and the
operation stays.

One agent stands for any: agents share the team and its directory, which are inputs, and
`runLockedProvisionerPass` treats operations one by one. `trimmed` is a history variable.

Abstractions: the team's default channel is outside `Names` (the code never trims it), and a
pass joins and trims in any order; roles of the bot are normalised by calls that change
nothing here; a repeated request with the same idempotency key changes nothing; validation,
finance roles and audit rows are left out. A retire that finds no bot of its own goes straight
to completion, the notice about an unverified owner included. Restoring or deleting rows and
accounts by hand in Mattermost is not modelled, except that a stranger's account may be
renamed. That an owner's change of membership becomes a grant is `GrantChannel`; the
synchronizer that notices it is `Membership`. What a retirement does to runs, the outbox and
approvals is in the other modules.

### Listener

`post` is Mattermost's channel: a post is stamped with its time before it is visible, so a
later post may be seen first. `queue` is the listener's promise chain, `task` what it is at.
A frame is handled in three steps (`BeginLive`, `HandleLive`, `SaveLive`) and a sync in a
step per call: the directory and cursor (`BeginSync`), the scan of a channel without a start
(`ScanStart`, `StartChannel`), the changes since the cursor less the margin (`FetchChanges`),
each post (`ReplayPost`), the cursor (`FinishSync`). `failing` keeps the cursor where it is
after a change failed. `channel` holds the configuration generation, the marker that the
channel left, the floor and the cursor. An agent's post and an approval card have an outbox
item (`item`); until it is settled the post's author, or the card a command answers, is not
known, and the change fails to be tried again.

Abstractions: `Threads` says what posts there may be (a human's, an agent's, a card, a
command), ingest is `outcome`, the deduplicated result of `ingestEventIf`; who a post wakes is
`AgentRuns`. Edits matter as new `update_at`s. `SettledPost` assumes that Mattermost does not
show a post more than the sync margin after its stamp, as the code does.

### Membership

`records` are Mattermost's system posts about the bot, `pass` the synchronizer at one of its
calls: list the bot's channels, check an active grant against the newest record, judge an
add, grant in a transaction, bring or sweep the listener, or wait out the grace and leave.
People add and remove the bot and delete records, an operator revokes, an edit configures or
unconfigures the channel, and the provisioner adds the bot with the admin's token, all between
two calls. One channel and one agent stand for any: passes treat them one by one. The
controller's and Mattermost's clocks are taken to agree where a tombstone's date
(`admin.ts:283`) is compared with an add's.

`GrantsAreGiven` exempts one case, which TLC showed: an owner's grant is in force when the
channel is configured, the bot is removed and brought back by the admin account between two
passes (a pass leaves a configured channel alone), and the channel is taken out of the
configuration. `tombstoneUnconfiguredChannels` leaves the grant alone, still dated at the
owner's add, so the admin's add is newer than the record: the next pass renews the grant by
it, and if an operator revokes the grant before that, the pass gives it back unless the
provisioner takes the bot out first. The comment at `channel-grants.ts:155` says that such an
add "must never become" a grant.

### Connector

`sync`, `watcher` and `puller` are the three loops of one process between their calls, and
`connector` is what they share. History ids also serve as time. A page of history, the reading of its
messages and the commit with the cursor are separate steps; a full sync replaces history that
Gmail forgot, bounded by `MaxListed`. `MailIsNotLost` excuses what the code gives up with an
alert: a message that cannot be normalised, and after a full sync what the listing cannot
find (archived mail, mail moved back whose receipt is older, and what lies beyond the limit).

### Configuration and Permissions

`journal` are the revisions with their snapshots, `row` the projection that is enforced,
`live` the catalog entries. `page[e]` is what an editor read and is about to submit; reading,
submitting, losing the answer and submitting again are separate steps, and `shown[k]` is the
answer the caller got. `Permissions` compiles attachments: a `run` (tests.run) implies `write`
(workspace.write) unless something says otherwise. An older release applies without
attachments, and `EnforcedAsRecorded` is claimed again once the current one has reconciled.

Exceptions that the model shows and the properties name: confirming a widening of `write`
also frees `run`, which waited for it and is not on the list that was shown (`Unlocked`); a
revision of a release before the tool hub carries no attachments. Rules about whole
organisations (roles, finance), secrets, the diff shown to people, the deterministic key of
an import and its duplicates in flight are left out; the lifecycle is ready or retired; that
an agent must be paused to be disabled belongs to `AgentRuns`.

### Execution

The worker (`host`: probe, subscription, version), the queue's `job`s, `turn` (what
`processRunJob` and `executeTurn` do) and `call` (the adapter's call and its process), which
goes on when the turn gave up. The six adapters differ in what tools they can confine, whether
they keep sessions, what a probe tells and what an interrupted process leaves; each has its
operators and the run explores all. `transcripts` are the provider's sessions with what they
hold, `held` the session the Gateway would resume, `access` how often an agent's grants
changed.

Abstractions: prompts, arguments and answers are a result out of a set; the session policy is
"resumable-if-available"; the mock adapter is left out. Known and accepted by the code: a
worker that dies leaves its CLI running (a process in a group of its own), a descendant that
leaves the group survives, a session that Grok starts instead of resuming and the first
session of a repaired turn are not removed.

### Deployment

`gatewayDb` is the history of migrations, the queue schema and the certificates. A program
claims the shared deployment lock, checks its schema and runs; a migration takes the lock
exclusively and checks, migrates, upgrades the queues and certifies in steps, each of which
may be the last. The dump's snapshot lies between two readings of the version. A restore test
probes its scratch database before it empties it, and `reach` says which database its URLs
really reach.

`RunsOnItsSchema` is about programs that hold their lock: a lock connection that is lost is
noticed by a ping within 25 seconds, and until then a migration may start under a running
service, against the comment at `deployment-lock.ts:4`. Assumed away: the migration losing
its own lock connection, and a COMMIT of a dead migration that arrives late. Not modelled:
database roles, two backups in one second (they share a name), commands that hold the lock
without a check (kill-all, `backup check --record`).

### RuntimeHealth and Alerts

Times are ages, counted up to where they stop to matter. `RuntimeHealth` has workers, their
heartbeats in a queue that reorders them, the rows and the settled availability; `outageAge`,
`agreedAge` and `idled` are history. `LastingChangesOnly` exempts an adapter whose last agent
was disabled while a change was pending: `pending_since` is not cleared then, and a
re-enabled adapter may alert at once, against the comment at `runtime-health.ts:167`. A probe
is shorter than a heartbeat interval, and sweeps succeed.

`Alerts` has the listener and the controller's view of it, retention and the backup check,
the newest revision, and one row that stands for the conditions that are read off other
tables (dead letters, dead outbox items, budgets, invalid output, the Gmail watch). What a
retention pass deletes is left out: it ends, fails or is stopped.

## Runs

| Run | Shows | Instance |
|---|---|---|
| `attempts` | `PublishedOnce`: a run publishes once, from its last attempt; `LostMeansSilent`: the three reads of reconciliation never declare an attempt lost whose report waits | 1 run, 2 attempts, crashes, lost jobs and timers, redelivery, pause |
| `lifecycle` | `RunMatchesState`: busy exactly while a run is in progress; `WorkIsNotLost`: no entry of the inbox disappears undone | 2 runs, every operator command, deletion, grants |
| `waits` | `WaitingCanResume`, `OneResumption`, `MissedAnswersAreSeen` | 2 posts, 2 sibling conditions and an approval, deletion, pause, disable, kill-all, quota |
| `live` | `EveryRunEnds`, `WorkIsTaken` | 2 runs, crashes, lost jobs, timers and reports, quota and unresolved channels |
| `redrive` | violated: `FailedCanBeRedriven`, see [findings](#findings) | 2 runs, redrive, deletion |
| `outbox` | `RetiredNeverPosts`; `KeepsPromise`, the refinement of `OutboxPromise` with its fairness (one effect, every item settles) | 3 deliveries, 3 attempts, 2 redrives, crashes and lost jobs, retirement |
| `provisioning` | `RetiredHasNoAccess`, `ReadyIsMember`, `EveryOperationEnds` | 2 channels, one not yet published, 2 teams, 3 requested operations, 2 edits, 1 fault |
| `provisioning_drift` | violated: `DriftIsCaught`, see [findings](#findings) | 1 channel, 2 edits |
| `conversations` | `EffectsAreApproved` (approvals); `NothingSkipped`, `UnmanagedIsPrivate` (listener); `GrantsAreGiven` (membership); `MailIsNotLost`, `AckedIsSynced`, `NoForeignMail` (connector); `EnforcedAsRecorded`, `AccessGrowsOnlyByGrant`, `AnswersAreTrue`, `NoUnseenOverwrite` (configuration) | see below |
| `progress` | `EveryRequestEnds`, `CardHasLastWord` (approvals); `EveryPostIsHandled` (listener); `NobodyLingers` (membership); `MailArrives` (connector) | as `conversations`, smaller |
| `operations` | `NothingRunsOn`, `ToolsWithinPolicy`, `TranscriptsStayInScope` (execution); `RunsOnItsSchema`, `ManifestsAreTrue`, `LiveIsNeverEmptied` (deployment); `OutageIsSettled`, `LastingChangesOnly` (runtime health); `FlappingIsOneOutage`, `LastingTroubleFires` (alerts) | see below |
| `retention_alert` | violated: `NeverSucceededFires`, see [findings](#findings) | the retention scene alone |

The type invariants of the modules with theorems are proved; those of the other modules were
checked on these instances while the modules were written and are not repeated by the runs.

`LostMeansSilent` assumes that no report is dead-lettered: a worker that outlives its expired
job and whose started report was dead-lettered can report just after reconciliation looked,
and its attempt is declared lost. The stale result is then refused (`PublishedOnce`); dead
letters are part of `live`. `MissedAnswersAreSeen` is not claimed together with late grants: while the kill switch or
a lifecycle hold stops the scheduler, an answer that a grant brings waits for the next wake-up.

Why the bounds are enough. In `AgentRuns`, a stale report or timer needs a second attempt and
a second run is what a redrive or a resumption starts; a third only repeats these. The races
of `waits` are inside one run; with two runs and deletions alone the same properties hold,
in a run too long to keep. Three deliveries of the outbox are the old claim, the newest, and
the one after a redrive. Requests for approval of one agent meet only in kill-all, configuration
changes and retirement, which treat each alike, so one request with two runners has every
race. Three requested operations of `Provisioning` are the create, the retire that supersedes
it and a restore or retry after that; two edits are the change that is taken back; one fault
separates two calls that belong together.

In `conversations` the listener has a thread of two posts (an agent's and a reply, or a card
and a command: a child's root and the order of the two are what its rules depend on), a clock
one past the margin, two configuration generations (leave and return) and one fault;
membership has three changes (added, removed, added again), two edits and one fault; the
connector has three messages, one of them another account's and one unreadable, pages of one
record, a full sync limited to one message and two upsets, so that a crash or reset can follow
lost history; configuration has two editors, two requests of every kind, and one lost answer,
older release or retirement. `progress` keeps one fault and drops what only repeats: one
runner, two messages, one generation.
In `operations`, execution has two jobs (the same agent and conversation; two conversations;
two agents with different policies), any adapter, two changes of access and one failure;
deployment has three releases, a development build that left them, an expanding and a breaking
migration, two accidents and one archive; runtime health two workers and two delayed
heartbeats; alerts three lost connections. Their times (`Stale`, `Stable`, `Threshold` and so
on) keep the order of the code's constants.

Every bound is a constant and is named: `MaxRuns`, `MaxRedrives`, `MaxJobs`, `MaxOps`,
`MaxEdits`, `MaxFaults`, `MaxTime`, `MaxGen`, `MaxChanges`, `MaxMembershipFaults`, `MaxMail`,
`MaxUpsets`, `MaxRequests`, `MaxOthers`, `MaxAccess`, `MaxFailures`, `MaxAccidents`,
`MaxArchives`, `MaxBacklog`, `MaxChecks`, `MaxDrops`. `MaxOps` bounds requests only, so the
reprovision that `completeOperation` queues is never cut off. Editors, and worker processes of
`RuntimeHealth`, are interchangeable; the runs with symmetry check no liveness.

Deadlock is checked for the runs of `AgentRuns`. The others may stop: a settled item, a
resolved request, an agent without an operation and a channel without a bot are at rest, and
the bounded environments of the scenes run out. That they stop nowhere else is what the
liveness properties say.

## Fairness

No fault, human or operator is fair.

* `AgentRuns`: a worker of the adapter is up and a started job ends; queues deliver what
  they hold; deadlines pass; the reconcile and schedule sweeps repeat (the controller runs
  them on an interval). The wait timeout is strongly fair: reconciliation sends a lost
  timeout job again on each pass, and the queue does not lose every one of them.
* `Outbox`: a started delivery goes on or its process dies; leases and backoffs end; the
  reconciliation pass repeats. A claim is strongly fair: jobs may be lost, but not every
  job of every pass.
* `Approvals`: clocks, and the sweep the controller repeats every minute. Nothing is asked
  of queues, runners, cards or wait timers, because the sweep is meant to replace them all.
* `Provisioning`: the controller's three-second timer starts a pass while there is work and
  a pass goes on unless its process dies, and `mattermost bootstrap` is run after the team or
  its channels changed: the code waits for it (`loadTeamChannels` knows no channel until
  then), so without it an operation waits for its team for ever. Faults are bounded by `MaxFaults`: an operation whose every
  pass fails in transit does not end.
* `Listener`: the chain goes on (a task that fails ends), the socket reconnects, the resync
  timer fires, and a delivery that is under way settles (which is `OutboxPromise`'s fairness). Frames, connections and calls are lost at most `MaxFaults` times.
* `Membership`: a pass is started every five seconds and goes on; a grace ends.
* `Connector`: the three loops go on, and a supervisor starts the process again.
* `Configuration`, `Execution`, `Deployment`, `RuntimeHealth` and `Alerts` claim no liveness.
  Where something must happen in time (`OutageIsSettled`, `LastingTroubleFires`), time passes
  only as far as the sweep's interval allows, so lateness is a state and the claim an invariant.

## Proofs

Every theorem holds for every value of the constants, under the `ASSUME`s of the modules and
the hypotheses named below. Each comes from an inductive invariant: Init implies it, every step
keeps it, it implies the property. The properties are seldom inductive themselves; what has to
be added is the content of the proof, and is said here. The invariants were model-checked
before they were proved.

`AgentRunsProofs`

* `TypeCorrect`: `TypeOK`, of which "no run has more attempts than the limit" is part. One
  lemma says what a call of the scheduler comes to (`ScheduleCases`); the others are per
  group of actions.
* `BusyMeansRunning`: `RunMatchesState`. It is inductive together with `TypeOK`. Every use
  case either ends the run in progress and moves the agent in the same transaction
  (`RunEnds`), or calls the scheduler on an agent that is free, which starts the only run.
* `PublishesOnce`: from `RunsInv` and a lemma that says what any step does to the row of a
  run (`RowStep`): nothing, or it is inserted, retried, started or ended, and a row that is
  over never changes. A report can then only publish the current attempt of the run in
  progress.
* `LostIsSilent`: from `LostInv`. Reconciliation reads the run, its job and its reports one
  after the other. What makes the three reads add up is that a worker which took a queued
  attempt has its started report in the queue as long as the attempt is queued
  (`StartsAreTold`), and that what has been read stays true while the attempt that was listed
  is still the queued one (`ProbeIsTrue`). Hypothesis: no report is dead-lettered. With a
  started report lost for good, a worker nobody knows of may report after the reads.
* `NoWorkIsLost`: the action property `WorkIsNotLost`; a claimed entry is of the run in
  progress, and each way a run ends either publishes or returns its entries.
* `WaitersCanResume`, `ResumesOnce`: from `ResumeInv`. Only a run that succeeded has waits,
  the first resolution of a run's waits leaves none active, and an entry that resolved a wait
  waits for a run or is the trigger of the one that took it (`Records`); the waits of one run
  are active or one such entry is pending, never both (`OneOpen`); and while something is open
  the agent is free and its latest run did not fail (`OpenMeansFree`), which is why no second
  run can open waits beside it.
* `NoAnswerIsMissed`: from `SeenInv`. A busy agent is not under the kill switch (`KillHolds`),
  so the end of its run is followed by a scan; nothing is missed while the agent waits, nor
  while it is paused unless a grant routed a stored post to it meanwhile (`Seen`). Hypotheses:
  no "lifecycle" or "unresolved" hold, which stop the scheduler before its scan, and not both
  a kill switch and grants (see the findings).

`OutboxProofs`

* `TypeCorrect`, `ClaimsAreUnique`, `LateSettlesNothing`: from the inductive invariant
  `Fenced`. Attempts grow with every claim and a redrive raises the limit instead of
  resetting them, so no live delivery ever holds a number above `attempts` or one another
  holds; a pending item always has an attempt left.
* `HappensOnce` and `Implements` (every behaviour is one of `OutboxPromise`'s safety part),
  under `Prompt`: from `Single`. A prompt delivery is the newest claim and under its lease;
  one that is about to create has seen that there is no post, and any claim after the first
  post is a retry, which looks first.
* `RetireOvertakesPosts`: the action property `RetiredNeverPosts`.

`AccessProofs`, of `Approvals`

* `TypeCorrect`, `HoldsHold` (`HoldsStopActions` is inductive: whoever sets a hold withdraws
  in the same transaction), `ToldTruth` (outcomes are final, except "unknown"),
  `ToldOnlyOnce`.
* `ApprovedOnce` and `TrueRecord`: from the inductive invariant `Truth`. Neither is inductive
  alone: that an action takes effect once needs that begin admits one runner
  (`OneWorker`), that what a report in the queue says is true and that its runner is done
  (`ReportsAreTrue`); that the record is true needs all of these, because the record is
  written from reports and from deadlines (`StatusIsTrue`).

`AccessProofs`, of `Configuration`

* `ConfigTypeCorrect`, `EnforcedIsRecorded`, `AccessIsGranted`, `RefusalsAreTrue` and
  `EditsAreSeen`: from `ConfigInv`. The projection agrees with the newest revision, except for
  what an older release leaves alone (`Agrees`); each revision of the journal adds only what
  was granted to what the one before it allowed (`SoundJournal`); what a page shows was read
  from the revision it is based on (`ReadFrom`); a key belongs to one page without an answer,
  and one that was refused is in no revision (`KeysFit`). The last is what makes a
  resubmission after a lost answer harmless.

`ProvisioningProofs`

* `TypeCorrect`, `OneLive`, `SettledFinal`: from the inductive invariant `Journal`.
  `OneLiveOperation` is not inductive alone: that `QueueReprovision` and `Retry` need not
  cancel anything else follows from how the status goes with the state of the current
  operation (`StatusFollows`), and that a pass writes only to what is live needs that an
  operation is settled by its own pass or superseded, nothing else (`PassIsLive`).
* `RetiredIsPowerless`: from `Access`, on top of `Journal`. A superseded
  pass may still make an account or a token, but only while the retire has recorded nothing
  (`Retiring`, since passes exclude each other); from then on the retire's checkpoints say
  truly what is gone, each after the one before it (`RetireDone`), and nothing runs once the
  agent is retired (`AtRest`). `PassKind` keeps the two sorts of pass apart.
  That an account which no identity names is still found needs `NoBotYet`.
* `StrangerIsSafe`: the action property `StrangerUntouched`, from the same invariants: steps
  past the bot checkpoint imply that the account is the agent's own.
* `ReadyMeansMember`: `ReadyIsMember`, from `Settling` on top of both. While a pass is under
  way the agent is not settled: a superseded pass ends before the operation that superseded
  it is claimed (`PassFollows`). A reprovision that was not superseded works on the
  configuration as it is, because any edit would have superseded it (`ReadIsCurrent`); step by
  step the bot is then in no other team (`InTeam`), in what was joined or found joined
  (`Joining`), and is taken out of nothing that is configured (`Trimming`). A create or
  restore is not superseded by edits, so of it only what its checkpoints say is kept, and the
  fence of `completeOperation` compares them; that leaves the exception of the property, which
  is the finding `provisioning_drift`.

`ExecutionProofs`

* `ExecutionTypeCorrect`, `ReportedTurnsAreOver`, `ToolsAreGranted`, `ResumedIsOwn`: from
  `ExecutionInv`. A job, its turn and the adapter's call are never further apart than
  `AllInStep` says; a turn that is over may have a call that has not begun its process only if
  the call is aborted. Kiro's definitions each give the tools they are named for, and a call
  about to start finds its own (`ToolsAsWanted`): the names tell the tools apart, which is why
  turns that share a home do not meet. A transcript holds what the job that began it was about
  (`TranscriptsHoldOne`), jobs are offered and turns leave sessions begun by a job like them
  (`JobsInScope`), and the session held for an agent was begun under the grants it has now
  (`HeldInScope`).

`MattermostProofs`

* `MembershipTypeCorrect`, `GrantsAreOnlyGiven`: from `MembershipInv`. The add a pass judges by
  is on record (`JudgesAdds`), no record is newer than the newest change (`RecordsArePast`),
  and an add made for the configuration leaves, once the channel is taken out of it, a row
  dated after the add (`TombstonesCover`), so an old pass cannot take bootstrap's add for an
  owner's.
* `ListenerTypeCorrect`, `UnmanagedStaysPrivate`: from `ListenerInv`: the chain is at the head
  of its queue with frames that are true and handled within the margin (`ChainInStep`), a scan
  knows the generation it was made in (`ChannelInStep`), and what was posted outside the
  channel's time lies before its start, also before one that a scan is about to install
  (`PrivateInStep`).
* `NoPostIsSkipped`: `NothingSkipped`, from `CatchUpInv`. For each post nobody has dealt with,
  the cursor is behind it, and neither the task the chain is at nor any frame that waits or is
  still to come passes it by before a sync reads it (`NoneLeftBehind`); the start a scan found
  may be installed (`ScanIsCurrent`); a frame moves the cursor only after its post was dealt
  with (`SavedIsRecorded`). Hypothesis: the first query of a sync does not fail (the fault
  "directory", `listener.ts:531`).

`ConnectorProofs`

* `ConnectorTypeCorrect`, `NoMailIsLost`, `RequestsAreMet`, `MailIsOwn`: from `ConnectorInv`.
  Nothing is known of a history id before Gmail has given it out (`NothingAhead`); a loop works
  for the account it has identified and so for the row's (`SignedIn`); a reading is not older
  than the overlap when it is committed, so that a full sync never starts after the cursor
  (`WithinOverlap`); pages follow one another (`PagesFollow`); what a sync has read, or may
  leave out, is everything up to where it will move the cursor (`SyncCovers`); and what was
  acknowledged is behind the cursor, or behind where the sync under way will move it, or
  another sync is to come (`AckedIsAsked`).

`OperationsProofs`

* `DeploymentTypeCorrect`, `ServicesRunOnTheirSchema`, `ManifestsDescribe`, `LiveIsSafe`: from
  `DeploymentInv`. What certificates and archives say is so (`StoredIsSound`), a migration runs
  alone (`LockExcludes`) and continues the history it checked (`MigrationContinues`), what a
  dump has read is a past of what the database has now (`DumpIsPast`), and only a scratch
  database that was proven distinct is reset (`ScratchIsDistinct`).
* `HealthTypeCorrect`, `OutagesAreSettled`, `OnlyLastingChanges`: from `HealthInv`. What says
  "ready" is at least as old as the outage or too old to count (`ReadyIsOld`); once a sweep has
  met the outage it is pending for as long as it lasts beyond that, or settled
  (`OutageAdvances`); a pending change has lasted (`PendingLasts`).
* `AlertsTypeCorrect`, `TroubleIsAlerted`, `FlappingIsNotResolved`: from `AlertsInv`. What the
  controller remembers of a connection that has not been lost since is true (`ViewIsSteady`),
  and a sweep that meets trouble that has lasted alerts it, for each thing an alert is computed
  from (`OutageIsSeen`, `OldSuccessIsSeen`, `HeldIsSeen`).

Where the code picks the first or the last of several (the newest membership record, the next
page of history, the last revision that configures the agent), the proofs use that a nonempty
set of naturals has a least element (`WFMin` and `NatLessThanWellFounded` of the library).

`TokensDiffer`, `NewestClaimSettles`, `HoldsStopActions`, `RecordIsTrue`, `ToldIsTrue`,
`ToldOnce`, `OneLiveOperation`, `SettledIsFinal` and `StrangerUntouched` are established by
their theorems alone, for every instance and every set of faults; no run repeats them. The
takeover of an item by a second delivery while the first is slow is among these.

Only model-checked: liveness and fairness (`EveryRunEnds`, `WorkIsTaken`, the fairness part of
`OutboxPromise` in `KeepsPromise`, `EveryRequestEnds`, `CardHasLastWord`, `EveryOperationEnds`,
`EveryPostIsHandled`, `NobodyLingers`, `MailArrives`) and `ENABLED` (`FailedCanBeRedriven`),
which are beyond the prover. Every other property of a passing run is stated by a theorem. The
hypotheses of a theorem are those under which the run has the property too: the runs leave
"dead_letter", "directory" and the two holds out of the instances that check these properties.

## Findings

`redrive`: the documentation says that `runs redrive` is the way out of FAILED
(`docs/operations/local-development.md:192`, `docs/operations/observability.md:192`). If the
post that triggered the failed run was deleted, or its channel was taken away, the redrive
returns the entry to the inbox, the scheduler it calls retires the entry at once
(`context-store.ts`, `retireInbox`), nothing is pending, and the command throws and rolls
back, every time. Disabling and enabling restores FAILED.

`provisioning_drift`: the comment on `convergeMembership` (`agent-provisioner.ts:468`) says
that any drift a pass does not observe "is still caught by `completeOperation`'s own fence".
While a create or restore runs, one edit takes a channel away and a second one gives it back;
in between, the trim loop, which reads what is allowed anew for each channel, takes the bot
out of a channel already checkpointed as joined. The fence compares the checkpointed ids with
the configured ones (`agent-lifecycle.ts:1439`) and finds them equal, and neither edit queued a
reprovision because the agent was not ready. The agent is ready, outside a channel it is
configured for, until something else reprovisions it. `ReadyIsMember`, which holds, says that
this is the only case.

`retention_alert`: `alerts.ts:355` says that a task that never succeeded "counts from its first
run", and `docs/operations/observability.md:138` that the alert means "retention has not
succeeded for 3 hours". The condition counts from `last_run_at` (`alerts.ts:357`), which
`retention.ts:253` sets at every hourly claim. A retention that has failed at every run since
the first never raises its alert.

Behaviours the models show that no document contradicts outright, and that no run claims to be
absent:

* `listener.ts:531`: a sync whose first query (the directory) fails marks no channel as failing
  and schedules no new sync; what it should have read waits for the next gap, reconnect or
  failure. With the fault "directory", `EveryPostIsHandled` fails.
* `approval-store.ts:139` and `agent-lifecycle.ts:582`: a retirement that cancels the outbox item
  of a card already posted leaves a card without receipt; a command under it is retried for
  ever. With the fault "retire_asker", `EveryPostIsHandled` fails.
* `listener.ts:511`: posts of one sync are ingested roots first, but a reply that arrived live is
  ingested before a root whose frame was lost.
* `connector.ts:161`: after a refused account, `gmail reset` alone is not enough: the connector
  has to be restarted. A reset while the old process still runs lets it create the cursor again
  for the old account.
* `admin.ts:1787`: `resumeAgent` does not look at the kill switch, and the scheduler it calls
  returns early under it (`scheduler.ts:299`). An agent that was waiting, is paused, gets a stored
  post by a grant, and is resumed under the kill switch waits for an answer that is already in its
  inbox, until the scheduler is next called for it. With both "grant" and "kill" in `Activities`,
  `MissedAnswersAreSeen` fails; the proof of `NoAnswerIsMissed` found it.

## What is not modelled

* Contents: prompts, results, artifacts, memory, rendering, parsing, schemas. The run
  protocol sees a result, a failure or silence.
* Which agents an event is routed to, the loop guards, budgets and quotas: nondeterministic
  inputs of `AgentRuns` for now.
* Lock order and database deadlocks: transactions are atomic here.
* What each statement of retention deletes, console sessions, metrics and status pages,
  direct messages, pinned catalog versions and custom tools' definitions.
* The CLI's parsing and the browser application's presentation.
* Heartbeats that claim another adapter, and anything else a process could only send by
  not being the program in this repository.

## Plan

Done: all modules of the table above, and a theorem for every safety property of their runs.

Next, in this order:

1. The safety part of an abstract work list that `AgentRuns` implements (an event is taken,
   returned or done), on the invariants proved of it.
2. What the theorems' hypotheses leave out, stated as weaker properties that hold without them:
   what a dead-lettered started report can lead to, and how long an answer can stay unseen under
   the kill switch.
3. Budgets: reservations, settlement and holds, as the "budget" hold of `AgentRuns`.
4. Routing and loop guards as operators over bounded inputs, against a reference definition.
5. The lock order of all use cases (correlation, controls, agents by id, rows): no cycle.
6. The composition of `Approvals` with the waits of `AgentRuns`.
7. Console sessions, and what retention may delete while a wait, a redrive or an outbox item
   still needs it.
