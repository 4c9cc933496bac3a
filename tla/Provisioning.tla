---------------------------- MODULE Provisioning ----------------------------
(***************************************************************************)
(* The lifecycle of one agent: the requests that create, retire, restore,  *)
(* retry and reconfigure it (services/agent-lifecycle.ts, management.ts),  *)
(* each one transaction under the agent's agent_lifecycle row lock, and    *)
(* the provisioner (apps/controller, agent-provisioner.ts) that carries    *)
(* the journalled operations out in Mattermost, one call at a time.        *)
(*                                                                         *)
(* A pass of the provisioner holds an advisory lock, so there is one at a  *)
(* time; requests commit between any two of its steps.  It learns that its *)
(* operation was superseded only at its next checkpoint, after the call to *)
(* Mattermost was made.                                                    *)
(***************************************************************************)
EXTENDS Naturals, Sequences, FiniteSets

CONSTANTS
    Names,        \* channel names of the organization
    Teams,        \* Mattermost teams
    Published,    \* the channels bootstrap has published at first
    Wanted,       \* bound: the allowed_channels explored
    MaxOps,       \* bound: operations in the journal
    MaxEdits,     \* bound: configuration, grant and bootstrap changes explored
    MaxFaults     \* bound: failed Mattermost calls and crashes explored

ASSUME ProvisioningAssumption ==
    /\ Teams # {} /\ Published \subseteq Names /\ Wanted \subseteq SUBSET Names
    /\ MaxOps \in Nat \ {0} /\ MaxEdits \in Nat /\ MaxFaults \in Nat

VARIABLES
    status,      \* agent_lifecycle.status, "none" before there is a row
    current,     \* agent_lifecycle.operation_id (generation moves with it)
    ops,         \* agent_lifecycle_operations, oldest first
    config,      \* the agent's row, whether it is in the active bundle, and the team
    directory,   \* the team and channels `mattermost bootstrap` published last
    identity,    \* mattermost_identities.mattermost_user_id is set
    grants,      \* active rows of mattermost_channel_grants
    bot,         \* the account at the agent's username
    tokens,      \* that account's live tokens: the one in the file, one lost before
    file,        \* the agent's token file holds a token
    botTeams,    \* teams the bot is in
    members,     \* channels the bot is in
    pass,        \* the provisioner's pass and what it has read
    trimmed,     \* history: channels this pass took the bot out of
    edits, faults

row == <<status, current, ops>>
mattermost == <<bot, tokens, file, botTeams, members>>
bounds == <<edits, faults>>
vars == <<row, config, directory, identity, grants, mattermost, pass, trimmed, bounds>>

Channels == Teams \X Names
Kinds == {"adopt", "create", "restore", "reprovision", "retire"}
OpStates == {"pending", "running", "succeeded", "failed", "cancelled"}
Statuses == {"none", "pending", "reconciling", "ready", "failed", "retiring", "retired"}

\* checkpoints: what an operation has recorded of the steps it completed.
NoCheckpoints ==
    [bot |-> FALSE, token |-> FALSE, team |-> {}, joined |-> {},
     revoked |-> FALSE, disabled |-> FALSE, left |-> {}, deleted |-> FALSE]
Checkpoints ==
    [bot: BOOLEAN, token: BOOLEAN, team: SUBSET Teams, joined: SUBSET Channels,
     revoked: BOOLEAN, disabled: BOOLEAN, left: SUBSET Channels, deleted: BOOLEAN]
Operations == [kind: Kinds, state: OpStates, done: Checkpoints]

\* The steps of a pass; "save" writes a checkpoint and goes on to the step after it.
Saves == {"bot", "token", "team", "joined", "revoked", "disabled", "left", "deleted"}
Steps == {"idle", "claim", "load", "bot", "identity", "token", "issue", "write", "team",
          "others", "list", "join", "trim", "remove", "recover", "revoke", "disable",
          "channels", "leave", "delete", "complete", "reject", "save"}
NoPass == [at |-> "idle", op |-> 0, team |-> {}, names |-> {}, known |-> {},
           teams |-> {}, listed |-> {}, todo |-> {}, chan |-> {}, save |-> "bot"]
Passes ==
    [at: Steps, op: Nat, team: SUBSET Teams, names: SUBSET Names, known: SUBSET Names,
     teams: SUBSET Teams, listed: SUBSET Channels, todo: SUBSET Channels,
     chan: SUBSET Channels, save: Saves]

TypeOK ==
    /\ status \in Statuses
    /\ ops \in Seq(Operations)
    /\ current \in 0..Len(ops)
    /\ config \in [active: BOOLEAN, allowed: SUBSET Names, team: Teams]
    /\ directory \in [team: Teams, names: SUBSET Names]
    /\ identity \in BOOLEAN
    /\ grants \subseteq Channels
    /\ bot \in {"absent", "stranger", "enabled", "disabled"}
    /\ tokens \subseteq {"filed", "loose"} /\ file \in BOOLEAN
    /\ botTeams \subseteq Teams /\ members \subseteq Channels
    /\ pass \in Passes /\ pass.op <= Len(ops)
    /\ trimmed \subseteq Channels
    /\ edits \in 0..MaxEdits /\ faults \in 0..MaxFaults

-----------------------------------------------------------------------------
(* What the control plane reads. *)

\* isTerminalOperationState, the other way round.
IsLive(op) == op.state \in {"pending", "running"}

\* lifecycleOwnedAgentIds: created or restored through the lifecycle.
Owned == \E i \in DOMAIN ops : ops[i].kind \in {"create", "restore"}

\* loadTeamChannels: until bootstrap published the configured team, no name is known.
Resolved == directory.team = config.team
KnownNames == IF Resolved THEN directory.names ELSE {}

ConfiguredIds == {config.team} \X (config.allowed \cap KnownNames)

\* loadAgentAllowedChannelIds: configured, or granted in the configured team.
AllowedIds ==
    ConfiguredIds \cup
        (IF Resolved /\ config.active /\ identity
           THEN {c \in grants : c[1] = config.team} ELSE {})

\* tokenOwner of the stored token is the bot.
FileWorks == file /\ "filed" \in tokens /\ bot = "enabled"

\* ensureBotToken keeps the stored token.
KeepsToken == FileWorks

\* ensureBot refuses a bot the Gateway did not create.
Taken == bot = "stranger"

\* Mutant: only the recorded identity is looked at.
RecoveredByIdentity == identity
\* recoverRetiringBotUserId: a bot nothing recorded is found by a superseded operation's
\* checkpoint, or by its username when the Gateway created it.
Recovered ==
    \/ identity
    \/ \E i \in DOMAIN ops : ops[i].kind \in {"create", "restore"} /\ ops[i].done.bot
    \/ bot \in {"enabled", "disabled"}

\* lockCurrentOperation refuses an operation its agent is no longer pursuing.
Stale == pass.op # current

\* checkpointOperation is refused for an operation superseded or not running.
MayRecord == ~Stale /\ ops[pass.op].state = "running"

-----------------------------------------------------------------------------
(* Requests: each one transaction. *)

\* Bounds what is requested, never what the provisioner queues itself.
Room == Len(ops) < MaxOps

NewOp(kind, done) == [kind |-> kind, state |-> "pending", done |-> done]

\* cancelNonterminalOperations: superseded, their checkpoints kept.
Cancelled(journal) ==
    [i \in DOMAIN journal |->
        IF IsLive(journal[i]) THEN [journal[i] EXCEPT !.state = "cancelled"]
        ELSE journal[i]]

\* Appends an operation and makes it the one the agent pursues.
Pursue(journal, op) ==
    /\ ops' = Append(journal, op)
    /\ current' = Len(journal) + 1

\* Mutant: a running reprovision is taken for one that will read the change.
ReprovisionLive == ops[current].kind = "reprovision" /\ IsLive(ops[current])
\* A pending reprovision reads whatever is committed before it is claimed.
AlreadyQueued == ops[current].kind = "reprovision" /\ ops[current].state = "pending"

\* queueMembershipReprovisioning: a running one is cancelled and replaced.
QueueReprovision(concerned) ==
    IF ~(concerned /\ status = "ready" /\ Owned) \/ AlreadyQueued
      THEN UNCHANGED row
      ELSE /\ Pursue(IF ops[current].kind = "reprovision" /\ ops[current].state = "running"
                       THEN [ops EXCEPT ![current].state = "cancelled"] ELSE ops,
                     NewOp("reprovision", NoCheckpoints))
           /\ UNCHANGED status

\* requestAgentCreate: agent ids are never reused.
Create(allowed) ==
    /\ Room /\ status = "none"
    /\ Pursue(ops, NewOp("create", NoCheckpoints))
    /\ status' = "pending"
    /\ config' = [config EXCEPT !.active = TRUE, !.allowed = allowed]
    /\ UNCHANGED <<directory, identity, grants, mattermost, pass, trimmed, bounds>>

\* requestAgentRetire: out of the configuration, grants revoked, live operations superseded.
Retire ==
    /\ Room /\ status \in {"pending", "reconciling", "ready", "failed"}
    /\ Pursue(Cancelled(ops), NewOp("retire", NoCheckpoints))
    /\ status' = "retiring"
    /\ config' = [config EXCEPT !.active = FALSE]
    /\ grants' = {}
    /\ UNCHANGED <<directory, identity, mattermost, pass, trimmed, bounds>>

\* requestAgentRestore: back as last configured; the token file moves to the provisioner's
\* own directory, where an adopted agent has none.
Restore ==
    /\ Room /\ status = "retired"
    /\ Pursue(Cancelled(ops), NewOp("restore", NoCheckpoints))
    /\ status' = "pending"
    /\ config' = [config EXCEPT !.active = TRUE]
    /\ file' = (file /\ Owned)
    /\ UNCHANGED <<directory, identity, grants, bot, tokens, botTeams, members, pass,
                   trimmed, bounds>>

\* requestOperationRetry: the failed operation again, from its checkpoints.
Retry ==
    /\ Room /\ current # 0 /\ ops[current].state = "failed"
    /\ CASE status = "retiring" -> ops[current].kind = "retire"
         [] status = "ready" -> ops[current].kind = "reprovision"
         [] OTHER -> status = "failed"
    /\ Pursue(ops, [ops[current] EXCEPT !.state = "pending"])
    /\ status' = IF status = "failed" THEN "pending" ELSE status
    /\ UNCHANGED <<config, directory, identity, grants, mattermost, pass, trimmed, bounds>>

Edit == Room /\ edits < MaxEdits /\ edits' = edits + 1 /\ UNCHANGED faults

\* commitChangeIn with another allowed_channels for the agent.
EditChannels(allowed) ==
    /\ Edit /\ config.active /\ allowed # config.allowed
    /\ config' = [config EXCEPT !.allowed = allowed]
    /\ QueueReprovision(TRUE)
    /\ UNCHANGED <<directory, identity, grants, mattermost, pass, trimmed>>

\* commitChangeIn with another organization.mattermost.team: it concerns every agent, and
\* grants in the old team's channels end.
ChangeTeam(t) ==
    /\ Edit /\ t # config.team
    /\ config' = [config EXCEPT !.team = t] /\ grants' = {}
    /\ QueueReprovision(config.active)
    /\ UNCHANGED <<directory, identity, mattermost, pass, trimmed>>

\* publishTeam: bootstrap records the configured team and its channels.
PublishTeam ==
    /\ directory # [team |-> config.team, names |-> Names]
    /\ directory' = [team |-> config.team, names |-> Names]
    /\ UNCHANGED <<row, config, identity, grants, mattermost, pass, trimmed, bounds>>

\* An owner adds the bot to a channel and grantChannel records it.
GrantChannel(c) ==
    /\ Edit /\ Resolved /\ config.active /\ identity /\ bot = "enabled"
    /\ c[1] = config.team /\ c[1] \in botTeams /\ c \notin ConfiguredIds \cup grants
    /\ grants' = grants \cup {c} /\ members' = members \cup {c}
    /\ UNCHANGED <<row, config, directory, identity, bot, tokens, file, botTeams, pass, trimmed>>

\* revokeChannelGrant: an operator ends a grant; the bot leaves with a reprovision.
RevokeGrant(c) ==
    /\ Edit /\ c \in grants
    /\ grants' = grants \ {c}
    /\ QueueReprovision(TRUE)
    /\ UNCHANGED <<config, directory, identity, mattermost, pass, trimmed>>

\* A person renames the account that had the agent's username.
RenameStranger ==
    /\ bot = "stranger" /\ bot' = "absent"
    /\ UNCHANGED <<row, config, directory, identity, grants, tokens, file, botTeams,
                   members, pass, trimmed, bounds>>

-----------------------------------------------------------------------------
(* The provisioner: a pass takes an operation and runs it step by step. *)

Goto(step) == pass' = [pass EXCEPT !.at = step]
SaveNext(what) == pass' = [pass EXCEPT !.at = "save", !.save = what]
EndPass == pass' = NoPass

Op == ops[pass.op]
control == <<row, config, directory, identity, grants, trimmed, bounds>>

\* Mutant: operations a dead controller left running are not resumed.
ListedPending(op) == op.state = "pending"
\* listRunningLifecycleOperations and listPendingLifecycleOperations.
Listed(op) == IsLive(op)

\* runLockedProvisionerPass: a running operation is resumed, a pending one claimed.
PassList ==
    /\ pass.at = "idle"
    /\ \E i \in DOMAIN ops :
         /\ Listed(ops[i])
         /\ pass' = [NoPass EXCEPT
               !.op = i,
               !.at = CASE ops[i].state = "pending" -> "claim"
                        [] ops[i].state = "running" /\ ops[i].kind = "retire" -> "recover"
                        [] OTHER -> "load"]
    /\ UNCHANGED <<control, mattermost>>

\* markProvisioning; a retire waits for no team.
PassClaim ==
    /\ pass.at = "claim"
    /\ IF Stale \/ (Op.kind # "retire" /\ ~Resolved)
         THEN EndPass /\ UNCHANGED row
         ELSE /\ ops' = [ops EXCEPT ![pass.op].state = "running"]
              /\ status' = IF Op.kind \in {"create", "restore"} THEN "reconciling" ELSE status
              /\ Goto(IF Op.kind = "retire" THEN "recover" ELSE "load")
              /\ UNCHANGED current
    /\ UNCHANGED <<config, directory, identity, grants, mattermost, trimmed, bounds>>

\* The configuration this pass provisions, read after the claim.
PassLoad ==
    /\ pass.at = "load"
    /\ IF Resolved
         THEN pass' = [pass EXCEPT !.at = "bot", !.team = {config.team},
                                   !.names = config.allowed, !.known = KnownNames]
         ELSE EndPass
    /\ UNCHANGED <<control, mattermost>>

\* ensureBot: creates the account, enables the agent's own, refuses a stranger's.
PassBot ==
    /\ pass.at = "bot"
    /\ CASE Op.done.bot -> Goto("identity") /\ UNCHANGED bot
         [] ~Op.done.bot /\ Taken -> Goto("reject") /\ UNCHANGED bot
         [] OTHER -> SaveNext("bot") /\ bot' = "enabled"
    /\ UNCHANGED <<control, tokens, file, botTeams, members>>

\* setAgentBotUser: asks nothing of the operation.
PassIdentity ==
    /\ pass.at = "identity" /\ identity' = TRUE
    /\ Goto("token")
    /\ UNCHANGED <<row, config, directory, grants, mattermost, trimmed, bounds>>

\* ensureBotToken: a stored token that works is kept; otherwise every token is revoked,
\* one is issued, and written to the file.
PassToken ==
    /\ pass.at = "token"
    /\ CASE Op.done.token -> Goto("team") /\ UNCHANGED tokens
         [] ~Op.done.token /\ KeepsToken -> SaveNext("token") /\ UNCHANGED tokens
         [] OTHER -> Goto("issue") /\ tokens' = {}
    /\ UNCHANGED <<control, bot, file, botTeams, members>>

PassIssue ==
    /\ pass.at = "issue" /\ tokens' = tokens \cup {"loose"}
    /\ Goto("write")
    /\ UNCHANGED <<control, bot, file, botTeams, members>>

PassWrite ==
    /\ pass.at = "write"
    /\ file' = TRUE /\ tokens' = (tokens \ {"loose"}) \cup {"filed"}
    /\ SaveNext("token")
    /\ UNCHANGED <<control, bot, botTeams, members>>

\* convergeMembership: into the configured team, out of every other (and so out of their
\* channels), into the configured channels, out of what is not allowed now.
PassTeam ==
    /\ pass.at = "team" /\ botTeams' = botTeams \cup pass.team
    /\ pass' = [pass EXCEPT !.at = "save", !.save = "team", !.teams = botTeams]
    /\ UNCHANGED <<control, bot, tokens, file, members>>

PassOthers ==
    /\ pass.at = "others"
    /\ LET left == pass.teams \ pass.team IN
         /\ botTeams' = botTeams \ left
         /\ members' = {c \in members : c[1] \notin left}
    /\ pass' = [pass EXCEPT !.at = "list", !.teams = {}]
    /\ UNCHANGED <<control, bot, tokens, file>>

PassListMembers ==
    /\ pass.at = "list"
    /\ pass' = [pass EXCEPT !.at = "join", !.todo = pass.team \X pass.names,
                            !.listed = {c \in members : c[1] \in pass.team}]
    /\ trimmed' = {}
    /\ UNCHANGED <<row, config, directory, identity, grants, mattermost, bounds>>

\* A name bootstrap has not published ends the pass; the operation waits, running.
PassJoin ==
    /\ pass.at = "join"
    /\ \/ /\ pass.todo = {} /\ UNCHANGED members
          /\ pass' = [NoPass EXCEPT !.at = "trim", !.op = pass.op, !.todo = pass.listed]
       \/ \E c \in pass.todo :
             IF c[2] \notin pass.known
               THEN EndPass /\ UNCHANGED members
               ELSE /\ members' = members \cup ({c} \ pass.listed)
                    /\ pass' = [pass EXCEPT !.at = "save", !.save = "joined",
                                            !.chan = {c}, !.todo = @ \ {c}]
    /\ UNCHANGED <<control, bot, tokens, file, botTeams>>

\* What is allowed is read anew before each channel.
PassTrim ==
    /\ pass.at = "trim"
    /\ \/ pass.todo = {} /\ Goto("complete")
       \/ \E c \in pass.todo :
             pass' = [pass EXCEPT !.at = IF c \in AllowedIds THEN "trim" ELSE "remove",
                                  !.todo = @ \ {c},
                                  !.chan = IF c \in AllowedIds THEN {} ELSE {c}]
    /\ UNCHANGED <<control, mattermost>>

PassRemove ==
    /\ pass.at = "remove"
    /\ members' = members \ pass.chan /\ trimmed' = trimmed \cup pass.chan
    /\ pass' = [pass EXCEPT !.at = "trim", !.chan = {}]
    /\ UNCHANGED <<row, config, directory, identity, grants, bot, tokens, file, botTeams,
                   bounds>>

\* With no bot of its own there is nothing to clean up, a stranger's least of all.
PassRecover ==
    /\ pass.at = "recover"
    /\ identity' = Recovered /\ Goto(IF Recovered THEN "revoke" ELSE "complete")
    /\ UNCHANGED <<row, config, directory, grants, mattermost, trimmed, bounds>>

\* processRetireOperation: tokens and account first, the rest is cosmetic.
PassRevoke ==
    /\ pass.at = "revoke"
    /\ IF Op.done.revoked THEN Goto("disable") /\ UNCHANGED tokens
       ELSE SaveNext("revoked") /\ tokens' = {}
    /\ UNCHANGED <<control, bot, file, botTeams, members>>

PassDisable ==
    /\ pass.at = "disable"
    /\ IF Op.done.disabled THEN Goto("channels") /\ UNCHANGED bot
       ELSE SaveNext("disabled") /\ bot' = "disabled"
    /\ UNCHANGED <<control, tokens, file, botTeams, members>>

PassChannels ==
    /\ pass.at = "channels"
    /\ pass' = [pass EXCEPT !.at = "leave",
          !.todo = IF Resolved THEN {c \in members : c[1] = config.team} \ Op.done.left
                   ELSE {}]
    /\ UNCHANGED <<control, mattermost>>

PassLeave ==
    /\ pass.at = "leave"
    /\ \/ pass.todo = {} /\ Goto("delete") /\ UNCHANGED members
       \/ \E c \in pass.todo :
             /\ members' = members \ {c}
             /\ pass' = [pass EXCEPT !.at = "save", !.save = "left", !.chan = {c},
                                     !.todo = @ \ {c}]
    /\ UNCHANGED <<control, bot, tokens, file, botTeams>>

\* Only a file in the provisioner's own directory is deleted.
PassDelete ==
    /\ pass.at = "delete"
    /\ IF Op.done.deleted THEN Goto("complete") /\ UNCHANGED file
       ELSE SaveNext("deleted") /\ file' = (file /\ ~Owned)
    /\ UNCHANGED <<control, bot, tokens, botTeams, members>>

\* What a checkpoint records, and the step that follows it.
Saved(done) ==
    CASE pass.save = "bot" -> [done EXCEPT !.bot = TRUE]
      [] pass.save = "token" -> [done EXCEPT !.token = TRUE]
      [] pass.save = "team" -> [done EXCEPT !.team = pass.team, !.joined = {}]
      [] pass.save = "joined" -> [done EXCEPT !.joined = @ \cup pass.chan]
      [] pass.save = "revoked" -> [done EXCEPT !.revoked = TRUE]
      [] pass.save = "disabled" -> [done EXCEPT !.disabled = TRUE]
      [] pass.save = "left" -> [done EXCEPT !.left = @ \cup pass.chan]
      [] pass.save = "deleted" -> [done EXCEPT !.deleted = TRUE]
After ==
    [bot |-> "identity", token |-> "team", team |-> "others", joined |-> "join",
     revoked |-> "disable", disabled |-> "channels", left |-> "leave",
     deleted |-> "complete"]

\* checkpointOperation; superseded, the pass ends.
PassSave ==
    /\ pass.at = "save"
    /\ IF MayRecord
         THEN /\ ops' = [ops EXCEPT ![pass.op].done = Saved(@)]
              /\ pass' = [pass EXCEPT !.at = After[pass.save], !.chan = {}, !.save = "bot"]
         ELSE EndPass /\ UNCHANGED ops
    /\ UNCHANGED <<status, current, config, directory, identity, grants, mattermost,
                   trimmed, bounds>>

\* The fence of completeOperation: what a create or restore joined is not what is
\* configured now.
Drifted ==
    /\ Op.kind \in {"create", "restore"}
    /\ \/ Op.done.team # {config.team}
       \/ ~(config.allowed \subseteq KnownNames)
       \/ Op.done.joined # ConfiguredIds

PassComplete ==
    /\ pass.at = "complete" /\ EndPass
    /\ IF Stale \/ ~IsLive(Op)
         THEN UNCHANGED row
         ELSE /\ status' = IF Op.kind = "retire" THEN "retired" ELSE "ready"
              /\ LET journal == [ops EXCEPT ![pass.op].state = "succeeded"] IN
                   IF Drifted THEN Pursue(journal, NewOp("reprovision", NoCheckpoints))
                   ELSE ops' = journal /\ UNCHANGED current
    /\ UNCHANGED <<config, directory, identity, grants, mattermost, trimmed, bounds>>

\* failOperation: a reprovision leaves its agent ready, a retire leaves it retiring.
FailOperation ==
    /\ EndPass
    /\ IF Stale \/ ~IsLive(Op)
         THEN UNCHANGED row
         ELSE /\ ops' = [ops EXCEPT ![pass.op].state = "failed"]
              /\ status' = CASE Op.kind = "retire" -> "retiring"
                             [] Op.kind = "reprovision" -> "ready"
                             [] OTHER -> "failed"
              /\ UNCHANGED current
    /\ UNCHANGED <<config, directory, identity, grants, mattermost, trimmed>>

PassReject == pass.at = "reject" /\ FailOperation /\ UNCHANGED bounds

Fault == faults < MaxFaults /\ faults' = faults + 1 /\ UNCHANGED edits

MattermostSteps ==
    {"bot", "token", "issue", "team", "others", "list", "join", "trim", "remove",
     "recover", "revoke", "disable", "channels", "leave"}

\* settleFailure of an error that a retry cannot mend.
PassRefused ==
    /\ Fault /\ pass.at \in MattermostSteps
    /\ FailOperation

\* A transient failure or a crash: what the pass had read is gone, the operation stays.
PassAbort ==
    /\ Fault /\ pass.at # "idle" /\ EndPass
    /\ UNCHANGED <<row, config, directory, identity, grants, mattermost, trimmed>>

-----------------------------------------------------------------------------
Home == CHOOSE t \in Teams : TRUE

Init ==
    /\ directory = [team |-> Home, names |-> Published]
    /\ grants = {} /\ pass = NoPass /\ trimmed = {} /\ edits = 0 /\ faults = 0
    /\ \/ \* no such agent; its username may be somebody else's
          /\ status = "none" /\ current = 0 /\ ops = <<>> /\ identity = FALSE
          /\ config = [active |-> FALSE, allowed |-> {}, team |-> Home]
          /\ bot \in {"absent", "stranger"} /\ tokens = {} /\ file = FALSE
          /\ botTeams = {} /\ members = {}
       \/ \* an agent of bootstrap's, adopted with or without its bot
          /\ status = "ready" /\ current = 1
          /\ ops = <<[kind |-> "adopt", state |-> "succeeded", done |-> NoCheckpoints]>>
          /\ config = [active |-> TRUE, allowed |-> Published, team |-> Home]
          /\ \/ identity = FALSE /\ bot = "absent" /\ tokens = {} /\ file = FALSE
                /\ botTeams = {} /\ members = {}
             \/ identity = TRUE /\ bot = "enabled" /\ tokens = {"filed"} /\ file = TRUE
                /\ botTeams = {Home} /\ members = {Home} \X Published

Request ==
    \/ \E allowed \in Wanted : Create(allowed) \/ EditChannels(allowed)
    \/ Retire \/ Restore \/ Retry
    \/ \E t \in Teams : ChangeTeam(t)
    \/ \E c \in Channels : GrantChannel(c) \/ RevokeGrant(c)
    \/ RenameStranger

PassStep ==
    \/ PassList \/ PassClaim \/ PassLoad \/ PassBot \/ PassIdentity
    \/ PassToken \/ PassIssue \/ PassWrite
    \/ PassTeam \/ PassOthers \/ PassListMembers \/ PassJoin \/ PassTrim \/ PassRemove
    \/ PassRecover \/ PassRevoke \/ PassDisable \/ PassChannels \/ PassLeave \/ PassDelete
    \/ PassSave \/ PassComplete \/ PassReject

Next == Request \/ PublishTeam \/ PassStep \/ PassRefused \/ PassAbort

Spec == Init /\ [][Next]_vars

\* The controller's timer starts a pass while there is work, and bootstrap is run after
\* the team changed.
FairSpec == Spec /\ WF_vars(PassStep) /\ WF_vars(PublishTeam)

-----------------------------------------------------------------------------
(* What the lifecycle promises. *)

\* Whatever is requested and however passes are interrupted, an agent has at most one
\* operation that is not settled, and it is the one its lifecycle row names
\* (cancelNonterminalOperations, queueMembershipReprovisioning, completeOperation).
OneLiveOperation ==
    \A i \in DOMAIN ops : IsLive(ops[i]) => i = current

\* A pass whose operation was superseded while it was calling Mattermost writes nothing
\* to the journal: a settled operation, its checkpoints included, never changes
\* (lockCurrentOperation; retire's recovery reads those checkpoints).
SettledIsFinal ==
    [][\A i \in DOMAIN ops : ~IsLive(ops[i]) => ops'[i] = ops[i]]_vars

\* A retired agent's account is disabled with no live token, no file and no grant left,
\* even when a superseded create was still making them (processRetireOperation).
RetiredHasNoAccess ==
    status = "retired" =>
        tokens = {} /\ bot # "enabled" /\ grants = {} /\ (Owned => ~file)

\* A stranger's account with the agent's username is never enabled, given or stripped of a
\* token, nor moved between channels, by create, retry or the retire after them
\* (ensureBot, findPlausibleGatewayBot).
StrangerUntouched ==
    [][bot = "stranger" =>
          bot' \in {"stranger", "absent"} /\ UNCHANGED <<tokens, file, botTeams, members>>]_vars

\* Nothing is left to do: ready, and the current operation succeeded.
Settled == status = "ready" /\ Owned /\ ops[current].state = "succeeded"
Missing == ({config.team} \X config.allowed) \ members

\* Once settled the bot is in every configured channel and no other team, whatever edits
\* raced the pass; the one exception is a channel a create or restore took it out of
\* between two edits that cancel out (queueMembershipReprovisioning, completeOperation).
ReadyIsMember ==
    Settled =>
        /\ botTeams \subseteq {config.team}
        /\ Missing \subseteq (IF ops[current].kind = "reprovision" THEN {} ELSE trimmed)

\* convergeMembership's comment: "any drift a single pass does not happen to observe is
\* still caught by completeOperation's own fence".
DriftIsCaught == Settled => Missing = {}

\* An agent's work is eventually all settled: no supersession, stale pass, unpublished channel
\* or crash leaves an operation pending or running for ever (runProvisionerPass).
EveryOperationEnds ==
    (\E i \in DOMAIN ops : IsLive(ops[i])) ~> (\A i \in DOMAIN ops : ~IsLive(ops[i]))

=============================================================================
