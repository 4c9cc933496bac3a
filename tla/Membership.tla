----------------------------- MODULE Membership -----------------------------
(***************************************************************************)
(* The grants of one channel to one agent (ADR-022): the synchronizer that *)
(* turns Mattermost's membership records into grants                       *)
(* (packages/mattermost/membership.ts), the grant rows and the channel's   *)
(* catch-up (services/channel-grants.ts), the configuration that names the *)
(* channel or not, and the provisioner's admin account that adds the bot.  *)
(*                                                                         *)
(* A pass of the synchronizer reads the records once and then calls        *)
(* Mattermost and the database step by step: people, an operator, the      *)
(* provisioner and a crash come in between.                                *)
(***************************************************************************)
EXTENDS Integers, Sequences

CONSTANTS
    MaxChanges,   \* bound: membership changes of the bot
    MaxEdits,     \* bound: configuration edits and operator revocations
    MaxMembershipFaults, \* bound: failed calls, floods of posts and crashes
    MembershipFaults     \* some of MembershipFaultNames

\* "error": a call fails and ends the channel's step; "crash": the controller dies;
\* "erase": a person deletes an add record; "busy": too many posts followed to tell who
\* added the bot; "stale_add": the provisioner adds the bot by a configuration read before
\* the channel was taken out.
MembershipFaultNames == {"error", "crash", "erase", "busy", "stale_add"}

ASSUME MembershipAssumption ==
    /\ {MaxChanges, MaxEdits, MaxMembershipFaults} \subseteq Nat
    /\ MembershipFaults \subseteq MembershipFaultNames

VARIABLES
    records,      \* the channel's membership records of the bot, oldest first
    member,       \* the bot is a member
    listenerIn,   \* the listener is a member
    configured,   \* allowed_channels names the channel
    grant,        \* the agent's row of mattermost_channel_grants
    started,      \* the channel's catch-up is recorded
    moment,       \* time of the newest change, of whatever kind
    configEdits,  \* edits and revocations so far
    pass,         \* the synchronizer's pass: its step and what it has read
    pendingGrant,      \* memory.pending: a membership without evidence waits its grace
    admin,        \* the provisioner is about to add the bot
    mishaps       \* failed calls, floods of posts and crashes so far

membershipVars == <<records, member, listenerIn, configured, grant, started, moment, configEdits,
                    pass, pendingGrant, admin, mishaps>>
channelSide == <<records, member, moment>>
grantSide == <<configured, grant, started, configEdits>>
aside == <<admin, mishaps>>

People == {"owner", "stranger"}
\* `configured` is for the properties only: the channel was configured when it happened.
MembershipRecords == [kind: {"add", "gone"}, by: People \cup {"admin"}, at: Nat,
                      erased: BOOLEAN, configured: BOOLEAN]
NoChange == [kind |-> "none", by |-> "none", at |-> 0]
NoPass == [pc |-> "idle", member |-> FALSE, configured |-> FALSE, state |-> "none", since |-> 0,
         checked |-> 0, found |-> NoChange, why |-> "none"]
Reasons == {"none", "bot_left", "add_unverified", "not_owner_or_admin", "listener_not_added",
            "operator", "config_removed"}

MembershipTypeOK ==
    /\ records \in Seq(MembershipRecords)
    /\ member \in BOOLEAN /\ listenerIn \in BOOLEAN /\ configured \in BOOLEAN /\ started \in BOOLEAN
    /\ grant \in [state: {"none", "active", "revoked"}, since: Nat, checked: Nat, reason: Reasons]
    /\ moment \in Nat /\ configEdits \in 0..MaxEdits
    /\ pass \in [pc: {"idle", "list", "active", "judge", "grant", "revoke", "leave", "listener",
                      "check", "gone", "new", "grace", "sweep", "listener_leaves"},
                 member: BOOLEAN, configured: BOOLEAN, state: {"none", "active", "revoked"},
                 since: Nat, checked: Nat, why: Reasons,
                 found: [kind: {"add", "gone", "none"}, by: People \cup {"admin", "none"}, at: Nat]]
    /\ pendingGrant \in {"no", "waiting", "over"}
    /\ admin \in BOOLEAN /\ mishaps \in 0..MaxMembershipFaults

-----------------------------------------------------------------------------
(* People and the provisioner. *)

NewRecord(kind, by) ==
    /\ moment' = moment + 1
    /\ records' = Append(records, [kind |-> kind, by |-> by, at |-> moment + 1,
                                   erased |-> FALSE, configured |-> configured])

Changes(kind, by) == Len(records) < MaxChanges /\ NewRecord(kind, by)

AddBot(person) ==
    /\ ~member
    /\ member' = TRUE
    /\ Changes("add", person)
    /\ UNCHANGED <<listenerIn, grantSide, pass, pendingGrant, aside>>

RemoveBot ==
    /\ member
    /\ member' = FALSE
    /\ Changes("gone", "owner")
    /\ UNCHANGED <<listenerIn, grantSide, pass, pendingGrant, aside>>

EraseRecord ==
    /\ "erase" \in MembershipFaults
    /\ \E i \in DOMAIN records :
         /\ records[i].kind = "add" /\ ~records[i].erased
         /\ records' = [records EXCEPT ![i].erased = TRUE]
    /\ UNCHANGED <<member, moment, listenerIn, grantSide, pass, pendingGrant, aside>>

\* The provisioner (or bootstrap) reads the configuration and then adds the bot with the
\* admin account.
PlanAdminAdd ==
    /\ configured /\ ~admin /\ ~member
    /\ admin' = TRUE
    /\ UNCHANGED <<channelSide, listenerIn, grantSide, pass, pendingGrant, mishaps>>

AdminAdd ==
    /\ admin
    /\ configured \/ "stale_add" \in MembershipFaults
    /\ IF member THEN UNCHANGED channelSide ELSE member' = TRUE /\ Changes("add", "admin")
    /\ listenerIn' = TRUE
    /\ admin' = FALSE
    /\ UNCHANGED <<grantSide, pass, pendingGrant, mishaps>>

\* An operation superseded by the edit adds nothing.
DropAdminAdd ==
    /\ admin /\ ~configured
    /\ admin' = FALSE
    /\ UNCHANGED <<channelSide, listenerIn, grantSide, pass, pendingGrant, mishaps>>

-----------------------------------------------------------------------------
(* The configuration and the operator. *)

\* A call fails, too many posts follow, or the controller dies, once more.
CallFault == mishaps < MaxMembershipFaults /\ mishaps' = mishaps + 1

Followed(c, g) == c \/ g.state = "active"

Configure ==
    /\ ~configured /\ configEdits < MaxEdits
    /\ configured' = TRUE /\ started' = TRUE /\ configEdits' = configEdits + 1
    /\ UNCHANGED <<channelSide, listenerIn, grant, pass, pendingGrant, aside>>

\* tombstoneUnconfiguredChannels: a revoked row dated now, so that the admin's add does
\* not come back as a grant; an owner's grant still active is left alone.
Tombstone ==
    IF grant.state = "active" THEN grant
    ELSE [state |-> "revoked", since |-> moment, checked |-> grant.checked,
          reason |-> "config_removed"]

\* writeConfigRevisionIn without the channel: its catch-up goes, unless a grant keeps it.
Unconfigure ==
    /\ configured /\ configEdits < MaxEdits
    /\ configured' = FALSE /\ configEdits' = configEdits + 1
    /\ grant' = Tombstone
    /\ started' = Followed(FALSE, grant')
    /\ UNCHANGED <<channelSide, listenerIn, pass, pendingGrant, aside>>

\* tombstoneGrant and channelStillFollowed: the row keeps the time of its add; the
\* catch-up goes when nothing needs the channel any more.
Revoke(reason) ==
    /\ grant' = IF grant.state = "active"
                THEN [grant EXCEPT !.state = "revoked", !.reason = reason] ELSE grant
    /\ started' = (started /\ Followed(configured, grant'))

\* revokeChannelGrant (gateway agents revoke-grant).
OperatorRevokes ==
    /\ grant.state = "active" /\ configEdits < MaxEdits
    /\ configEdits' = configEdits + 1
    /\ Revoke("operator")
    /\ UNCHANGED <<channelSide, listenerIn, configured, pass, pendingGrant, aside>>

-----------------------------------------------------------------------------
(* The synchronizer. *)

GoTo(pc) == pass' = [pass EXCEPT !.pc = pc]
KnownRecords == {i \in DOMAIN records : ~records[i].erased}

\* findChange: the newest change on record, not the newest add; only one made after
\* `after` counts.
FindChange(after) ==
    LET newest == CHOOSE i \in KnownRecords : \A j \in KnownRecords : j <= i
    IN IF KnownRecords = {} \/ records[newest].at <= after THEN NoChange
       ELSE [kind |-> records[newest].kind, by |-> records[newest].by, at |-> records[newest].at]

\* syncMembership and loadMembershipState: one pass at a time.
BeginPass ==
    /\ pass.pc = "idle"
    /\ pass' = [NoPass EXCEPT !.pc = "list", !.configured = configured, !.state = grant.state,
                            !.since = grant.since, !.checked = grant.checked, !.why = grant.reason]
    /\ UNCHANGED <<channelSide, listenerIn, grantSide, pendingGrant, aside>>

\* syncBot: the bot's channels, then the grants, then the memberships without one.  In a
\* configured channel only a grant whose bot has left is looked at.
ListChannels ==
    /\ pass.pc = "list"
    /\ pass' = [pass EXCEPT !.member = member,
                            !.pc = IF (IF member THEN pass.configured ELSE pass.state # "active")
                                   THEN "sweep"
                                   ELSE IF pass.state = "active" THEN "active" ELSE "new"]
    /\ pendingGrant' = IF member /\ ~pass.configured /\ pass.state # "active" THEN pendingGrant
                       ELSE "no"
    /\ UNCHANGED <<channelSide, listenerIn, grantSide, aside>>

\* An active grant: the bot has left; or the posts since the last check are read for a
\* newer add, and who brought the bot back must be told.
CheckGrant ==
    LET change == FindChange(IF pass.checked > pass.since THEN pass.checked ELSE pass.since)
    IN /\ pass.pc = "active"
       /\ pass' = CASE ~pass.member -> [pass EXCEPT !.pc = "revoke", !.why = "bot_left"]
                    [] pass.member /\ change.kind = "gone" ->
                         [pass EXCEPT !.pc = "gone"]
                    [] pass.member /\ change.kind = "add" ->
                         [pass EXCEPT !.pc = "judge", !.found = change]
                    [] pass.member /\ change.kind = "none" ->
                         [pass EXCEPT !.pc = "listener", !.found = [change EXCEPT !.at = moment]]
       /\ UNCHANGED <<channelSide, listenerIn, grantSide, pendingGrant, aside>>

\* The newest change is a removal: the bot has left while the pass ran, or the record of
\* its return is gone.
ConfirmGone ==
    /\ pass.pc = "gone"
    /\ pass' = [pass EXCEPT !.pc = "revoke", !.why = IF member THEN "add_unverified" ELSE "bot_left"]
    /\ UNCHANGED <<channelSide, listenerIn, grantSide, pendingGrant, aside>>

\* More posts than are looked through: who added the bot last cannot be told.
TooManyPosts ==
    /\ "busy" \in MembershipFaults /\ CallFault
    /\ pass.pc = "active" /\ pass.member
    /\ pass' = [pass EXCEPT !.pc = "revoke", !.why = "add_unverified"]
    /\ UNCHANGED <<channelSide, listenerIn, grantSide, pendingGrant, admin>>

\* mayGrant: an active human who is an owner or a system admin.
MayGrant(by) == by \in {"owner", "admin"}

\* judgeAdd, its verdict.
JudgeAdd ==
    /\ pass.pc = "judge"
    /\ pass' = IF MayGrant(pass.found.by) THEN [pass EXCEPT !.pc = "grant"]
               ELSE [pass EXCEPT !.pc = "revoke", !.why = "not_owner_or_admin"]
    /\ pendingGrant' = "no"
    /\ UNCHANGED <<channelSide, listenerIn, grantSide, aside>>

\* Mutant: any newer add grants, in a configured channel too.
NewerGrants == grant.state = "none" \/ pass.found.at > grant.since

\* grantChannel: not a configured channel, and only an add newer than the latest record.
Grants == ~configured /\ (grant.state = "none" \/ pass.found.at > grant.since)

\* A channel not followed yet starts its catch-up at the add itself.  A record at least as
\* new is kept: if it is active, judgeAdd goes on with it.  A pass over an active grant goes
\* on to ensureListenerIn in any case.
GrantChannel ==
    /\ pass.pc = "grant"
    /\ IF Grants
       THEN /\ grant' = [state |-> "active", since |-> pass.found.at, checked |-> pass.found.at,
                         reason |-> "none"]
            /\ started' = TRUE
            /\ GoTo("listener")
       ELSE /\ pass' = CASE ~configured /\ grant.state = "active" ->
                              [pass EXCEPT !.pc = "listener"]
                         [] configured \/ grant.state # "active" ->
                              IF pass.state = "active" /\ member
                              THEN [pass EXCEPT !.pc = "listener", !.found.kind = "none"]
                              ELSE [pass EXCEPT !.pc = "sweep"]
            /\ UNCHANGED <<grant, started>>
    /\ UNCHANGED <<channelSide, listenerIn, configured, configEdits, pendingGrant, aside>>

\* The agent's own bot brings the listener in (judgeAdd right after the grant, and
\* ensureListenerIn on every pass).  In judgeAdd a refusal ends the grant; else it is
\* logged, and a bot that has left fails at the next call.
BringListener ==
    /\ pass.pc = "listener" /\ member
    /\ listenerIn' = TRUE
    /\ GoTo("check")
    /\ UNCHANGED <<channelSide, grantSide, pendingGrant, aside>>

ListenerRefused ==
    /\ pass.pc = "listener"
    /\ IF member THEN "error" \in MembershipFaults /\ CallFault ELSE UNCHANGED mishaps
    /\ pass' = IF pass.found.kind = "add" /\ ~listenerIn
               THEN [pass EXCEPT !.pc = "revoke", !.why = "listener_not_added"]
               ELSE [pass EXCEPT !.pc = IF member THEN "check" ELSE "sweep"]
    /\ UNCHANGED <<channelSide, listenerIn, grantSide, pendingGrant, admin>>

\* markGrantChecked: never back.
MarkChecked ==
    /\ pass.pc = "check"
    /\ grant' = IF grant.state = "active" /\ grant.checked < pass.found.at
                THEN [grant EXCEPT !.checked = pass.found.at] ELSE grant
    /\ GoTo("sweep")
    /\ UNCHANGED <<channelSide, listenerIn, configured, started, configEdits, pendingGrant, aside>>

\* recordChannelGrantRevoked; the bot then leaves, unless it has left by itself.
RecordRevoked ==
    /\ pass.pc = "revoke"
    /\ Revoke(pass.why)
    /\ GoTo(IF pass.why = "bot_left" THEN "sweep" ELSE "leave")
    /\ UNCHANGED <<channelSide, listenerIn, configured, configEdits, pendingGrant, aside>>

\* removeChannelMember with the bot's own token.
LeaveChannel ==
    /\ pass.pc = "leave"
    /\ member' = FALSE
    /\ IF member
       THEN NewRecord("gone", "admin")
       ELSE UNCHANGED <<records, moment>>
    /\ GoTo("sweep")
    /\ UNCHANGED <<listenerIn, grantSide, pendingGrant, aside>>

\* A membership without a grant: an add newer than the record is judged.
JudgeMembership ==
    LET change == FindChange(0)
    IN /\ pass.pc = "new"
       /\ pass' = IF change.kind = "add" /\ (pass.state = "none" \/ change.at > pass.since)
                  THEN [pass EXCEPT !.pc = "judge", !.found = change]
                  ELSE [pass EXCEPT !.pc = "grace"]
       /\ UNCHANGED <<channelSide, listenerIn, grantSide, pendingGrant, aside>>

\* Mutant: every pass starts the grace anew.
WaitGraceAgain ==
    /\ pass.pc = "grace"
    /\ pendingGrant' = "waiting" /\ GoTo("sweep")
    /\ UNCHANGED <<channelSide, listenerIn, grantSide, aside>>

\* No evidence: it waits its grace, by the controller's clock, and then the bot leaves.
WaitGrace ==
    /\ pass.pc = "grace"
    /\ IF pendingGrant = "over"
       THEN pendingGrant' = "no" /\ GoTo("leave")
       ELSE pendingGrant' = "waiting" /\ GoTo("sweep")
    /\ UNCHANGED <<channelSide, listenerIn, grantSide, aside>>

GraceEnds ==
    /\ pendingGrant = "waiting"
    /\ pendingGrant' = "over"
    /\ UNCHANGED <<channelSide, listenerIn, grantSide, pass, aside>>

\* sweepListener and unneededChannels: the listener leaves what nothing needs, and its
\* catch-up is deleted.
SweepListener ==
    /\ pass.pc = "sweep"
    /\ started' = (started /\ Followed(configured, grant))
    /\ IF listenerIn /\ ~Followed(configured, grant)
       THEN GoTo("listener_leaves") ELSE pass' = NoPass
    /\ UNCHANGED <<channelSide, listenerIn, configured, grant, configEdits, pendingGrant, aside>>

ListenerLeaves ==
    /\ pass.pc = "listener_leaves"
    /\ listenerIn' = FALSE
    /\ pass' = NoPass
    /\ UNCHANGED <<channelSide, grantSide, pendingGrant, aside>>

\* One channel's step fails; the pass goes on with the listener.
StepFails ==
    /\ "error" \in MembershipFaults /\ CallFault
    /\ pass.pc \in {"active", "gone", "judge", "grant", "listener", "check", "revoke", "leave",
                    "new"}
    /\ GoTo("sweep")
    /\ UNCHANGED <<channelSide, listenerIn, grantSide, pendingGrant, admin>>

ControllerDies ==
    /\ "crash" \in MembershipFaults /\ CallFault
    /\ pass' = NoPass /\ pendingGrant' = "no"
    /\ UNCHANGED <<channelSide, listenerIn, grantSide, admin>>

-----------------------------------------------------------------------------
MembershipInit ==
    /\ records = <<>> /\ member = FALSE /\ listenerIn = FALSE /\ configured = FALSE
    /\ grant = [state |-> "none", since |-> 0, checked |-> 0, reason |-> "none"]
    /\ started = FALSE /\ moment = 0 /\ configEdits = 0 /\ pass = NoPass /\ pendingGrant = "no"
    /\ admin = FALSE /\ mishaps = 0

Synchronize ==
    \/ BeginPass \/ ListChannels \/ CheckGrant \/ ConfirmGone \/ JudgeAdd \/ GrantChannel \/ BringListener
    \/ (ListenerRefused /\ ~member) \/ MarkChecked \/ RecordRevoked \/ LeaveChannel
    \/ JudgeMembership \/ WaitGrace \/ SweepListener \/ ListenerLeaves

MembershipNext ==
    \/ Synchronize \/ GraceEnds \/ TooManyPosts \/ ListenerRefused \/ StepFails \/ ControllerDies
    \/ \E person \in People : AddBot(person)
    \/ RemoveBot \/ EraseRecord \/ PlanAdminAdd \/ AdminAdd \/ DropAdminAdd
    \/ Configure \/ Unconfigure \/ OperatorRevokes

MembershipSpec == MembershipInit /\ [][MembershipNext]_membershipVars

\* A pass runs every five seconds and gets on; a grace runs out.
MembershipFairness == WF_membershipVars(Synchronize) /\ WF_membershipVars(GraceEnds)
MembershipFairSpec == MembershipSpec /\ MembershipFairness

-----------------------------------------------------------------------------
\* A grant comes into force, or is renewed, only by an add that an owner made, or a system
\* admin where the channel was not configured then: no stranger's add, and never the add
\* the provisioner made for the configuration, however the reads of a pass interleave with
\* removals, re-adds, edits and revocations (grantChannel's checks, the tombstones of
\* writeConfigRevisionIn).  An ended grant does not come back by the add it came from.  The
\* exception: a tombstone leaves an owner's grant in force alone, so a later add by the
\* admin account still renews that grant, even after it was revoked.
GrantsAreGiven ==
    [][grant'.state = "active" /\ <<grant'.state, grant'.since>> # <<grant.state, grant.since>> =>
         \E i \in DOMAIN records :
            /\ records[i].kind = "add" /\ records[i].at = grant'.since
            /\ grant.state = "none" \/ records[i].at > grant.since
            /\ \/ records[i].by = "owner"
               \/ records[i].by = "admin" /\ (records[i].configured =>
                     grant.state # "none" /\ grant.reason # "config_removed")
      ]_membershipVars

\* The bot does not stay where nobody let it: a membership without a grant, in a channel
\* the configuration does not name, ends or is granted.
NobodyLingers == []<>(member => configured \/ grant.state = "active")

=============================================================================
