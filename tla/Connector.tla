----------------------------- MODULE Connector -----------------------------
(***************************************************************************)
(* The Gmail connector of one mailbox (packages/connector-gmail, ADR-016   *)
(* and ADR-017): its sync of the mailbox's history into events, the watch  *)
(* and the Pub/Sub notifications that hurry it, and the mailbox's row      *)
(* (services/gmail.ts).                                                    *)
(*                                                                         *)
(* The sync, the watch and the pull are loops of one process that share    *)
(* the row and Gmail; mail comes and goes, Gmail forgets its history, the  *)
(* operator resets the mailbox or signs in to another account, and the     *)
(* process dies, between any two of their calls.                           *)
(***************************************************************************)
EXTENDS Integers, FiniteSets

CONSTANTS
    Messages,     \* the messages of all accounts, numbered
    Accounts,     \* the Google accounts an operator may sign in to
    FirstAccount, \* the one it is first authorized for
    Owner,        \* whose account a message is in
    Unreadable,   \* messages that cannot be normalized
    NoAccount,
    PageSize,     \* history records per page
    MaxListed,    \* MAX_FULL_SYNC_MESSAGES
    Overlap,      \* FULL_SYNC_OVERLAP_MS
    MaxMail,      \* bound: history ids, which also serve as the time
    MaxUpsets     \* bound: everything that goes wrong or is undone

ASSUME ConnectorAssumption ==
    /\ Messages \subseteq Nat /\ Owner \in [Messages -> Accounts] /\ Unreadable \subseteq Messages
    /\ FirstAccount \in Accounts /\ NoAccount \notin Accounts
    /\ {PageSize, MaxListed, Overlap} \subseteq Nat \ {0}
    /\ {MaxMail, MaxUpsets} \subseteq Nat

VARIABLES
    mail,         \* each message: where it is, when it was received, its history records
    mailClock,    \* Gmail's newest history id, and the time
    oldest,       \* the oldest history id Gmail still answers from
    watched,      \* Gmail publishes notifications
    topic,        \* the notifications not yet acknowledged
    credential,   \* the refresh token's file: its account, and whether Google accepts it
    mailbox,      \* the row of gmail_mailboxes
    connector,    \* the process and what its loops share
    sync,         \* the sync under way
    watcher,      \* the watch renewal under way
    puller,       \* the notifications pulled and recorded, about to be acknowledged
    stored,       \* the messages with an event
    alerts,       \* what the operator was told
    acked,        \* the newest history id acknowledged to Pub/Sub since the process, or the
                  \* mailbox, was started
    upsets        \* what went wrong or was undone so far

connectorVars == <<mail, mailClock, oldest, watched, topic, credential, mailbox, connector, sync,
                   watcher, puller, stored, alerts, acked, upsets>>
google == <<mail, mailClock, oldest, watched, topic>>
loops == <<connector, sync, watcher, puller>>
book == <<stored, alerts, acked>>

\* Polling; with notifications; with notifications, but a topic Gmail may not publish to.
ConnectorModes == {"poll", "pubsub", "unwatchable"}

Labels == {"absent", "inbox", "archived", "spam"}
MailStates == [label: Labels, received: Nat, records: SUBSET Nat]
Credentials == [account: Accounts, ok: BOOLEAN]
Notifications == [owner: Accounts, id: Nat]
NoMailbox == [in |-> FALSE, account |-> NoAccount, from |-> 0, cursor |-> 0, created |-> 0,
              synced |-> 0, renewed |-> FALSE, full |-> FALSE]
NoSync == [pc |-> "idle", start |-> 0, cursor |-> 0, token |-> 0, to |-> 0, last |-> FALSE,
           refs |-> {}, since |-> 0, full |-> FALSE, at |-> 0]
NoWatch == [pc |-> "idle", id |-> 0]
Down(mode) == [up |-> FALSE, mode |-> mode, credential |-> NoAccount, account |-> NoAccount,
               refused |-> FALSE, initialized |-> FALSE, due |-> FALSE, again |-> FALSE,
               fresh |-> FALSE]

ConnectorTypeOK ==
    /\ mail \in [Messages -> MailStates]
    /\ mailClock \in 0..MaxMail /\ oldest \in 0..MaxMail /\ watched \in BOOLEAN
    /\ topic \subseteq Notifications /\ acked \in 0..MaxMail
    /\ credential \in Credentials
    /\ mailbox \in [in: BOOLEAN, account: Accounts \cup {NoAccount}, from: Nat, cursor: Nat,
                    created: Nat, synced: Nat, renewed: BOOLEAN, full: BOOLEAN]
    /\ connector \in [up: BOOLEAN, mode: ConnectorModes, credential: Accounts \cup {NoAccount},
                      account: Accounts \cup {NoAccount}, refused: BOOLEAN, initialized: BOOLEAN,
                      due: BOOLEAN, again: BOOLEAN, fresh: BOOLEAN]
    /\ sync \in [pc: {"idle", "first", "start", "page", "read", "commit", "full", "list"},
                 start: Nat, cursor: Nat, token: Nat, to: Nat, last: BOOLEAN,
                 refs: SUBSET Messages, since: Int, full: BOOLEAN, at: Nat]
    /\ watcher \in [pc: {"idle", "call", "record"}, id: Nat]
    /\ puller \subseteq Notifications
    /\ stored \subseteq Messages /\ alerts \subseteq {"unreadable", "full_sync", "truncated"}
    /\ upsets \in 0..MaxUpsets

Latest(S) == CHOOSE n \in S \cup {0} : \A k \in S : k <= n
Upset == upsets < MaxUpsets /\ upsets' = upsets + 1

-----------------------------------------------------------------------------
(* Google. *)

\* A sync's last reading and its commit lie within the overlap of a full sync.
InTime(t) ==
    /\ sync.pc \in {"read", "commit", "list", "start"} => t <= sync.at + Overlap
    /\ watcher.pc = "record" => t <= watcher.id + Overlap

\* A new message, or one taken back from the archive or from spam, enters the inbox: a history
\* record, and a notification while there is a watch.  Gmail may drop it.
EnterInbox(m, fresh) ==
    /\ mailClock < MaxMail /\ InTime(mailClock + 1)
    /\ mailClock' = mailClock + 1
    /\ mail' = [mail EXCEPT ![m] = [label |-> "inbox", records |-> @.records \cup {mailClock + 1},
                                    received |-> IF fresh THEN mailClock + 1 ELSE @.received]]
    /\ topic' = IF watched /\ Owner[m] = connector.credential
                THEN topic \cup {[owner |-> Owner[m], id |-> mailClock + 1]} ELSE topic
    /\ UNCHANGED <<oldest, watched, credential, mailbox, loops, book>>

\* Bound: the messages of an account come in their order.
ReceiveMail(m) ==
    /\ mail[m].records = {}
    /\ \A n \in Messages : n < m /\ Owner[n] = Owner[m] => mail[n].records # {}
    /\ EnterInbox(m, TRUE)
    /\ UNCHANGED upsets
ReturnMail(m) == mail[m].label \in {"archived", "spam"} /\ Upset /\ EnterInbox(m, FALSE)

TakeAway(m) ==
    /\ mail[m].label = "inbox" /\ Upset
    /\ \E l \in {"archived", "spam", "absent"} : mail' = [mail EXCEPT ![m].label = l]
    /\ UNCHANGED <<mailClock, oldest, watched, topic, credential, mailbox, loops, book>>

LoseNotification ==
    /\ Upset
    /\ \E n \in topic : topic' = topic \ {n}
    /\ UNCHANGED <<mail, mailClock, oldest, watched, credential, mailbox, loops, book>>

\* Gmail keeps about a week of history.
ForgetHistory ==
    /\ oldest < mailClock /\ Upset
    /\ oldest' = mailClock
    /\ UNCHANGED <<mail, mailClock, watched, topic, credential, mailbox, loops, book>>

\* Gmail stops notifying when a watch is not renewed.
WatchExpires ==
    /\ watched /\ Upset
    /\ watched' = FALSE
    /\ mailbox' = [mailbox EXCEPT !.renewed = FALSE]
    /\ UNCHANGED <<mail, mailClock, oldest, topic, credential, loops, book>>

\* A credential is revoked, or grants other scopes than the connector's.
LoseCredential ==
    /\ credential.ok /\ Upset
    /\ credential' = [credential EXCEPT !.ok = FALSE]
    /\ UNCHANGED <<google, mailbox, loops, book>>

-----------------------------------------------------------------------------
(* The operator. *)

\* gateway gmail authorize: the new refresh token applies at the next start.
Authorize(a) ==
    /\ Upset
    /\ credential' = [account |-> a, ok |-> TRUE]
    /\ UNCHANGED <<google, mailbox, loops, book>>

\* gateway gmail reset.
ResetMailbox ==
    /\ mailbox.in /\ Upset
    /\ mailbox' = NoMailbox /\ acked' = 0
    /\ UNCHANGED <<google, credential, loops, stored, alerts>>

\* The process dies, or is stopped.
StopConnector ==
    /\ connector.up /\ Upset
    /\ connector' = Down(connector.mode) /\ sync' = NoSync /\ watcher' = NoWatch /\ puller' = {}
    /\ acked' = 0
    /\ UNCHANGED <<google, credential, mailbox, stored, alerts>>

\* Polling has nothing to set up first; with notifications, the sync and the pull wait for
\* the first attempt at a watch.
StartConnector ==
    /\ ~connector.up
    /\ connector' = [connector EXCEPT !.up = TRUE, !.credential = credential.account, !.due = TRUE,
                                      !.initialized = (connector.mode = "poll")]
    /\ UNCHANGED <<google, credential, mailbox, sync, watcher, puller, book, upsets>>

-----------------------------------------------------------------------------
(* What the loops share. *)

\* Calls with a refused credential fail; createTokenSource checks the scopes at every refresh.
Authorized == credential.ok \/ credential.account # connector.credential

\* Mutant: whatever account the credential is of.
AnyIdentity == TRUE

\* identify: the cursor belongs to the account it was made for.
Identified ==
    connector.account # NoAccount \/ ~mailbox.in \/ mailbox.account = connector.credential

\* A credential of another account is refused: the loops end.
RefuseAccount ==
    connector' = [connector EXCEPT !.refused = TRUE, !.initialized = TRUE, !.due = FALSE,
                                   !.again = FALSE]

\* Mutant: a request during a sync joins it.
JoinSync(c) == [c EXCEPT !.due = (sync.pc = "idle")]

\* syncNow: a request during a sync runs another one right after it.
RequestSync(c) == IF sync.pc = "idle" THEN [c EXCEPT !.due = TRUE] ELSE [c EXCEPT !.again = TRUE]

\* The end of a sync: one that reached the mailbox's present counts; a request that came
\* meanwhile gets its own.
EndMailboxSync(c, present) ==
    /\ connector' = [c EXCEPT !.due = @ \/ c.again, !.again = FALSE, !.fresh = present]
    /\ sync' = NoSync

-----------------------------------------------------------------------------
(* The sync. *)

\* The last sync that reached the present; never synced: when the cursor was made.
LastInStep == Latest({mailbox.created, mailbox.synced})

\* runSync, on a request, by the periodic timer, or as the retry after a failure.
BeginMailboxSync ==
    /\ connector.up /\ connector.initialized /\ ~connector.refused
    /\ sync.pc = "idle" /\ Authorized
    /\ IF Identified
       THEN /\ connector' = [connector EXCEPT !.account = connector.credential, !.due = FALSE]
            /\ sync' = IF mailbox.in
                       THEN [NoSync EXCEPT !.pc = "page", !.start = mailbox.cursor,
                                           !.cursor = mailbox.cursor, !.token = mailbox.cursor,
                                           !.since = LastInStep - Overlap]
                       ELSE [NoSync EXCEPT !.pc = "first"]
       ELSE RefuseAccount /\ UNCHANGED sync
    /\ UNCHANGED <<google, credential, mailbox, watcher, puller, book, upsets>>

\* A first start: the mailbox's present, without replaying it.
ReadProfile ==
    /\ sync.pc = "first"
    /\ sync' = [sync EXCEPT !.pc = "start", !.to = mailClock, !.at = mailClock]
    /\ UNCHANGED <<google, credential, mailbox, connector, watcher, puller, book, upsets>>

NewMailbox(id) ==
    [NoMailbox EXCEPT !.in = TRUE, !.account = connector.account, !.from = id, !.cursor = id,
                      !.created = mailClock]

\* startGmailMailbox: an existing cursor is kept.
StartMailbox ==
    /\ sync.pc = "start"
    /\ mailbox' = IF mailbox.in THEN mailbox ELSE NewMailbox(sync.to)
    /\ EndMailboxSync(connector, FALSE)
    /\ UNCHANGED <<google, credential, watcher, puller, book, upsets>>

\* The records after the page token, as many as fit.
RecordsOf(a) == UNION {mail[m].records : m \in {n \in Messages : Owner[n] = a}}
PageOf(S) == {i \in S : Cardinality({j \in S : j < i}) < PageSize}

\* One page of the account's history since the sync's start; none when that is gone.
FetchPage ==
    LET after == {i \in RecordsOf(connector.account) : i > sync.token}
        page == PageOf(after)
    IN /\ sync.pc = "page"
       /\ sync' = IF sync.start < oldest THEN [sync EXCEPT !.pc = "full"]
                  ELSE [sync EXCEPT !.pc = "read", !.last = (page = after), !.at = mailClock,
                                    !.token = Latest(page),
                                    !.to = Latest({sync.cursor, IF page = after THEN mailClock
                                                                ELSE Latest(page)}),
                                    !.refs = {m \in Messages : Owner[m] = connector.account
                                                            /\ mail[m].records \cap page # {}}]
       /\ UNCHANGED <<google, credential, mailbox, connector, watcher, puller, book, upsets>>

\* isExcludedMail of a message read by history; isInboxMail of a listed one.
Admitted(m) ==
    IF sync.full THEN mail[m].label = "inbox" ELSE mail[m].label \in {"inbox", "archived"}

\* messageEvent: its text, its headers and its attachments, within their limits.
Normalized(m) == m \notin Unreadable

\* Mutant: a full sync takes the present after its listing.
ReadMessagesLate ==
    /\ sync.pc = "read"
    /\ sync' = [sync EXCEPT !.pc = "commit", !.refs = {m \in @ : Admitted(m) /\ Normalized(m)},
                            !.to = IF sync.full THEN mailClock ELSE @]
    /\ UNCHANGED <<google, credential, mailbox, connector, watcher, puller, book, upsets>>

\* messageEvents: a message deleted or moved meanwhile is skipped; one that cannot be
\* normalized is skipped with an alert.
ReadMessages ==
    /\ sync.pc = "read"
    /\ sync' = [sync EXCEPT !.pc = "commit", !.refs = {m \in @ : Admitted(m) /\ Normalized(m)}]
    /\ alerts' = IF \E m \in sync.refs : Admitted(m) /\ ~Normalized(m)
                 THEN alerts \cup {"unreadable"} ELSE alerts
    /\ UNCHANGED <<google, credential, mailbox, connector, watcher, puller, stored, acked, upsets>>

\* commitGmailDelta: the events and the cursor in one transaction, refused when the cursor
\* is no longer the one the sync has.
CommitDelta ==
    /\ sync.pc = "commit"
    /\ IF mailbox.in /\ mailbox.cursor = sync.cursor
       THEN /\ stored' = stored \cup sync.refs
            /\ mailbox' = [mailbox EXCEPT !.cursor = Latest({@, sync.to}), !.full = @ \/ sync.full,
                                          !.synced = IF sync.last THEN mailClock ELSE @]
            /\ alerts' = IF sync.full THEN alerts \cup {"full_sync"} ELSE alerts
            /\ IF sync.last THEN EndMailboxSync(connector, TRUE)
               ELSE sync' = [sync EXCEPT !.pc = "page", !.cursor = sync.to] /\ UNCHANGED connector
       ELSE EndMailboxSync(connector, FALSE) /\ UNCHANGED <<stored, mailbox, alerts>>
    /\ UNCHANGED <<google, credential, watcher, puller, acked, upsets>>

\* fullSync: the history id is taken first, so that what arrives while the listing runs is
\* read by the next sync.
FullSync ==
    /\ sync.pc = "full"
    /\ sync' = [sync EXCEPT !.pc = "list", !.to = mailClock, !.at = mailClock]
    /\ UNCHANGED <<google, credential, mailbox, connector, watcher, puller, book, upsets>>

\* The inbox since shortly before the last completed sync, newest first, up to a bound.
ListInbox ==
    LET listed == {m \in Messages : Owner[m] = connector.account /\ mail[m].label = "inbox"
                                 /\ mail[m].received > sync.since}
        newest == {m \in listed : Cardinality({n \in listed : mail[n].received > mail[m].received})
                                    < MaxListed}
    IN /\ sync.pc = "list"
       /\ sync' = [sync EXCEPT !.pc = "read", !.full = TRUE, !.last = TRUE, !.refs = newest]
       /\ alerts' = IF newest # listed THEN alerts \cup {"truncated"} ELSE alerts
       /\ UNCHANGED <<google, credential, mailbox, connector, watcher, puller, stored, acked,
                      upsets>>

\* A call fails: the sync is given up, and a request that came meanwhile gets its own.
MailboxSyncFails ==
    /\ sync.pc # "idle" /\ Upset
    /\ EndMailboxSync(connector, FALSE)
    /\ UNCHANGED <<google, credential, mailbox, watcher, puller, book>>

-----------------------------------------------------------------------------
(* The watch. *)

Watching == connector.up /\ connector.mode # "poll" /\ ~connector.refused
Watchable == Authorized /\ connector.mode = "pubsub"

\* ensureWatch: nothing to do while the watch is young.
CheckWatch ==
    /\ Watching /\ watcher.pc = "idle" /\ Authorized
    /\ ~connector.initialized \/ ~mailbox.renewed
    /\ IF Identified
       THEN /\ connector' = [connector EXCEPT !.account = connector.credential,
                                              !.initialized = @ \/ mailbox.renewed]
            /\ watcher' = IF mailbox.renewed THEN watcher ELSE [watcher EXCEPT !.pc = "call"]
       ELSE RefuseAccount /\ UNCHANGED watcher
    /\ UNCHANGED <<google, credential, mailbox, sync, puller, book, upsets>>

CallWatch ==
    /\ watcher.pc = "call" /\ Watchable
    /\ watched' = TRUE
    /\ watcher' = [pc |-> "record", id |-> mailClock]
    /\ UNCHANGED <<mail, mailClock, oldest, topic, credential, mailbox, connector, sync, puller,
                   book, upsets>>

\* recordGmailWatch: makes the cursor at the watch's history id when there is none.
RecordWatch ==
    /\ watcher.pc = "record"
    /\ mailbox' = [(IF mailbox.in THEN mailbox ELSE NewMailbox(watcher.id)) EXCEPT !.renewed = TRUE]
    /\ connector' = [connector EXCEPT !.initialized = TRUE]
    /\ watcher' = NoWatch
    /\ UNCHANGED <<google, credential, sync, puller, book, upsets>>

\* Mutant: the other loops wait for a watch that works.
WatchFailsAlone ==
    /\ Watching /\ (watcher.pc # "idle" \/ ~Authorized)
    /\ ~connector.initialized \/ watcher.pc # "idle"
    /\ IF Watchable THEN Upset ELSE UNCHANGED upsets
    /\ watcher' = NoWatch
    /\ UNCHANGED <<google, credential, mailbox, connector, sync, puller, book>>

\* The first failure lets the sync start without a watch.
WatchFails ==
    /\ Watching /\ (watcher.pc # "idle" \/ ~Authorized)
    /\ ~connector.initialized \/ watcher.pc # "idle"
    /\ IF Watchable THEN Upset ELSE UNCHANGED upsets
    /\ connector' = [connector EXCEPT !.initialized = TRUE]
    /\ watcher' = NoWatch
    /\ UNCHANGED <<google, credential, mailbox, sync, puller, book>>

-----------------------------------------------------------------------------
(* The notifications. *)

Own(notifications) == {n \in notifications : n.owner = connector.account}

\* handle: each is recorded durably before it is acknowledged; another mailbox's is dropped.
\* One that cannot be recorded stops the batch; what was recorded is acknowledged.
Pull ==
    /\ Watching /\ connector.initialized /\ Authorized
    /\ puller = {} /\ topic # {}
    /\ IF Identified
       THEN /\ connector' = [connector EXCEPT !.account = connector.credential]
            /\ \/ puller' = topic /\ UNCHANGED upsets
               \/ \E part \in (SUBSET topic) \ {topic} : puller' = part /\ Upset
       ELSE RefuseAccount /\ UNCHANGED <<puller, upsets>>
    /\ UNCHANGED <<google, credential, mailbox, sync, watcher, book>>

\* acknowledge, and a sync for what was announced.
Acknowledge ==
    /\ puller # {}
    /\ topic' = topic \ puller
    /\ acked' = Latest({acked} \cup {n.id : n \in Own(puller)})
    /\ connector' = RequestSync(connector)
    /\ puller' = {}
    /\ UNCHANGED <<mail, mailClock, oldest, watched, credential, mailbox, sync, watcher, stored,
                   alerts, upsets>>

\* The acknowledgement fails: Pub/Sub delivers the batch again.
AcknowledgeFails ==
    /\ puller # {} /\ Upset
    /\ puller' = {}
    /\ UNCHANGED <<google, credential, mailbox, connector, sync, watcher, book>>

-----------------------------------------------------------------------------
ConnectorInit ==
    /\ mail = [m \in Messages |-> [label |-> "absent", received |-> 0, records |-> {}]]
    /\ mailClock = 0 /\ oldest = 0 /\ watched = FALSE /\ topic = {}
    /\ credential = [account |-> FirstAccount, ok |-> TRUE]
    /\ mailbox = NoMailbox /\ connector \in {Down(mode) : mode \in ConnectorModes}
    /\ sync = NoSync /\ watcher = NoWatch /\ puller = {}
    /\ stored = {} /\ alerts = {} /\ acked = 0 /\ upsets = 0

SyncStep ==
    \/ BeginMailboxSync \/ ReadProfile \/ StartMailbox \/ FetchPage \/ ReadMessages \/ CommitDelta
    \/ FullSync \/ ListInbox
WatchStep == CheckWatch \/ CallWatch \/ RecordWatch \/ (WatchFails /\ ~Watchable)
PullStep == Pull \/ Acknowledge

ConnectorNext ==
    \/ \E m \in Messages : ReceiveMail(m) \/ ReturnMail(m) \/ TakeAway(m)
    \/ LoseNotification \/ ForgetHistory \/ WatchExpires \/ LoseCredential
    \/ (\E a \in Accounts : Authorize(a)) \/ ResetMailbox \/ StopConnector \/ StartConnector
    \/ SyncStep \/ MailboxSyncFails \/ WatchStep \/ WatchFails
    \/ PullStep \/ AcknowledgeFails

ConnectorSpec == ConnectorInit /\ [][ConnectorNext]_connectorVars

\* The loops get on, the timers fire, and a service that ended is started again.
ConnectorFairness ==
    /\ WF_connectorVars(SyncStep) /\ WF_connectorVars(WatchStep) /\ WF_connectorVars(PullStep)
    /\ WF_connectorVars(StartConnector)
ConnectorFairSpec == ConnectorSpec /\ ConnectorFairness

-----------------------------------------------------------------------------
\* What may leave a message without an event: it is gone or distrusted; it cannot be
\* normalized, and the operator was told; or the history was lost, the operator was told, and
\* the message was archived, came back late, or is beyond what a full sync reads.
Excused(m) ==
    \/ mail[m].label \in {"absent", "spam"}
    \/ m \in Unreadable /\ "unreadable" \in alerts
    \/ /\ mailbox.full /\ "full_sync" \in alerts
       /\ \/ mail[m].label = "archived"
          \/ mail[m].records # {mail[m].received}
          \/ "truncated" \in alerts

\* Every message that last entered the inbox at or before the cursor, and after the mailbox was
\* started, has its event: across pages, crashes, resets, lost history and failed calls the
\* cursor never passes mail nobody has read.
MailIsNotLost ==
    \A m \in Messages :
        /\ mailbox.in /\ Owner[m] = mailbox.account
        /\ mailbox.from < Latest(mail[m].records) /\ Latest(mail[m].records) <= mailbox.cursor
        => m \in stored \/ Excused(m)

\* No mail is stored for a mailbox whose cursor belongs to another account, however resets,
\* sign-ins and restarts interleave with the loops.
NoForeignMail ==
    [][\A m \in stored' \ stored : Owner[m] = mailbox'.account]_connectorVars

\* What a notification announced has been read once the sync it asked for has ended: no
\* request is lost to a sync that was already past it.
AckedIsSynced ==
    connector.up /\ connector.fresh /\ sync.pc = "idle" /\ ~connector.due /\ mailbox.in =>
        acked <= mailbox.cursor

\* A mailbox is started, and mail of the account the connector is signed in to is read in the
\* end, with or without a watch, unless it is taken away or cannot be normalized, the mailbox is
\* reset or the credential is refused.
MailArrives ==
    /\ []<>(connector.up => mailbox.in \/ connector.refused \/ ~Authorized)
    /\ \A m \in Messages :
        (mailbox.in /\ mailbox.account = Owner[m] /\ mail[m].label = "inbox"
            /\ \E i \in mail[m].records : i > mailbox.cursor)
        ~> (m \in stored \/ mail[m].label # "inbox" \/ m \in Unreadable \/ ~mailbox.in
            \/ connector.refused \/ ~Authorized \/ Excused(m))

=============================================================================
