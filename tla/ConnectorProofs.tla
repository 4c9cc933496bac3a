-------------------------- MODULE ConnectorProofs --------------------------
(***************************************************************************)
(* Proofs about Connector, for every number of accounts and messages, any  *)
(* page size and overlap, and every failure: no mail is passed by the      *)
(* cursor, a request for a sync is met, and no mail is stored for another  *)
(* account.                                                                *)
(***************************************************************************)
EXTENDS Connector, FiniteSetTheorems, WellFoundedInduction, TLAPS

MailboxRecords ==
    [in: BOOLEAN, account: Accounts \cup {NoAccount}, from: Nat, cursor: Nat, created: Nat,
     synced: Nat, renewed: BOOLEAN, full: BOOLEAN]
ConnectorRecords ==
    [up: BOOLEAN, mode: ConnectorModes, credential: Accounts \cup {NoAccount},
     account: Accounts \cup {NoAccount}, refused: BOOLEAN, initialized: BOOLEAN, due: BOOLEAN,
     again: BOOLEAN, fresh: BOOLEAN]
SyncSteps == {"idle", "first", "start", "page", "read", "commit", "full", "list"}
SyncRecords ==
    [pc: SyncSteps, start: Nat, cursor: Nat, token: Nat, to: Nat, last: BOOLEAN,
     refs: SUBSET Messages, since: Int, full: BOOLEAN, at: Nat]
WatchRecords == [pc: {"idle", "call", "record"}, id: Nat]
AlertKinds == {"unreadable", "full_sync", "truncated"}

\* What every variable is.
ConnectorTypes ==
    /\ mail \in [Messages -> MailStates] /\ mailClock \in 0..MaxMail /\ oldest \in 0..MaxMail
    /\ watched \in BOOLEAN /\ topic \subseteq Notifications /\ puller \subseteq Notifications
    /\ credential \in Credentials /\ mailbox \in MailboxRecords /\ connector \in ConnectorRecords
    /\ sync \in SyncRecords /\ watcher \in WatchRecords /\ stored \subseteq Messages
    /\ alerts \subseteq AlertKinds /\ acked \in Nat /\ upsets \in 0..MaxUpsets

\* Nothing is known of a history id before Gmail has given it out.
NothingAhead ==
    /\ \A m \in Messages : mail[m].records \subseteq 0..mailClock
    /\ mailbox.cursor <= mailClock /\ sync.to <= mailClock /\ sync.cursor <= mailClock
    /\ sync.at <= mailClock /\ watcher.id <= mailClock /\ acked <= mailClock
    /\ \A n \in topic \cup puller : n.id <= mailClock

\* A loop works for the account it has identified, and so for the row's: what a sync has read is
\* that account's.
SignedIn ==
    /\ connector.up => connector.credential \in Accounts
    /\ ~connector.up => connector.account = NoAccount
    /\ connector.account \in {NoAccount, connector.credential}
    /\ connector.account = NoAccount =>
         /\ sync.pc = "idle" /\ watcher.pc = "idle" /\ puller = {} /\ acked = 0
         /\ ~connector.fresh
    /\ connector.account # NoAccount /\ mailbox.in => mailbox.account = connector.account
    /\ \A m \in sync.refs : Owner[m] = connector.account

\* A reading is not older than the overlap when it is committed, so that a full sync that starts
\* the overlap before the last completed one starts no later than the cursor.
WithinOverlap ==
    /\ sync.pc \in {"read", "commit", "list", "start"} => mailClock <= sync.at + Overlap
    /\ watcher.pc = "record" => mailClock <= watcher.id + Overlap
    /\ sync.pc \in {"list", "start"} => sync.to = sync.at
    /\ sync.pc \in {"read", "commit"} /\ sync.last => sync.at <= sync.to
    /\ mailbox.in => /\ mailbox.created <= mailbox.cursor + Overlap
                     /\ mailbox.synced <= mailbox.cursor + Overlap
    /\ sync.pc \in {"page", "read", "commit", "full", "list"} => sync.since <= sync.cursor

\* The pages follow one another: the next begins where the cursor is.
PagesFollow ==
    /\ sync.pc \in {"page", "full", "list"} => ~sync.full
    /\ sync.pc = "page" => sync.token = sync.cursor
    /\ sync.pc \in {"read", "commit"} /\ ~sync.last => sync.token = sync.to /\ ~sync.full
    /\ sync.pc \in {"read", "commit", "list"} => sync.cursor <= sync.to

\* What a sync has read, or may leave out, is everything up to where it will move the cursor.
MayLeaveOut(m) ==
    \/ mail[m].label \in {"absent", "spam"}
    \/ m \in Unreadable /\ "unreadable" \in alerts
    \/ /\ sync.full
       /\ \/ mail[m].label = "archived"
          \/ mail[m].records # {mail[m].received}
          \/ "truncated" \in alerts
SyncCovers ==
    sync.pc \in {"read", "commit"} =>
        \A m \in Messages :
            /\ Owner[m] = connector.account
            /\ sync.cursor < Latest(mail[m].records) /\ Latest(mail[m].records) <= sync.to
            => m \in sync.refs \/ MayLeaveOut(m)

\* What was acknowledged is behind the cursor, or behind where the sync under way will move it,
\* or there is another sync to come.
AckedIsAsked ==
    /\ connector.up /\ connector.fresh /\ sync.pc = "idle" /\ ~connector.due =>
         acked <= (IF mailbox.in THEN mailbox.cursor ELSE 0)
    /\ sync.pc = "list" \/ (sync.pc \in {"read", "commit"} /\ sync.last) =>
         connector.again \/ acked <= sync.to

ConnectorInv ==
    /\ ConnectorTypes /\ NothingAhead /\ SignedIn /\ WithinOverlap /\ PagesFollow
    /\ SyncCovers /\ AckedIsAsked /\ MailIsNotLost

-----------------------------------------------------------------------------
\* A nonempty set of natural numbers has a least element.
LEMMA LeastExists ==
    ASSUME NEW S \in SUBSET Nat, S # {} PROVE \E n \in S : \A m \in S : n <= m
<1>1. PICK n \in S : \A m \in S : ~(<<m, n>> \in OpToRel(<, Nat))
  BY NatLessThanWellFounded, WFMin
<1>2. \A m \in S : ~(m < n)
  BY <1>1 DEF OpToRel
<1> QED BY <1>2

\* A nonempty bounded set of natural numbers has a greatest element.
LEMMA GreatestExists ==
    ASSUME NEW b \in Nat, NEW S \in SUBSET (0..b), S # {} PROVE \E n \in S : \A m \in S : m <= n
<1> DEFINE T == {b - n : n \in S}
<1>0. \A n \in S : b - n \in Nat
  OBVIOUS
<1>1. T \in SUBSET Nat /\ T # {}
  BY <1>0
<1>2. PICK t \in T : \A m \in T : t <= m
  BY <1>1, LeastExists
<1>3. PICK n \in S : t = b - n
  BY <1>2
<1>4. \A m \in S : b - n <= b - m
  BY <1>2, <1>3
<1> QED BY <1>3, <1>4

\* The largest of a bounded set of numbers, or 0.
LEMMA LatestIs ==
    ASSUME NEW b \in Nat, NEW S \in SUBSET (0..b)
    PROVE  Latest(S) \in S \cup {0} /\ Latest(S) \in 0..b /\ \A k \in S : k <= Latest(S)
<1>1. \E n \in S \cup {0} : \A k \in S : k <= n
  <2>1. CASE S = {}
    BY <2>1
  <2>2. CASE S # {}
    BY <2>2, GreatestExists
  <2> QED BY <2>1, <2>2
<1>2. Latest(S) \in S \cup {0} /\ \A k \in S : k <= Latest(S)
  BY <1>1 DEF Latest
<1>3. S \cup {0} \subseteq 0..b
  OBVIOUS
<1> QED BY <1>2, <1>3

\* The later of two history ids is one of them, and no earlier than either.
LEMMA LatestOfTwo ==
    ASSUME NEW a \in Nat, NEW b \in Nat
    PROVE  /\ Latest({a, b}) \in Nat /\ a <= Latest({a, b}) /\ b <= Latest({a, b})
           /\ Latest({a, b}) \in {a, b}
<1> DEFINE c == IF a <= b THEN b ELSE a
<1>1. c \in Nat /\ {a, b} \in SUBSET (0..c)
  OBVIOUS
<1>2. Latest({a, b}) \in {a, b} \cup {0} /\ a <= Latest({a, b}) /\ b <= Latest({a, b})
  BY <1>1, LatestIs
<1> HIDE DEF c
<1>3. Latest({a, b}) = 0 => a = 0
  BY <1>2
<1> QED BY <1>2, <1>3

\* The row, the sync and the watch that are not there have their types.
LEMMA NoneTypes ==
    /\ NoMailbox \in MailboxRecords /\ ~NoMailbox.in /\ NoMailbox.cursor = 0
    /\ NoSync \in SyncRecords /\ NoSync.pc = "idle" /\ NoSync.to = 0 /\ NoSync.cursor = 0
    /\ NoSync.at = 0 /\ NoSync.refs = {} /\ ~NoSync.full
    /\ NoWatch \in WatchRecords /\ NoWatch.pc = "idle" /\ NoWatch.id = 0
BY DEF NoMailbox, NoSync, NoWatch, MailboxRecords, SyncRecords, SyncSteps, WatchRecords

\* A connector that is down has no account.
LEMMA DownType ==
    ASSUME NEW mode \in ConnectorModes
    PROVE  /\ Down(mode) \in ConnectorRecords /\ ~Down(mode).up
           /\ Down(mode).account = NoAccount /\ ~Down(mode).fresh /\ Down(mode).mode = mode
BY DEF Down, ConnectorRecords

-----------------------------------------------------------------------------
\* A step that leaves the mail, the sync and what was stored alone, and the cursor where it is.
LEMMA QuietStep ==
    ASSUME ConnectorInv, ConnectorTypes', UNCHANGED <<mail, mailClock, sync, stored, alerts>>,
           /\ mailbox'.in = mailbox.in /\ mailbox'.account = mailbox.account
           /\ mailbox'.from = mailbox.from /\ mailbox'.cursor = mailbox.cursor
           /\ mailbox'.created = mailbox.created /\ mailbox'.synced = mailbox.synced
           /\ mailbox'.full = mailbox.full,
           \A n \in topic' \cup puller' : n \in topic \cup puller,
           watcher'.id <= mailClock,
           watcher'.pc = "record" => mailClock <= watcher'.id + Overlap,
           acked' <= mailClock,
           sync.pc # "idle" => connector'.account = connector.account,
           SignedIn', AckedIsAsked'
    PROVE  ConnectorInv'
<1> USE DEF ConnectorInv
<1>1. NothingAhead'
  BY DEF NothingAhead
<1>2. WithinOverlap' /\ PagesFollow'
  BY DEF WithinOverlap, PagesFollow
<1>3. SyncCovers'
  BY DEF SyncCovers, MayLeaveOut
<1>4. MailIsNotLost'
  BY DEF MailIsNotLost, Excused
<1> QED BY <1>1, <1>2, <1>3, <1>4

\* The fields of a record that an edit leaves alone.
LEMMA Renewing ==
    ASSUME NEW x \in MailboxRecords, NEW b \in BOOLEAN, NEW y, y = [x EXCEPT !.renewed = b]
    PROVE  /\ y \in MailboxRecords
           /\ y.in = x.in /\ y.account = x.account /\ y.from = x.from /\ y.cursor = x.cursor
           /\ y.created = x.created /\ y.synced = x.synced /\ y.full = x.full
BY DEF MailboxRecords

\* What goes on outside of the connector, mail aside.
LEMMA OutsideStep ==
    ASSUME ConnectorInv,
           \/ LoseNotification \/ ForgetHistory \/ WatchExpires \/ LoseCredential
           \/ (\E a \in Accounts : Authorize(a)) \/ AcknowledgeFails
    PROVE  ConnectorInv'
<1> USE DEF ConnectorInv
<1>t. mailbox \in MailboxRecords /\ credential \in Credentials
  BY DEF ConnectorTypes
<1>u. Upset
  BY DEF LoseNotification, ForgetHistory, WatchExpires, LoseCredential, Authorize, AcknowledgeFails
<1>1. upsets' \in 0..MaxUpsets
  BY <1>u, ConnectorAssumption DEF Upset, ConnectorTypes
<1>2. /\ UNCHANGED <<mail, mailClock, sync, stored, alerts, connector, watcher, acked>>
      /\ topic' \subseteq topic /\ puller' \subseteq puller
      /\ oldest' \in {oldest, mailClock} /\ watched' \in {watched, FALSE}
      /\ mailbox' = mailbox \/ mailbox' = [mailbox EXCEPT !.renewed = FALSE]
  BY DEF LoseNotification, ForgetHistory, WatchExpires, LoseCredential, Authorize, AcknowledgeFails,
         google, loops, book
<1>3. /\ mailbox' \in MailboxRecords
      /\ mailbox'.in = mailbox.in /\ mailbox'.account = mailbox.account
      /\ mailbox'.from = mailbox.from /\ mailbox'.cursor = mailbox.cursor
      /\ mailbox'.created = mailbox.created /\ mailbox'.synced = mailbox.synced
      /\ mailbox'.full = mailbox.full
  <2>1. CASE mailbox' = mailbox
    BY <1>t, <2>1
  <2>2. CASE mailbox' = [mailbox EXCEPT !.renewed = FALSE]
    BY <1>t, <2>2, Renewing
  <2> QED BY <1>2, <2>1, <2>2
<1>4. credential' \in Credentials
  <2>1. CASE UNCHANGED credential
    BY <1>t, <2>1
  <2>2. CASE LoseCredential
    BY <1>t, <2>2 DEF LoseCredential, Credentials
  <2>3. ASSUME NEW a \in Accounts, Authorize(a) PROVE credential' \in Credentials
    BY <2>3 DEF Authorize, Credentials
  <2> QED BY <2>1, <2>2, <2>3
          DEF LoseNotification, ForgetHistory, WatchExpires, AcknowledgeFails
<1>5. ConnectorTypes'
  BY <1>1, <1>2, <1>3, <1>4 DEF ConnectorTypes
<1>6. SignedIn' /\ AckedIsAsked'
  BY <1>2, <1>3 DEF SignedIn, AckedIsAsked
<1>7. watcher'.id <= mailClock /\ (watcher'.pc = "record" => mailClock <= watcher'.id + Overlap)
      /\ acked' <= mailClock
  BY <1>2 DEF NothingAhead, WithinOverlap
<1> QED BY <1>2, <1>3, <1>5, <1>6, <1>7, QuietStep

-----------------------------------------------------------------------------
(* Mail. *)

\* The largest history id of a message, with a new one.
LEMMA LatestNew ==
    ASSUME NEW c \in Nat, NEW S \in SUBSET (0..c) PROVE Latest(S \cup {c + 1}) = c + 1
<1>1. S \cup {c + 1} \in SUBSET (0..(c + 1)) /\ c + 1 \in Nat
  OBVIOUS
<1>2. Latest(S \cup {c + 1}) \in 0..(c + 1) /\ c + 1 <= Latest(S \cup {c + 1})
  BY <1>1, LatestIs
<1> QED BY <1>2

\* Mail that enters the inbox is newer than every cursor.
LEMMA EnterStep ==
    ASSUME ConnectorInv, NEW m \in Messages, NEW fresh \in BOOLEAN, EnterInbox(m, fresh),
           upsets' \in 0..MaxUpsets
    PROVE  ConnectorInv'
<1> USE DEF ConnectorInv
<1>t. /\ mail \in [Messages -> MailStates] /\ mailClock \in Nat /\ mailbox \in MailboxRecords
      /\ sync \in SyncRecords /\ watcher \in WatchRecords /\ acked \in Nat
      /\ topic \subseteq Notifications /\ puller \subseteq Notifications
  BY ConnectorAssumption DEF ConnectorTypes
<1>u. /\ mailClock' = mailClock + 1 /\ mailClock' \in 0..MaxMail /\ InTime(mailClock + 1)
      /\ UNCHANGED <<oldest, watched, credential, mailbox, connector, sync, watcher, puller,
                     stored, alerts, acked>>
  BY ConnectorAssumption DEF EnterInbox, loops, book, ConnectorTypes
<1> DEFINE new == [label |-> "inbox", records |-> mail[m].records \cup {mailClock + 1},
                   received |-> IF fresh THEN mailClock + 1 ELSE mail[m].received]
<1>1. new \in MailStates /\ new.records = mail[m].records \cup {mailClock + 1}
  BY <1>t DEF MailStates, Labels
<1>2. mail' = [mail EXCEPT ![m] = new]
  BY DEF EnterInbox
<1> HIDE DEF new
<1>3. /\ mail' \in [Messages -> MailStates] /\ mail'[m] = new
      /\ \A k \in Messages \ {m} : mail'[k] = mail[k]
  BY <1>t, <1>1, <1>2
<1>4. Owner[m] \in Accounts
  BY ConnectorAssumption
<1>5. \A n \in topic' : n \in Notifications /\ (n \in topic \/ n.id = mailClock + 1)
  BY <1>t, <1>4 DEF EnterInbox, Notifications
<1>6. ConnectorTypes'
  <2>1. topic' \subseteq Notifications
    BY <1>5
  <2> QED BY <1>u, <1>3, <2>1 DEF ConnectorTypes
<1>7. NothingAhead'
  <2>1. \A k \in Messages : mail'[k].records \subseteq 0..mailClock'
    <3> SUFFICES ASSUME NEW k \in Messages PROVE mail'[k].records \subseteq 0..mailClock'
      OBVIOUS
    <3>1. mail[k].records \subseteq 0..mailClock /\ mail[m].records \subseteq 0..mailClock
      BY DEF NothingAhead
    <3> QED BY <1>t, <1>u, <1>1, <1>3, <3>1
  <2>2. /\ mailbox'.cursor <= mailClock' /\ sync'.to <= mailClock' /\ sync'.cursor <= mailClock'
        /\ sync'.at <= mailClock' /\ watcher'.id <= mailClock' /\ acked' <= mailClock'
    BY <1>t, <1>u DEF NothingAhead, MailboxRecords, SyncRecords, WatchRecords
  <2>3. \A n \in topic' \cup puller' : n.id <= mailClock'
    <3>1. \A n \in topic \cup puller : n.id \in Nat /\ n.id <= mailClock
      BY <1>t DEF NothingAhead, Notifications
    <3> QED BY <1>t, <1>u, <1>5, <3>1
  <2> QED BY <2>1, <2>2, <2>3 DEF NothingAhead
<1>8. SignedIn' /\ PagesFollow' /\ AckedIsAsked'
  BY <1>u DEF SignedIn, PagesFollow, AckedIsAsked
<1>9. WithinOverlap'
  BY <1>u DEF WithinOverlap, InTime
<1>10. Latest(mail'[m].records) = mailClock + 1
  <2>1. mail[m].records \in SUBSET (0..mailClock)
    BY DEF NothingAhead
  <2> QED BY <1>t, <1>1, <1>3, <2>1, LatestNew
<1>11. SyncCovers'
  <2> SUFFICES ASSUME sync.pc \in {"read", "commit"}, NEW k \in Messages,
                      Owner[k] = connector.account, sync.cursor < Latest(mail'[k].records),
                      Latest(mail'[k].records) <= sync.to
               PROVE  k \in sync.refs \/ MayLeaveOut(k)'
    BY <1>u DEF SyncCovers
  <2>1. k # m
    BY <1>t, <1>10 DEF NothingAhead, SyncRecords
  <2>2. mail'[k] = mail[k]
    BY <1>3, <2>1
  <2> QED BY <1>u, <2>2 DEF SyncCovers, MayLeaveOut
<1>12. MailIsNotLost'
  <2> SUFFICES ASSUME NEW k \in Messages, mailbox.in, Owner[k] = mailbox.account,
                      mailbox.from < Latest(mail'[k].records),
                      Latest(mail'[k].records) <= mailbox.cursor
               PROVE  k \in stored \/ Excused(k)'
    BY <1>u DEF MailIsNotLost
  <2>1. k # m
    BY <1>t, <1>10 DEF NothingAhead, MailboxRecords
  <2>2. mail'[k] = mail[k]
    BY <1>3, <2>1
  <2> QED BY <1>u, <2>2 DEF MailIsNotLost, Excused
<1> QED BY <1>6, <1>7, <1>8, <1>9, <1>11, <1>12

\* TakeAway keeps the invariant: mail that leaves the inbox need not be stored.
LEMMA TakeAwayStep ==
    ASSUME ConnectorInv, NEW m \in Messages, TakeAway(m)
    PROVE  ConnectorInv'
<1> USE DEF ConnectorInv
<1>t. mail \in [Messages -> MailStates]
  BY DEF ConnectorTypes
<1>u. UNCHANGED <<mailClock, oldest, watched, topic, credential, mailbox, connector, sync, watcher,
                  puller, stored, alerts, acked>>
  BY DEF TakeAway, loops, book
<1>1. PICK l \in {"archived", "spam", "absent"} : mail' = [mail EXCEPT ![m].label = l]
  BY DEF TakeAway
<1> DEFINE new == [mail[m] EXCEPT !.label = l]
<1>2. mail[m] \in MailStates /\ mail[m].label = "inbox"
  BY <1>t DEF TakeAway
<1>3. /\ new \in MailStates /\ new.label = l /\ new.records = mail[m].records
      /\ new.received = mail[m].received
  BY <1>2 DEF MailStates, Labels
<1>4. mail' = [mail EXCEPT ![m] = new]
  BY <1>1
<1> HIDE DEF new
<1>5. /\ mail' \in [Messages -> MailStates]
      /\ \A k \in Messages : /\ mail'[k].records = mail[k].records
                             /\ mail'[k].received = mail[k].received
                             /\ mail'[k].label = mail[k].label
                                \/ mail[k].label = "inbox"
  BY <1>t, <1>2, <1>3, <1>4
<1>6. upsets' \in 0..MaxUpsets
  BY ConnectorAssumption DEF TakeAway, Upset, ConnectorTypes
<1>7. ConnectorTypes'
  BY <1>u, <1>5, <1>6 DEF ConnectorTypes
<1>8. NothingAhead' /\ SignedIn' /\ PagesFollow' /\ AckedIsAsked' /\ WithinOverlap'
  BY <1>u, <1>5 DEF NothingAhead, SignedIn, PagesFollow, AckedIsAsked, WithinOverlap
<1>9. SyncCovers'
  BY <1>u, <1>5 DEF SyncCovers, MayLeaveOut
<1>10. MailIsNotLost'
  BY <1>u, <1>5 DEF MailIsNotLost, Excused
<1> QED BY <1>7, <1>8, <1>9, <1>10

-----------------------------------------------------------------------------
(* The operator and the process. *)

\* ResetMailbox keeps the invariant: a row that is gone covers nothing.
LEMMA ResetStep ==
    ASSUME ConnectorInv, ResetMailbox PROVE ConnectorInv'
<1> USE DEF ConnectorInv
<1>u. /\ UNCHANGED <<mail, mailClock, oldest, watched, topic, credential, connector, sync, watcher,
                     puller, stored, alerts>>
      /\ mailbox' = NoMailbox /\ acked' = 0
  BY DEF ResetMailbox, google, loops
<1>1. mailClock \in Nat /\ sync \in SyncRecords
  BY ConnectorAssumption DEF ConnectorTypes
<1>2. upsets' \in 0..MaxUpsets
  BY ConnectorAssumption DEF ResetMailbox, Upset, ConnectorTypes
<1>3. ConnectorTypes'
  BY <1>u, <1>2, NoneTypes DEF ConnectorTypes
<1>4. NothingAhead' /\ SignedIn' /\ PagesFollow' /\ SyncCovers'
  BY <1>u, <1>1, NoneTypes DEF NothingAhead, SignedIn, PagesFollow, SyncCovers, MayLeaveOut
<1>5. WithinOverlap' /\ MailIsNotLost'
  BY <1>u, NoneTypes DEF WithinOverlap, MailIsNotLost
<1>6. AckedIsAsked'
  BY <1>u, <1>1, NoneTypes DEF AckedIsAsked, SyncRecords
<1> QED BY <1>3, <1>4, <1>5, <1>6

\* StopConnector keeps the invariant: the loops forget what they were at.
LEMMA StopStep ==
    ASSUME ConnectorInv, StopConnector PROVE ConnectorInv'
<1> USE DEF ConnectorInv
<1>u. /\ UNCHANGED <<mail, mailClock, oldest, watched, topic, credential, mailbox, stored, alerts>>
      /\ connector' = Down(connector.mode) /\ sync' = NoSync /\ watcher' = NoWatch /\ puller' = {}
      /\ acked' = 0
  BY DEF StopConnector, google
<1>1. mailClock \in Nat /\ connector.mode \in ConnectorModes
  BY ConnectorAssumption DEF ConnectorTypes, ConnectorRecords
<1>2. upsets' \in 0..MaxUpsets
  BY ConnectorAssumption DEF StopConnector, Upset, ConnectorTypes
<1>3. ConnectorTypes'
  BY <1>u, <1>1, <1>2, NoneTypes, DownType DEF ConnectorTypes
<1>4. NothingAhead' /\ PagesFollow' /\ SyncCovers' /\ WithinOverlap' /\ MailIsNotLost'
  BY <1>u, <1>1, NoneTypes
     DEF NothingAhead, PagesFollow, SyncCovers, WithinOverlap, MailIsNotLost, Excused
<1>5. SignedIn' /\ AckedIsAsked'
  BY <1>u, <1>1, NoneTypes, DownType DEF SignedIn, AckedIsAsked
<1> QED BY <1>3, <1>4, <1>5

\* StartConnector keeps the invariant: no account is identified yet.
LEMMA StartStep ==
    ASSUME ConnectorInv, StartConnector PROVE ConnectorInv'
<1> USE DEF ConnectorInv
<1>u. UNCHANGED <<mail, mailClock, oldest, watched, topic, credential, mailbox, sync, watcher,
                  puller, stored, alerts, acked, upsets>>
  BY DEF StartConnector, google, book
<1>t. connector \in ConnectorRecords /\ credential \in Credentials /\ ~connector.up
  BY DEF ConnectorTypes, StartConnector
<1> DEFINE new == [connector EXCEPT !.up = TRUE, !.credential = credential.account, !.due = TRUE,
                                    !.initialized = (connector.mode = "poll")]
<1>1. /\ new \in ConnectorRecords /\ new.account = connector.account /\ new.fresh = connector.fresh
      /\ new.due /\ new.again = connector.again /\ new.credential \in Accounts
  BY <1>t DEF ConnectorRecords, Credentials
<1>2. connector' = new
  BY DEF StartConnector
<1> HIDE DEF new
<1>3. ConnectorTypes'
  BY <1>u, <1>1, <1>2 DEF ConnectorTypes
<1>4. SignedIn' /\ AckedIsAsked'
  BY <1>t, <1>u, <1>1, <1>2 DEF SignedIn, AckedIsAsked
<1>5. watcher'.id <= mailClock /\ (watcher'.pc = "record" => mailClock <= watcher'.id + Overlap)
      /\ acked' <= mailClock
  BY <1>u DEF NothingAhead, WithinOverlap
<1> QED BY <1>u, <1>1, <1>2, <1>3, <1>4, <1>5, QuietStep

\* The loops identify the account: from then on they work for the credential's.
LEMMA Identifying ==
    ASSUME ConnectorInv, Identified, connector.up
    PROVE  /\ connector.credential \in Accounts /\ connector.credential # NoAccount
           /\ connector.account # NoAccount => connector.account = connector.credential
           /\ mailbox.in => mailbox.account = connector.credential
BY ConnectorAssumption DEF ConnectorInv, SignedIn, Identified

\* A refused account stops the loops before they have done anything.
LEMMA RefusedStep ==
    ASSUME ConnectorInv, ~Identified, RefuseAccount,
           UNCHANGED <<mail, mailClock, oldest, watched, topic, credential, mailbox, sync, watcher,
                       puller, stored, alerts, acked, upsets>>
    PROVE  ConnectorInv'
<1> USE DEF ConnectorInv
<1>t. connector \in ConnectorRecords /\ connector.account = NoAccount
  BY DEF ConnectorTypes, Identified
<1> DEFINE new == [connector EXCEPT !.refused = TRUE, !.initialized = TRUE, !.due = FALSE,
                                    !.again = FALSE]
<1>1. /\ new \in ConnectorRecords /\ new.account = connector.account /\ new.fresh = connector.fresh
      /\ new.up = connector.up /\ new.credential = connector.credential
  BY <1>t DEF ConnectorRecords
<1>2. connector' = new
  BY DEF RefuseAccount
<1> HIDE DEF new
<1>3. ConnectorTypes'
  BY <1>1, <1>2 DEF ConnectorTypes
<1>4. SignedIn' /\ AckedIsAsked'
  BY <1>t, <1>1, <1>2 DEF SignedIn, AckedIsAsked
<1>5. watcher'.id <= mailClock /\ (watcher'.pc = "record" => mailClock <= watcher'.id + Overlap)
      /\ acked' <= mailClock
  BY DEF NothingAhead, WithinOverlap
<1> QED BY <1>1, <1>2, <1>3, <1>4, <1>5, QuietStep

-----------------------------------------------------------------------------
(* The watch and the notifications. *)

\* What a step that identifies the account, and touches no more than the loops' own records,
\* keeps.
LEMMA IdentifiedStep ==
    ASSUME ConnectorInv, ConnectorTypes', Identified, connector.up,
           UNCHANGED <<mail, mailClock, topic, mailbox, sync, stored, alerts, acked>>,
           connector'.up /\ connector'.credential = connector.credential,
           connector'.account = connector.credential /\ connector'.fresh = connector.fresh,
           connector'.due = connector.due /\ connector'.again = connector.again,
           watcher'.id <= mailClock, watcher'.pc = "record" => watcher' = watcher,
           puller' \subseteq topic \cup puller
    PROVE  ConnectorInv'
<1> USE DEF ConnectorInv
<1>1. /\ connector.credential \in Accounts /\ connector.credential # NoAccount
      /\ connector.account # NoAccount => connector.account = connector.credential
      /\ mailbox.in => mailbox.account = connector.credential
  BY Identifying
<1>2. \A m \in sync.refs : Owner[m] = connector.credential
  <2>1. CASE connector.account = NoAccount
    <3>1. \A m \in sync.refs : Owner[m] \in Accounts /\ Owner[m] = NoAccount
      BY <2>1, ConnectorAssumption DEF SignedIn, ConnectorTypes, SyncRecords
    <3> QED BY <3>1, ConnectorAssumption
  <2>2. CASE connector.account # NoAccount
    BY <1>1, <2>2 DEF SignedIn
  <2> QED BY <2>1, <2>2
<1>3. SignedIn'
  BY <1>1, <1>2 DEF SignedIn
<1>4. AckedIsAsked'
  BY DEF AckedIsAsked
<1>5. acked' <= mailClock /\ (watcher'.pc = "record" => mailClock <= watcher'.id + Overlap)
  BY DEF NothingAhead, WithinOverlap
<1>6. sync.pc # "idle" => connector'.account = connector.account
  BY <1>1 DEF SignedIn
<1> QED BY <1>3, <1>4, <1>5, <1>6, QuietStep

\* CheckWatch keeps the invariant.
LEMMA CheckWatchStep ==
    ASSUME ConnectorInv, CheckWatch PROVE ConnectorInv'
<1> USE DEF ConnectorInv
<1>u. UNCHANGED <<mail, mailClock, oldest, watched, topic, credential, mailbox, sync, puller,
                  stored, alerts, acked, upsets>>
  BY DEF CheckWatch, google, book
<1>t. connector \in ConnectorRecords /\ watcher \in WatchRecords /\ mailbox \in MailboxRecords
  BY DEF ConnectorTypes
<1>1. CASE ~Identified
  BY <1>1, <1>u, RefusedStep DEF CheckWatch
<1>2. CASE Identified
  <2> DEFINE new == [connector EXCEPT !.account = connector.credential,
                                      !.initialized = connector.initialized \/ mailbox.renewed]
  <2>1. /\ new \in ConnectorRecords /\ new.account = connector.credential
        /\ new.up = connector.up /\ new.fresh = connector.fresh /\ new.due = connector.due
        /\ new.again = connector.again /\ new.credential = connector.credential
    BY <1>t DEF ConnectorRecords, MailboxRecords
  <2>2. connector' = new /\ connector.up
    BY <1>2 DEF CheckWatch, Watching
  <2> HIDE DEF new
  <2>3. [watcher EXCEPT !.pc = "call"] \in WatchRecords
        /\ [watcher EXCEPT !.pc = "call"].id = watcher.id
        /\ [watcher EXCEPT !.pc = "call"].pc = "call"
    BY <1>t DEF WatchRecords
  <2>4. watcher' = watcher \/ watcher' = [watcher EXCEPT !.pc = "call"]
    BY <1>2 DEF CheckWatch
  <2>5. watcher' \in WatchRecords /\ watcher'.id = watcher.id
        /\ (watcher'.pc = "record" => watcher' = watcher)
    BY <1>t, <2>3, <2>4
  <2>6. ConnectorTypes'
    BY <1>u, <2>1, <2>2, <2>5 DEF ConnectorTypes
  <2>7. watcher'.id <= mailClock
    BY <2>5 DEF NothingAhead
  <2> QED BY <1>2, <1>u, <2>1, <2>2, <2>5, <2>6, <2>7, IdentifiedStep
<1> QED BY <1>1, <1>2

\* CallWatch keeps the invariant: the answer's history id is Gmail's newest.
LEMMA CallWatchStep ==
    ASSUME ConnectorInv, CallWatch PROVE ConnectorInv'
<1> USE DEF ConnectorInv
<1>u. UNCHANGED <<mail, mailClock, oldest, topic, credential, mailbox, connector, sync, puller,
                  stored, alerts, acked, upsets>>
  BY DEF CallWatch, book
<1>t. mailClock \in Nat
  BY ConnectorAssumption DEF ConnectorTypes
<1> DEFINE new == [pc |-> "record", id |-> mailClock]
<1>1. new \in WatchRecords /\ new.id = mailClock /\ new.pc = "record"
  BY <1>t DEF WatchRecords
<1>2. watcher' = new /\ watched' = TRUE /\ watcher.pc = "call"
  BY DEF CallWatch
<1> HIDE DEF new
<1>3. ConnectorTypes'
  BY <1>u, <1>1, <1>2 DEF ConnectorTypes
<1>4. SignedIn' /\ AckedIsAsked'
  BY <1>u, <1>2 DEF SignedIn, AckedIsAsked
<1>5. acked' <= mailClock /\ watcher'.id <= mailClock /\ mailClock <= watcher'.id + Overlap
  BY <1>t, <1>u, <1>1, <1>2, ConnectorAssumption DEF NothingAhead
<1> QED BY <1>u, <1>3, <1>4, <1>5, QuietStep

\* The row a sync or a watch makes where there is none.
MakesMailbox(id) ==
    /\ ~mailbox.in /\ mailbox'.in /\ mailbox'.account = connector.account
    /\ mailbox'.from = id /\ mailbox'.cursor = id /\ mailbox'.created = mailClock
    /\ mailbox'.synced = 0

\* A row that was kept, or made at a history id just read, is in step with the mail.
LEMMA MailboxKept ==
    ASSUME ConnectorInv, UNCHANGED <<mail, mailClock, stored, alerts>>,
           NEW id \in Nat, id <= mailClock, mailClock <= id + Overlap,
           connector.account # NoAccount,
           \/ /\ mailbox'.in = mailbox.in /\ mailbox'.account = mailbox.account
              /\ mailbox'.from = mailbox.from /\ mailbox'.cursor = mailbox.cursor
              /\ mailbox'.created = mailbox.created /\ mailbox'.synced = mailbox.synced
              /\ mailbox'.full = mailbox.full
           \/ MakesMailbox(id)
    PROVE  /\ mailbox'.cursor <= mailClock
           /\ mailbox'.in => /\ mailbox'.account = connector.account
                             /\ mailbox'.created <= mailbox'.cursor + Overlap
                             /\ mailbox'.synced <= mailbox'.cursor + Overlap
           /\ MailIsNotLost'
<1> USE DEF ConnectorInv
<1>1. CASE MakesMailbox(id)
  <2>1. MailIsNotLost'
    <3> SUFFICES ASSUME NEW m \in Messages, id < Latest(mail[m].records),
                        Latest(mail[m].records) <= id
                 PROVE  FALSE
      BY <1>1 DEF MailIsNotLost, MakesMailbox
    <3>1. mail[m].records \in SUBSET (0..mailClock) /\ mailClock \in Nat
      BY ConnectorAssumption DEF NothingAhead, ConnectorTypes
    <3>2. Latest(mail[m].records) \in 0..mailClock
      BY <3>1, LatestIs
    <3> QED BY <3>1, <3>2
  <2> QED BY <1>1, <2>1, ConnectorAssumption DEF MakesMailbox
<1>2. CASE ~MakesMailbox(id)
  BY <1>2 DEF NothingAhead, SignedIn, WithinOverlap, MailIsNotLost, Excused
<1> QED BY <1>1, <1>2

\* RecordWatch keeps the invariant: a row that is new starts within the overlap of the answer.
LEMMA RecordWatchStep ==
    ASSUME ConnectorInv, RecordWatch PROVE ConnectorInv'
<1> USE DEF ConnectorInv
<1>u. UNCHANGED <<mail, mailClock, oldest, watched, topic, credential, sync, puller, stored, alerts,
                  acked, upsets>>
  BY DEF RecordWatch, google, book
<1>t. /\ connector \in ConnectorRecords /\ watcher \in WatchRecords /\ mailbox \in MailboxRecords
      /\ watcher.pc = "record" /\ watcher' = NoWatch /\ mailClock \in Nat /\ acked \in Nat
  BY ConnectorAssumption DEF ConnectorTypes, RecordWatch
<1>i. /\ watcher.id \in Nat /\ watcher.id <= mailClock /\ mailClock <= watcher.id + Overlap
      /\ connector.account # NoAccount /\ connector.account \in Accounts \cup {NoAccount}
  BY <1>t DEF WatchRecords, NothingAhead, WithinOverlap, SignedIn, ConnectorRecords
<1> DEFINE new == [connector EXCEPT !.initialized = TRUE]
<1>1. /\ new \in ConnectorRecords /\ new.account = connector.account
      /\ new.up = connector.up /\ new.fresh = connector.fresh /\ new.due = connector.due
      /\ new.again = connector.again /\ new.credential = connector.credential
  BY <1>t DEF ConnectorRecords
<1>2. connector' = new
  BY DEF RecordWatch
<1> HIDE DEF new
<1>3. /\ mailbox' \in MailboxRecords
      /\ \/ /\ mailbox'.in = mailbox.in /\ mailbox'.account = mailbox.account
            /\ mailbox'.from = mailbox.from /\ mailbox'.cursor = mailbox.cursor
            /\ mailbox'.created = mailbox.created /\ mailbox'.synced = mailbox.synced
            /\ mailbox'.full = mailbox.full
         \/ MakesMailbox(watcher.id)
  <2>1. CASE mailbox.in
    <3>1. mailbox' = [mailbox EXCEPT !.renewed = TRUE]
      BY <2>1 DEF RecordWatch
    <3> QED BY <1>t, <3>1, Renewing
  <2>2. CASE ~mailbox.in
    <3> DEFINE made == NewMailbox(watcher.id)
    <3>1. /\ made \in MailboxRecords /\ made.in /\ made.account = connector.account
          /\ made.from = watcher.id /\ made.cursor = watcher.id /\ made.created = mailClock
          /\ made.synced = 0
      BY <1>t, <1>i DEF NewMailbox, NoMailbox, MailboxRecords
    <3> HIDE DEF made
    <3>2. mailbox' = [made EXCEPT !.renewed = TRUE]
      BY <2>2 DEF RecordWatch, made
    <3> QED BY <2>2, <3>1, <3>2, Renewing DEF MakesMailbox
  <2> QED BY <2>1, <2>2
<1>4. /\ mailbox'.cursor <= mailClock
      /\ mailbox'.in => /\ mailbox'.account = connector.account
                        /\ mailbox'.created <= mailbox'.cursor + Overlap
                        /\ mailbox'.synced <= mailbox'.cursor + Overlap
      /\ MailIsNotLost'
  BY <1>u, <1>i, <1>3, MailboxKept
<1>5. ConnectorTypes'
  BY <1>t, <1>u, <1>1, <1>2, <1>3, NoneTypes DEF ConnectorTypes
<1>6. NothingAhead' /\ PagesFollow' /\ SyncCovers' /\ WithinOverlap'
  BY <1>t, <1>u, <1>1, <1>2, <1>4, NoneTypes
     DEF NothingAhead, PagesFollow, SyncCovers, MayLeaveOut, WithinOverlap
<1>7. SignedIn'
  BY <1>t, <1>u, <1>i, <1>1, <1>2, <1>4, NoneTypes DEF SignedIn
<1>8. AckedIsAsked'
  BY <1>t, <1>u, <1>i, <1>1, <1>2, <1>3 DEF AckedIsAsked, MakesMailbox
<1> QED BY <1>4, <1>5, <1>6, <1>7, <1>8

\* WatchFails keeps the invariant.
LEMMA WatchFailsStep ==
    ASSUME ConnectorInv, WatchFails PROVE ConnectorInv'
<1> USE DEF ConnectorInv
<1>u. UNCHANGED <<mail, mailClock, oldest, watched, topic, credential, mailbox, sync, puller,
                  stored, alerts, acked>>
  BY DEF WatchFails, google, book
<1>t. connector \in ConnectorRecords /\ watcher' = NoWatch /\ mailClock \in Nat
  BY ConnectorAssumption DEF ConnectorTypes, WatchFails
<1> DEFINE new == [connector EXCEPT !.initialized = TRUE]
<1>1. /\ new \in ConnectorRecords /\ new.account = connector.account
      /\ new.up = connector.up /\ new.fresh = connector.fresh /\ new.due = connector.due
      /\ new.again = connector.again /\ new.credential = connector.credential
  BY <1>t DEF ConnectorRecords
<1>2. connector' = new
  BY DEF WatchFails
<1> HIDE DEF new
<1>3. upsets' \in 0..MaxUpsets
  BY ConnectorAssumption DEF WatchFails, Upset, ConnectorTypes
<1>4. ConnectorTypes'
  BY <1>t, <1>u, <1>1, <1>2, <1>3, NoneTypes DEF ConnectorTypes
<1>5. SignedIn' /\ AckedIsAsked'
  BY <1>t, <1>u, <1>1, <1>2, NoneTypes DEF SignedIn, AckedIsAsked
<1>6. acked' <= mailClock /\ watcher'.id <= mailClock /\ watcher'.pc # "record"
  BY <1>t, <1>u, NoneTypes DEF NothingAhead
<1> QED BY <1>u, <1>1, <1>2, <1>4, <1>5, <1>6, QuietStep

\* Pull keeps the invariant: what is pulled was published.
LEMMA PullingStep ==
    ASSUME ConnectorInv, Pull PROVE ConnectorInv'
<1> USE DEF ConnectorInv
<1>u. UNCHANGED <<mail, mailClock, oldest, watched, topic, credential, mailbox, sync, watcher,
                  stored, alerts, acked>>
  BY DEF Pull, google, book
<1>t. connector \in ConnectorRecords /\ topic \subseteq Notifications
  BY DEF ConnectorTypes
<1>1. CASE ~Identified
  BY <1>1, <1>u, RefusedStep DEF Pull
<1>2. CASE Identified
  <2> DEFINE new == [connector EXCEPT !.account = connector.credential]
  <2>1. /\ new \in ConnectorRecords /\ new.account = connector.credential
        /\ new.up = connector.up /\ new.fresh = connector.fresh /\ new.due = connector.due
        /\ new.again = connector.again /\ new.credential = connector.credential
    BY <1>t DEF ConnectorRecords
  <2>2. connector' = new /\ connector.up
    BY <1>2 DEF Pull, Watching
  <2> HIDE DEF new
  <2>3. puller' \subseteq topic /\ upsets' \in 0..MaxUpsets
    BY <1>2, ConnectorAssumption DEF Pull, Upset, ConnectorTypes
  <2>4. ConnectorTypes'
    BY <1>t, <1>u, <2>1, <2>2, <2>3 DEF ConnectorTypes
  <2>5. watcher'.id <= mailClock
    BY <1>u DEF NothingAhead
  <2> QED BY <1>2, <1>u, <2>1, <2>2, <2>3, <2>4, <2>5, IdentifiedStep
<1> QED BY <1>1, <1>2

\* What is acknowledged has been announced, and asks for a sync of its own.
LEMMA AcknowledgeStep ==
    ASSUME ConnectorInv, Acknowledge PROVE ConnectorInv'
<1> USE DEF ConnectorInv
<1>u. UNCHANGED <<mail, mailClock, oldest, watched, credential, mailbox, sync, watcher,
                  stored, alerts, upsets>>
  BY DEF Acknowledge
<1>t. /\ connector \in ConnectorRecords /\ sync \in SyncRecords /\ mailClock \in Nat /\ acked \in Nat
      /\ puller \subseteq Notifications /\ connector.account # NoAccount
  BY ConnectorAssumption DEF ConnectorTypes, Acknowledge, SignedIn
<1> DEFINE due == [connector EXCEPT !.due = TRUE]
           again == [connector EXCEPT !.again = TRUE]
<1>1. /\ due \in ConnectorRecords /\ due.account = connector.account /\ due.due
      /\ due.up = connector.up /\ due.fresh = connector.fresh /\ due.again = connector.again
      /\ due.credential = connector.credential
  BY <1>t DEF ConnectorRecords
<1>2. /\ again \in ConnectorRecords /\ again.account = connector.account /\ again.again
      /\ again.up = connector.up /\ again.fresh = connector.fresh /\ again.due = connector.due
      /\ again.credential = connector.credential
  BY <1>t DEF ConnectorRecords
<1>3. connector' = IF sync.pc = "idle" THEN due ELSE again
  BY DEF Acknowledge, RequestSync
<1> HIDE DEF due, again
<1>4. /\ connector' \in ConnectorRecords /\ connector'.account = connector.account
      /\ connector'.up = connector.up /\ connector'.fresh = connector.fresh
      /\ connector'.credential = connector.credential
      /\ IF sync.pc = "idle" THEN connector'.due ELSE connector'.again
  BY <1>1, <1>2, <1>3
<1>5. acked' \in Nat /\ acked' <= mailClock
  <2> DEFINE S == {acked} \cup {n.id : n \in Own(puller)}
  <2>1. S \in SUBSET (0..mailClock)
    <3>1. \A n \in puller : n.id \in Nat /\ n.id <= mailClock
      BY <1>t DEF NothingAhead, Notifications
    <3> QED BY <1>t, <3>1 DEF NothingAhead, Own
  <2>2. acked' = Latest(S)
    BY DEF Acknowledge
  <2> HIDE DEF S
  <2> QED BY <1>t, <2>1, <2>2, LatestIs
<1>6. topic' \subseteq topic /\ puller' = {}
  BY DEF Acknowledge
<1>7. ConnectorTypes'
  BY <1>u, <1>4, <1>5, <1>6 DEF ConnectorTypes
<1>8. SignedIn' /\ AckedIsAsked'
  BY <1>t, <1>u, <1>4, <1>6 DEF SignedIn, AckedIsAsked
<1>9. watcher'.id <= mailClock /\ (watcher'.pc = "record" => mailClock <= watcher'.id + Overlap)
  BY <1>u DEF NothingAhead, WithinOverlap
<1> QED BY <1>u, <1>4, <1>5, <1>6, <1>7, <1>8, <1>9, QuietStep

-----------------------------------------------------------------------------
(* The sync. *)

\* A step of the sync before its commit.
LEMMA SyncStepKeeps ==
    ASSUME ConnectorInv, sync.pc # "idle", sync' \in SyncRecords, alerts' \subseteq AlertKinds,
           alerts \subseteq alerts',
           UNCHANGED <<mail, mailClock, oldest, watched, topic, credential, mailbox, connector,
                       watcher, puller, stored, acked, upsets>>,
           sync'.to <= mailClock /\ sync'.cursor <= mailClock /\ sync'.at <= mailClock,
           \A m \in sync'.refs : Owner[m] = connector.account,
           WithinOverlap', PagesFollow', SyncCovers', AckedIsAsked'
    PROVE  ConnectorInv'
<1> USE DEF ConnectorInv
<1>1. ConnectorTypes'
  BY DEF ConnectorTypes
<1>2. NothingAhead' /\ SignedIn'
  BY DEF NothingAhead, SignedIn
<1>3. MailIsNotLost'
  BY DEF MailIsNotLost, Excused
<1> QED BY <1>1, <1>2, <1>3

\* BeginMailboxSync keeps the invariant: the sync starts at the row's cursor.
LEMMA BeginStep ==
    ASSUME ConnectorInv, BeginMailboxSync PROVE ConnectorInv'
<1> USE DEF ConnectorInv
<1>u. UNCHANGED <<mail, mailClock, oldest, watched, topic, credential, mailbox, watcher, puller,
                  stored, alerts, acked, upsets>>
  BY DEF BeginMailboxSync, google, book
<1>t. /\ connector \in ConnectorRecords /\ mailbox \in MailboxRecords /\ sync \in SyncRecords
      /\ mailClock \in Nat /\ connector.up /\ sync.pc = "idle"
  BY ConnectorAssumption DEF ConnectorTypes, BeginMailboxSync
<1>1. CASE ~Identified
  BY <1>1, <1>u, RefusedStep DEF BeginMailboxSync
<1>2. CASE Identified
  <2> DEFINE new == [connector EXCEPT !.account = connector.credential, !.due = FALSE]
             page == [NoSync EXCEPT !.pc = "page", !.start = mailbox.cursor,
                                    !.cursor = mailbox.cursor, !.token = mailbox.cursor,
                                    !.since = LastInStep - Overlap]
             first == [NoSync EXCEPT !.pc = "first"]
  <2>1. /\ new \in ConnectorRecords /\ new.account = connector.credential
        /\ new.up = connector.up /\ new.fresh = connector.fresh
        /\ new.again = connector.again /\ new.credential = connector.credential
    BY <1>t DEF ConnectorRecords
  <2>2. LastInStep \in Nat /\ (mailbox.in => LastInStep <= mailbox.cursor + Overlap)
    <3>1. mailbox.created \in Nat /\ mailbox.synced \in Nat /\ mailbox.cursor \in Nat
      BY <1>t DEF MailboxRecords
    <3>2. LastInStep \in Nat /\ LastInStep \in {mailbox.created, mailbox.synced}
      BY <3>1, LatestOfTwo DEF LastInStep
    <3> QED BY <3>1, <3>2 DEF WithinOverlap
  <2> HIDE DEF LastInStep
  <2>3. /\ page \in SyncRecords /\ page.pc = "page" /\ page.cursor = mailbox.cursor
        /\ page.token = mailbox.cursor /\ page.since = LastInStep - Overlap /\ page.refs = {}
        /\ ~page.full /\ page.to = 0 /\ page.at = 0
    <3>1. mailbox.cursor \in Nat /\ LastInStep - Overlap \in Int /\ "page" \in SyncSteps
      BY <1>t, <2>2, ConnectorAssumption DEF MailboxRecords, SyncSteps
    <3> QED BY <3>1, NoneTypes DEF SyncRecords
  <2>4. /\ first \in SyncRecords /\ first.pc = "first" /\ first.cursor = 0 /\ first.refs = {}
        /\ first.to = 0 /\ first.at = 0
    BY NoneTypes DEF SyncRecords, SyncSteps
  <2>5. connector' = new /\ sync' = IF mailbox.in THEN page ELSE first
    BY <1>2 DEF BeginMailboxSync
  <2> HIDE DEF new, page, first
  <2>6. /\ sync' \in SyncRecords /\ sync'.pc \in {"page", "first"} /\ sync'.to = 0 /\ sync'.at = 0
        /\ sync'.refs = {} /\ sync'.cursor \in {0, mailbox.cursor}
    BY <2>3, <2>4, <2>5
  <2>7. /\ connector.credential \in Accounts /\ connector.credential # NoAccount
        /\ mailbox.in => mailbox.account = connector.credential
    BY <1>2, <1>t, Identifying
  <2>8. ConnectorTypes'
    BY <1>u, <2>1, <2>5, <2>6 DEF ConnectorTypes
  <2>9. NothingAhead'
    BY <1>t, <1>u, <2>6 DEF NothingAhead
  <2>10. SignedIn'
    BY <1>t, <1>u, <2>1, <2>5, <2>6, <2>7 DEF SignedIn
  <2>11. WithinOverlap' /\ PagesFollow'
    <3>1. CASE mailbox.in
      <4>1. LastInStep - Overlap <= mailbox.cursor
        BY <1>t, <2>2, <3>1, ConnectorAssumption DEF MailboxRecords
      <4> QED BY <1>u, <2>3, <2>5, <3>1, <4>1 DEF WithinOverlap, PagesFollow
    <3>2. CASE ~mailbox.in
      BY <1>u, <2>4, <2>5, <3>2 DEF WithinOverlap, PagesFollow
    <3> QED BY <3>1, <3>2
  <2>12. SyncCovers' /\ AckedIsAsked'
    BY <2>6 DEF SyncCovers, AckedIsAsked
  <2>13. MailIsNotLost'
    BY <1>u DEF MailIsNotLost, Excused
  <2> QED BY <2>8, <2>9, <2>10, <2>11, <2>12, <2>13
<1> QED BY <1>1, <1>2

\* The mailbox's present is read, before the cursor is made or the inbox is listed.
LEMMA PresentStep ==
    ASSUME ConnectorInv, ReadProfile \/ FullSync PROVE ConnectorInv'
<1> USE DEF ConnectorInv
<1>u. UNCHANGED <<mail, mailClock, oldest, watched, topic, credential, mailbox, connector, watcher,
                  puller, stored, alerts, acked, upsets>>
  BY DEF ReadProfile, FullSync, google, book
<1>t. sync \in SyncRecords /\ mailClock \in Nat /\ alerts \subseteq AlertKinds
  BY ConnectorAssumption DEF ConnectorTypes
<1>1. PICK pc \in {"start", "list"} :
        /\ sync' = [sync EXCEPT !.pc = pc, !.to = mailClock, !.at = mailClock]
        /\ sync.pc = IF pc = "start" THEN "first" ELSE "full"
  BY DEF ReadProfile, FullSync
<1>2. /\ sync' \in SyncRecords /\ sync'.pc = pc /\ sync'.to = mailClock /\ sync'.at = mailClock
      /\ sync'.cursor = sync.cursor /\ sync'.since = sync.since /\ sync'.full = sync.full
      /\ sync'.refs = sync.refs
  BY <1>t, <1>1 DEF SyncRecords, SyncSteps
<1>3. WithinOverlap' /\ PagesFollow'
  BY <1>t, <1>u, <1>1, <1>2, ConnectorAssumption DEF WithinOverlap, PagesFollow, NothingAhead
<1>4. SyncCovers' /\ AckedIsAsked'
  BY <1>t, <1>u, <1>1, <1>2 DEF SyncCovers, AckedIsAsked, NothingAhead
<1>5. \A m \in sync'.refs : Owner[m] = connector.account
  BY <1>2 DEF SignedIn
<1>6. sync'.to <= mailClock /\ sync'.cursor <= mailClock /\ sync'.at <= mailClock
  BY <1>t, <1>2 DEF NothingAhead
<1>7. sync.pc # "idle" /\ alerts' \subseteq AlertKinds /\ alerts \subseteq alerts'
  BY <1>t, <1>u, <1>1
<1> QED BY <1>u, <1>2, <1>3, <1>4, <1>5, <1>6, <1>7, SyncStepKeeps

\* The end of a sync, as the loops' shared record tells it.
LEMMA Ending ==
    ASSUME ConnectorTypes, NEW present \in BOOLEAN, EndMailboxSync(connector, present)
    PROVE  /\ connector' \in ConnectorRecords /\ connector'.account = connector.account
           /\ connector'.up = connector.up /\ connector'.credential = connector.credential
           /\ connector'.fresh = present /\ ~connector'.again
           /\ connector'.due = (connector.due \/ connector.again)
           /\ sync' = NoSync
<1>1. connector \in ConnectorRecords
  BY DEF ConnectorTypes
<1>2. connector' = [connector EXCEPT !.due = connector.due \/ connector.again, !.again = FALSE,
                                     !.fresh = present]
      /\ sync' = NoSync
  BY DEF EndMailboxSync
<1> QED BY <1>1, <1>2 DEF ConnectorRecords

\* A sync that ends without reaching the mailbox's present.
LEMMA EndedStep ==
    ASSUME ConnectorInv, EndMailboxSync(connector, FALSE), sync.pc # "idle",
           UNCHANGED <<mail, mailClock, oldest, watched, topic, credential, watcher, puller, stored,
                       alerts, acked>>,
           upsets' \in 0..MaxUpsets,
           \/ UNCHANGED mailbox
           \/ mailbox' \in MailboxRecords /\ MakesMailbox(sync.to) /\ sync.pc = "start"
    PROVE  ConnectorInv'
<1> USE DEF ConnectorInv
<1>t. /\ sync \in SyncRecords /\ mailClock \in Nat /\ mailbox \in MailboxRecords
      /\ connector.account # NoAccount
  BY ConnectorAssumption DEF ConnectorTypes, SignedIn
<1>1. /\ connector' \in ConnectorRecords /\ connector'.account = connector.account
      /\ connector'.up = connector.up /\ connector'.credential = connector.credential
      /\ ~connector'.fresh /\ sync' = NoSync
  BY Ending
<1>2. /\ mailbox' \in MailboxRecords /\ mailbox'.cursor <= mailClock
      /\ mailbox'.in => /\ mailbox'.account = connector.account
                        /\ mailbox'.created <= mailbox'.cursor + Overlap
                        /\ mailbox'.synced <= mailbox'.cursor + Overlap
      /\ MailIsNotLost'
  <2>1. CASE UNCHANGED mailbox
    BY <1>t, <2>1 DEF NothingAhead, SignedIn, WithinOverlap, MailIsNotLost, Excused
  <2>2. CASE mailbox' \in MailboxRecords /\ MakesMailbox(sync.to) /\ sync.pc = "start"
    <3>1. sync.to \in Nat /\ sync.to <= mailClock /\ mailClock <= sync.to + Overlap
      BY <1>t, <2>2 DEF SyncRecords, NothingAhead, WithinOverlap
    <3> QED BY <1>t, <2>2, <3>1, MailboxKept
  <2> QED BY <2>1, <2>2
<1>3. ConnectorTypes'
  BY <1>1, <1>2, NoneTypes DEF ConnectorTypes
<1>4. NothingAhead' /\ WithinOverlap' /\ PagesFollow'
  BY <1>t, <1>1, <1>2, NoneTypes DEF NothingAhead, WithinOverlap, PagesFollow
<1>5. SignedIn' /\ SyncCovers' /\ AckedIsAsked'
  BY <1>t, <1>1, <1>2, NoneTypes DEF SignedIn, SyncCovers, AckedIsAsked
<1> QED BY <1>2, <1>3, <1>4, <1>5

\* StartMailbox keeps the invariant: a new row starts where the profile was read.
LEMMA StartMailboxStep ==
    ASSUME ConnectorInv, StartMailbox PROVE ConnectorInv'
<1> USE DEF ConnectorInv
<1>u. UNCHANGED <<mail, mailClock, oldest, watched, topic, credential, watcher, puller, stored,
                  alerts, acked, upsets>>
  BY DEF StartMailbox, google, book
<1>t. /\ sync \in SyncRecords /\ mailClock \in Nat /\ connector \in ConnectorRecords
      /\ upsets \in 0..MaxUpsets
  BY ConnectorAssumption DEF ConnectorTypes
<1>1. \/ UNCHANGED mailbox
      \/ mailbox' \in MailboxRecords /\ MakesMailbox(sync.to) /\ sync.pc = "start"
  <2>1. CASE mailbox.in
    BY <2>1 DEF StartMailbox
  <2>2. CASE ~mailbox.in
    <3> DEFINE made == NewMailbox(sync.to)
    <3>1. /\ made \in MailboxRecords /\ made.in /\ made.account = connector.account
          /\ made.from = sync.to /\ made.cursor = sync.to /\ made.created = mailClock
          /\ made.synced = 0
      BY <1>t DEF NewMailbox, NoMailbox, MailboxRecords, SyncRecords, ConnectorRecords
    <3> HIDE DEF made
    <3>2. mailbox' = made /\ sync.pc = "start"
      BY <2>2 DEF StartMailbox, made
    <3> QED BY <2>2, <3>1, <3>2 DEF MakesMailbox
  <2> QED BY <2>1, <2>2
<1>2. EndMailboxSync(connector, FALSE) /\ sync.pc # "idle"
  BY DEF StartMailbox
<1> QED BY <1>t, <1>u, <1>1, <1>2, EndedStep

\* MailboxSyncFails keeps the invariant: the cursor stays put.
LEMMA FailsStep ==
    ASSUME ConnectorInv, MailboxSyncFails PROVE ConnectorInv'
<1>1. upsets' \in 0..MaxUpsets
  BY ConnectorAssumption DEF MailboxSyncFails, Upset, ConnectorInv, ConnectorTypes
<1> QED BY <1>1, EndedStep DEF MailboxSyncFails, google, book

\* A page is the first records of those that are left, and there is one as long as some are.
LEMMA PageIs ==
    ASSUME NEW b \in Nat, NEW S \in SUBSET (0..b)
    PROVE  /\ PageOf(S) \subseteq S /\ (S # {} => PageOf(S) # {})
           /\ \A k \in PageOf(S) : \A i \in S : i <= k => i \in PageOf(S)
<1> DEFINE Before(i) == {j \in S : j < i}
<1>1. PageSize \in Nat /\ 0 < PageSize
  BY ConnectorAssumption
<1>n. \A x \in S : x \in Nat /\ x <= b
  OBVIOUS
<1>2. IsFiniteSet(S)
  BY <1>n, FS_BoundedSetOfNaturals
<1>3. \A i \in S : IsFiniteSet(Before(i)) /\ Cardinality(Before(i)) \in Nat
  <2> SUFFICES ASSUME NEW i \in S
               PROVE  IsFiniteSet(Before(i)) /\ Cardinality(Before(i)) \in Nat
    OBVIOUS
  <2>1. Before(i) \in SUBSET S
    OBVIOUS
  <2> QED BY <1>2, <2>1, FS_Subset, FS_CardinalityType
<1>4. PageOf(S) = {i \in S : Cardinality(Before(i)) < PageSize}
  BY DEF PageOf
<1>5. S # {} => PageOf(S) # {}
  <2> SUFFICES ASSUME S # {} PROVE PageOf(S) # {}
    OBVIOUS
  <2>1. PICK n \in S : \A m \in S : n <= m
    BY LeastExists
  <2>2. \A j \in S : ~(j < n)
    BY <1>n, <2>1
  <2>3. Before(n) = {}
    BY <2>2
  <2>4. Cardinality(Before(n)) = 0
    BY <2>3, FS_EmptySet
  <2> QED BY <1>1, <1>4, <2>4
<1>6. ASSUME NEW k \in PageOf(S), NEW i \in S, i <= k PROVE i \in PageOf(S)
  <2>1. k \in S /\ Cardinality(Before(k)) < PageSize
    BY <1>4, <1>6
  <2>2. Before(i) \in SUBSET Before(k)
    <3>1. \A j \in S : j < i => j < k
      BY <1>n, <1>6, <2>1
    <3> QED BY <3>1
  <2>3. Cardinality(Before(i)) <= Cardinality(Before(k))
    BY <1>3, <2>1, <2>2, FS_Subset
  <2>4. Cardinality(Before(i)) \in Nat /\ Cardinality(Before(k)) \in Nat
    BY <1>3, <1>6, <2>1
  <2>5. Cardinality(Before(i)) < PageSize
    BY <1>1, <2>1, <2>3, <2>4
  <2> QED BY <1>4, <1>6, <2>5
<1> QED BY <1>4, <1>5, <1>6

\* The newest history id of a message that has any is one of its records.
LEMMA NewestIsRecord ==
    ASSUME ConnectorInv, NEW m \in Messages
    PROVE  /\ Latest(mail[m].records) \in Nat
           /\ Latest(mail[m].records) > 0 => Latest(mail[m].records) \in mail[m].records
<1>1. mail[m].records \in SUBSET (0..mailClock) /\ mailClock \in Nat
  BY ConnectorAssumption DEF ConnectorInv, NothingAhead, ConnectorTypes
<1> QED BY <1>1, LatestIs

\* FetchPage keeps the invariant: a page that is not the last ends at the next one's start
\* (listHistory).
LEMMA FetchStep ==
    ASSUME ConnectorInv, FetchPage PROVE ConnectorInv'
<1> USE DEF ConnectorInv
<1>u. UNCHANGED <<mail, mailClock, oldest, watched, topic, credential, mailbox, connector, watcher,
                  puller, stored, alerts, acked, upsets>>
  BY DEF FetchPage, google, book
<1>t. /\ sync \in SyncRecords /\ mailClock \in Nat /\ sync.pc = "page" /\ alerts \subseteq AlertKinds
      /\ acked \in Nat
  BY ConnectorAssumption DEF ConnectorTypes, FetchPage
<1>i. /\ sync.cursor \in Nat /\ sync.token \in Nat /\ sync.token = sync.cursor /\ ~sync.full
      /\ sync.cursor <= mailClock /\ sync.since \in Int /\ sync.since <= sync.cursor
      /\ acked <= mailClock /\ sync.at <= mailClock /\ sync.to <= mailClock
  BY <1>t DEF SyncRecords, NothingAhead, PagesFollow, WithinOverlap
<1>1. CASE sync.start < oldest
  <2>1. sync' = [sync EXCEPT !.pc = "full"]
    BY <1>1 DEF FetchPage
  <2>2. /\ sync' \in SyncRecords /\ sync'.pc = "full" /\ sync'.cursor = sync.cursor
        /\ sync'.since = sync.since /\ sync'.full = sync.full /\ sync'.refs = sync.refs
        /\ sync'.to = sync.to /\ sync'.at = sync.at
    BY <1>t, <2>1 DEF SyncRecords, SyncSteps
  <2>3. WithinOverlap' /\ PagesFollow' /\ SyncCovers' /\ AckedIsAsked'
    BY <1>u, <1>i, <2>2 DEF WithinOverlap, PagesFollow, SyncCovers, AckedIsAsked
  <2>4. \A m \in sync'.refs : Owner[m] = connector.account
    BY <2>2 DEF SignedIn
  <2> QED BY <1>t, <1>u, <1>i, <2>2, <2>3, <2>4, SyncStepKeeps
<1>2. CASE ~(sync.start < oldest)
  <2> DEFINE after == {i \in RecordsOf(connector.account) : i > sync.token}
             page == PageOf(after)
             X == IF page = after THEN mailClock ELSE Latest(page)
             to == Latest({sync.cursor, X})
             refs == {m \in Messages : Owner[m] = connector.account
                                       /\ mail[m].records \cap page # {}}
  <2>1. /\ sync'.pc = "read" /\ sync'.last = (page = after) /\ sync'.at = mailClock
        /\ sync'.token = Latest(page) /\ sync'.to = to /\ sync'.refs = refs
        /\ sync'.cursor = sync.cursor /\ sync'.since = sync.since /\ sync'.full = sync.full
        /\ (to \in Nat /\ refs \subseteq Messages /\ Latest(page) \in Nat => sync' \in SyncRecords)
    <3>1. sync' = [sync EXCEPT !.pc = "read", !.last = (page = after), !.at = mailClock,
                               !.token = Latest(page), !.to = to, !.refs = refs]
      BY <1>2 DEF FetchPage
    <3> HIDE DEF page, to, refs
    <3> QED BY <1>t, <3>1 DEF SyncRecords, SyncSteps
  <2>2. after \in SUBSET (0..mailClock)
    BY DEF RecordsOf, NothingAhead
  <2>3. /\ page \subseteq after /\ (after # {} => page # {})
        /\ \A k \in page : \A i \in after : i <= k => i \in page
    BY <1>t, <2>2, PageIs
  <2>4. \A m \in Messages : \A i \in mail[m].records :
          Owner[m] = connector.account /\ i > sync.token => i \in after
    BY DEF RecordsOf
  <2>5. \A i \in after : i > sync.token
    OBVIOUS
  <2> HIDE DEF after, page
  <2>6. /\ Latest(page) \in page \cup {0} /\ Latest(page) \in 0..mailClock
        /\ \A k \in page : k <= Latest(page)
    BY <1>t, <2>2, <2>3, LatestIs
  <2>7. X \in Nat /\ X <= mailClock
    BY <1>t, <2>6
  <2>8. to \in Nat /\ to \in {sync.cursor, X} /\ sync.cursor <= to /\ X <= to
    BY <1>i, <2>7, LatestOfTwo
  <2> HIDE DEF to
  <2>9. page = after => to = mailClock
    BY <1>t, <1>i, <2>7, <2>8
  <2>10. page # after => Latest(page) \in page /\ to = Latest(page)
    <3> SUFFICES ASSUME page # after PROVE Latest(page) \in page /\ to = Latest(page)
      OBVIOUS
    <3>1. PICK k \in page : TRUE
      BY <2>3
    <3>2. k \in 0..mailClock /\ k > sync.token /\ k <= Latest(page)
      BY <2>2, <2>3, <2>5, <2>6, <3>1
    <3>3. Latest(page) > sync.token
      BY <1>t, <1>i, <2>6, <3>2
    <3> QED BY <1>i, <2>6, <2>8, <3>3
  <2> HIDE DEF X
  <2>11. sync' \in SyncRecords
    <3>1. refs \subseteq Messages /\ Latest(page) \in Nat
      BY <1>t, <2>6
    <3> QED BY <2>1, <2>8, <3>1
  <2>12. WithinOverlap' /\ PagesFollow'
    <3>1. mailClock <= mailClock + Overlap
      BY <1>t, ConnectorAssumption
    <3> HIDE DEF refs
    <3>2. sync'.last => sync'.at <= sync'.to
      <4>1. sync'.last => page = after
        BY <2>1, Zenon
      <4> QED BY <1>t, <2>1, <2>9, <4>1
    <3>3. WithinOverlap'
      BY <1>t, <1>u, <1>i, <2>1, <3>1, <3>2 DEF WithinOverlap
    <3> QED BY <1>i, <2>1, <2>8, <2>10, <3>3 DEF PagesFollow
  <2>13. AckedIsAsked'
    BY <1>u, <1>i, <2>1, <2>9 DEF AckedIsAsked
  <2>14. SyncCovers'
    <3> SUFFICES ASSUME NEW m \in Messages, Owner[m] = connector.account,
                        sync.cursor < Latest(mail[m].records), Latest(mail[m].records) <= to
                 PROVE  m \in refs
      BY <1>u, <2>1 DEF SyncCovers
    <3>1. Latest(mail[m].records) \in Nat /\ Latest(mail[m].records) \in mail[m].records
      BY <1>i, NewestIsRecord
    <3>2. Latest(mail[m].records) \in after
      BY <1>i, <2>4, <3>1
    <3>3. Latest(mail[m].records) \in page
      BY <2>3, <2>10, <3>2
    <3> QED BY <3>1, <3>3
  <2>15. \A m \in sync'.refs : Owner[m] = connector.account
    BY <2>1
  <2>16. sync'.to <= mailClock /\ sync'.cursor <= mailClock /\ sync'.at <= mailClock
    BY <1>t, <1>i, <2>1, <2>7, <2>8
  <2> QED BY <1>t, <1>u, <2>11, <2>12, <2>13, <2>14, <2>15, <2>16, SyncStepKeeps
<1> QED BY <1>1, <1>2

\* ReadMessages keeps the invariant: what it drops is not in the inbox, or cannot be read.
LEMMA ReadStep ==
    ASSUME ConnectorInv, ReadMessages PROVE ConnectorInv'
<1> USE DEF ConnectorInv
<1>u. UNCHANGED <<mail, mailClock, oldest, watched, topic, credential, mailbox, connector, watcher,
                  puller, stored, acked, upsets>>
  BY DEF ReadMessages, google
<1>t. sync \in SyncRecords /\ sync.pc = "read" /\ alerts \subseteq AlertKinds
  BY DEF ConnectorTypes, ReadMessages
<1> DEFINE kept == {m \in sync.refs : Admitted(m) /\ Normalized(m)}
<1>1. /\ alerts' \subseteq AlertKinds /\ alerts \subseteq alerts'
      /\ (\E m \in sync.refs : Admitted(m) /\ ~Normalized(m)) => "unreadable" \in alerts'
  BY <1>t DEF ReadMessages, AlertKinds
<1>2. sync' = [sync EXCEPT !.pc = "commit", !.refs = kept]
  BY DEF ReadMessages
<1>3. kept \subseteq sync.refs /\ sync.refs \subseteq Messages
  BY <1>t DEF SyncRecords
<1>4. \A m \in sync.refs : m \in kept \/ MayLeaveOut(m)'
  <2> SUFFICES ASSUME NEW m \in sync.refs, m \notin kept PROVE MayLeaveOut(m)'
    OBVIOUS
  <2>0. sync'.full = sync.full
    <3> HIDE DEF kept
    <3> QED BY <1>t, <1>2 DEF SyncRecords
  <2>1. mail[m].label \in Labels
    BY <1>3 DEF ConnectorTypes, MailStates
  <2>2. CASE ~Admitted(m)
    BY <1>u, <2>0, <2>1, <2>2 DEF Admitted, Labels, MayLeaveOut
  <2>3. CASE Admitted(m) /\ ~Normalized(m)
    BY <1>u, <1>1, <2>3 DEF Normalized, MayLeaveOut
  <2> QED BY <2>2, <2>3
<1> HIDE DEF kept
<1>5. /\ sync' \in SyncRecords /\ sync'.pc = "commit" /\ sync'.refs = kept
      /\ sync'.cursor = sync.cursor /\ sync'.to = sync.to /\ sync'.at = sync.at
      /\ sync'.since = sync.since /\ sync'.last = sync.last /\ sync'.full = sync.full
      /\ sync'.token = sync.token
  BY <1>t, <1>2, <1>3 DEF SyncRecords, SyncSteps
<1>6. WithinOverlap' /\ PagesFollow' /\ AckedIsAsked'
  BY <1>t, <1>u, <1>5 DEF WithinOverlap, PagesFollow, AckedIsAsked
<1>7. SyncCovers'
  <2> SUFFICES ASSUME NEW m \in Messages, Owner[m] = connector.account,
                      sync.cursor < Latest(mail[m].records), Latest(mail[m].records) <= sync.to
               PROVE  m \in kept \/ MayLeaveOut(m)'
    BY <1>u, <1>5 DEF SyncCovers
  <2>1. m \in sync.refs \/ MayLeaveOut(m)
    BY <1>t DEF SyncCovers
  <2>2. MayLeaveOut(m) => MayLeaveOut(m)'
    BY <1>u, <1>1, <1>5 DEF MayLeaveOut
  <2> QED BY <1>4, <2>1, <2>2
<1>8. \A m \in sync'.refs : Owner[m] = connector.account
  BY <1>3, <1>5 DEF SignedIn
<1>9. sync'.to <= mailClock /\ sync'.cursor <= mailClock /\ sync'.at <= mailClock
  BY <1>5 DEF NothingAhead
<1> QED BY <1>t, <1>u, <1>1, <1>5, <1>6, <1>7, <1>8, <1>9, SyncStepKeeps

\* ListInbox keeps the invariant: a full sync lists what came after its start.
LEMMA ListStep ==
    ASSUME ConnectorInv, ListInbox PROVE ConnectorInv'
<1> USE DEF ConnectorInv
<1>u. UNCHANGED <<mail, mailClock, oldest, watched, topic, credential, mailbox, connector, watcher,
                  puller, stored, acked, upsets>>
  BY DEF ListInbox, google
<1>t. sync \in SyncRecords /\ sync.pc = "list" /\ alerts \subseteq AlertKinds
  BY DEF ConnectorTypes, ListInbox
<1> DEFINE listed == {m \in Messages : Owner[m] = connector.account /\ mail[m].label = "inbox"
                                       /\ mail[m].received > sync.since}
           newest == {m \in listed :
                        Cardinality({n \in listed : mail[n].received > mail[m].received})
                          < MaxListed}
<1>1. /\ sync' = [sync EXCEPT !.pc = "read", !.full = TRUE, !.last = TRUE, !.refs = newest]
      /\ alerts' = IF newest # listed THEN alerts \cup {"truncated"} ELSE alerts
  BY DEF ListInbox
<1>2. newest \subseteq listed /\ listed \subseteq Messages
      /\ \A m \in listed : Owner[m] = connector.account
  OBVIOUS
<1>3. \A m \in Messages : Owner[m] = connector.account /\ mail[m].label = "inbox"
                          /\ mail[m].received > sync.since => m \in listed
  OBVIOUS
<1> HIDE DEF listed, newest
<1>4. /\ alerts' \subseteq AlertKinds /\ alerts \subseteq alerts'
      /\ newest # listed => "truncated" \in alerts'
  BY <1>t, <1>1 DEF AlertKinds
<1>5. /\ sync' \in SyncRecords /\ sync'.pc = "read" /\ sync'.refs = newest
      /\ sync'.cursor = sync.cursor /\ sync'.to = sync.to /\ sync'.at = sync.at
      /\ sync'.since = sync.since /\ sync'.last /\ sync'.full
  BY <1>t, <1>1, <1>2 DEF SyncRecords, SyncSteps
<1>6. sync.to \in Nat /\ sync.at \in Nat
  BY <1>t DEF SyncRecords
<1>7. WithinOverlap' /\ PagesFollow' /\ AckedIsAsked'
  BY <1>t, <1>u, <1>5, <1>6 DEF WithinOverlap, PagesFollow, AckedIsAsked
<1>8. SyncCovers'
  <2> SUFFICES ASSUME NEW m \in Messages, Owner[m] = connector.account,
                      sync.cursor < Latest(mail[m].records), ~MayLeaveOut(m)'
               PROVE  m \in newest
    BY <1>u, <1>5 DEF SyncCovers
  <2>1. mail[m].label \in Labels /\ mail[m].received \in Nat
    BY DEF ConnectorTypes, MailStates
  <2>2. /\ mail[m].label = "inbox" /\ mail[m].records = {mail[m].received}
        /\ newest = listed
    BY <1>u, <1>4, <1>5, <2>1 DEF MayLeaveOut, Labels
  <2>3. sync.cursor \in Nat /\ sync.since \in Int /\ sync.since <= sync.cursor
    BY <1>t DEF SyncRecords, WithinOverlap
  <2>4. Latest(mail[m].records) = mail[m].received
    BY <2>2, <2>3, NewestIsRecord
  <2>5. mail[m].received > sync.since
    BY <2>1, <2>3, <2>4
  <2> QED BY <1>3, <2>2, <2>5
<1>9. \A m \in sync'.refs : Owner[m] = connector.account
  BY <1>2, <1>5
<1>10. sync'.to <= mailClock /\ sync'.cursor <= mailClock /\ sync'.at <= mailClock
  BY <1>5 DEF NothingAhead
<1> QED BY <1>t, <1>u, <1>4, <1>5, <1>7, <1>8, <1>9, <1>10, SyncStepKeeps

\* The events and the cursor are committed together.
LEMMA CommitStep ==
    ASSUME ConnectorInv, CommitDelta PROVE ConnectorInv'
<1> USE DEF ConnectorInv
<1>u. UNCHANGED <<mail, mailClock, oldest, watched, topic, credential, watcher, puller, acked,
                  upsets>>
  BY DEF CommitDelta, google
<1>t. /\ sync \in SyncRecords /\ mailbox \in MailboxRecords /\ mailClock \in Nat
      /\ sync.pc = "commit" /\ alerts \subseteq AlertKinds /\ upsets \in 0..MaxUpsets
      /\ stored \subseteq Messages /\ acked \in Nat /\ connector \in ConnectorRecords
  BY ConnectorAssumption DEF ConnectorTypes, CommitDelta
<1>1. CASE ~(mailbox.in /\ mailbox.cursor = sync.cursor)
  BY <1>1, <1>t, <1>u, EndedStep DEF CommitDelta
<1>2. CASE mailbox.in /\ mailbox.cursor = sync.cursor
  <2>i. /\ sync.to \in Nat /\ sync.cursor \in Nat /\ sync.at \in Nat /\ sync.to <= mailClock
        /\ sync.cursor <= sync.to /\ mailClock <= sync.at + Overlap
        /\ sync.last => sync.at <= sync.to
        /\ ~sync.last => sync.token = sync.to /\ ~sync.full
        /\ sync.since \in Int /\ sync.since <= sync.cursor /\ sync.refs \subseteq Messages
        /\ sync.full \in BOOLEAN /\ sync.last \in BOOLEAN /\ connector.account # NoAccount
        /\ Overlap \in Nat
    BY <1>t, ConnectorAssumption
       DEF SyncRecords, NothingAhead, PagesFollow, WithinOverlap, SignedIn
  <2> DEFINE new == [mailbox EXCEPT !.cursor = Latest({mailbox.cursor, sync.to}),
                                    !.full = mailbox.full \/ sync.full,
                                    !.synced = IF sync.last THEN mailClock ELSE mailbox.synced]
  <2>1. Latest({mailbox.cursor, sync.to}) = sync.to
    BY <1>2, <2>i, LatestOfTwo
  <2>2. /\ new \in MailboxRecords /\ new.in = mailbox.in /\ new.account = mailbox.account
        /\ new.from = mailbox.from /\ new.cursor = sync.to /\ new.created = mailbox.created
        /\ new.full = (mailbox.full \/ sync.full)
        /\ new.synced = (IF sync.last THEN mailClock ELSE mailbox.synced)
    BY <1>t, <2>i, <2>1 DEF MailboxRecords
  <2>3. /\ mailbox' = new /\ stored' = stored \cup sync.refs
        /\ alerts' = IF sync.full THEN alerts \cup {"full_sync"} ELSE alerts
    BY <1>2 DEF CommitDelta
  <2> HIDE DEF new
  <2>4. /\ alerts' \subseteq AlertKinds /\ alerts \subseteq alerts' /\ stored' \subseteq Messages
        /\ sync.full => "full_sync" \in alerts'
    BY <1>t, <2>i, <2>3 DEF AlertKinds
  <2>5. MailIsNotLost'
    <3> SUFFICES ASSUME NEW m \in Messages, Owner[m] = mailbox.account,
                        mailbox.from < Latest(mail[m].records),
                        Latest(mail[m].records) <= sync.to
                 PROVE  m \in stored' \/ Excused(m)'
      BY <1>u, <2>2, <2>3 DEF MailIsNotLost
    <3>1. Latest(mail[m].records) \in Nat
      BY NewestIsRecord
    <3>2. CASE Latest(mail[m].records) <= mailbox.cursor
      <4>1. m \in stored \/ Excused(m)
        BY <1>2, <3>2 DEF MailIsNotLost
      <4>2. Excused(m) => Excused(m)'
        BY <1>u, <2>2, <2>3, <2>4 DEF Excused
      <4> QED BY <2>3, <4>1, <4>2
    <3>3. CASE sync.cursor < Latest(mail[m].records)
      <4>1. Owner[m] = connector.account
        BY <1>2, <2>i DEF SignedIn
      <4>2. m \in sync.refs \/ MayLeaveOut(m)
        BY <1>t, <3>3, <4>1 DEF SyncCovers
      <4>3. MayLeaveOut(m) => Excused(m)'
        BY <1>u, <2>2, <2>3, <2>4 DEF MayLeaveOut, Excused
      <4> QED BY <2>3, <4>2, <4>3
    <3> QED BY <1>2, <2>i, <3>1, <3>2, <3>3
  <2>6. /\ mailbox'.created <= mailbox'.cursor + Overlap
        /\ mailbox'.synced <= mailbox'.cursor + Overlap
    <3>1. /\ mailbox.created \in Nat /\ mailbox.synced \in Nat
          /\ mailbox.created <= sync.cursor + Overlap /\ mailbox.synced <= sync.cursor + Overlap
      BY <1>t, <1>2 DEF MailboxRecords, WithinOverlap
    <3> QED BY <1>t, <2>i, <2>2, <2>3, <3>1
  <2>7. CASE sync.last
    <3>1. /\ connector' \in ConnectorRecords /\ connector'.account = connector.account
          /\ connector'.up = connector.up /\ connector'.credential = connector.credential
          /\ connector'.due = (connector.due \/ connector.again) /\ sync' = NoSync
      BY <1>2, <2>7, Ending DEF CommitDelta
    <3>2. ConnectorTypes'
      BY <1>u, <2>2, <2>3, <2>4, <3>1, NoneTypes DEF ConnectorTypes
    <3>3. NothingAhead' /\ WithinOverlap' /\ PagesFollow'
      BY <1>t, <1>u, <2>i, <2>2, <2>3, <2>6, <3>1, NoneTypes
         DEF NothingAhead, WithinOverlap, PagesFollow
    <3>4. SignedIn' /\ SyncCovers'
      BY <1>u, <2>i, <2>2, <2>3, <3>1, NoneTypes DEF SignedIn, SyncCovers
    <3>5. AckedIsAsked'
      BY <1>t, <1>2, <1>u, <2>2, <2>3, <2>7, <3>1, NoneTypes DEF AckedIsAsked
    <3> QED BY <2>5, <3>2, <3>3, <3>4, <3>5
  <2>8. CASE ~sync.last
    <3>1. sync' = [sync EXCEPT !.pc = "page", !.cursor = sync.to] /\ UNCHANGED connector
      BY <1>2, <2>8 DEF CommitDelta
    <3>2. /\ sync' \in SyncRecords /\ sync'.pc = "page" /\ sync'.cursor = sync.to
          /\ sync'.to = sync.to /\ sync'.at = sync.at /\ sync'.refs = sync.refs
          /\ sync'.token = sync.token /\ sync'.full = sync.full /\ sync'.since = sync.since
      BY <1>t, <2>i, <3>1 DEF SyncRecords, SyncSteps
    <3>3. ConnectorTypes'
      BY <1>u, <2>2, <2>3, <2>4, <3>1, <3>2 DEF ConnectorTypes
    <3>4. NothingAhead' /\ WithinOverlap' /\ PagesFollow'
      BY <1>t, <1>u, <2>i, <2>2, <2>3, <2>6, <2>8, <3>2
         DEF NothingAhead, WithinOverlap, PagesFollow
    <3>5. SignedIn' /\ SyncCovers' /\ AckedIsAsked'
      BY <1>t, <1>u, <2>i, <2>2, <2>3, <3>1, <3>2 DEF SignedIn, SyncCovers, AckedIsAsked
    <3> QED BY <2>5, <3>3, <3>4, <3>5
  <2> QED BY <2>7, <2>8, <2>i
<1> QED BY <1>1, <1>2

-----------------------------------------------------------------------------
\* The invariant holds at first.
LEMMA ConnectorInitInv == ConnectorInit => ConnectorInv
<1> SUFFICES ASSUME ConnectorInit PROVE ConnectorInv
  OBVIOUS
<1>1. PICK mode \in ConnectorModes : connector = Down(mode)
  BY DEF ConnectorInit
<1>2. /\ connector \in ConnectorRecords /\ ~connector.up /\ connector.account = NoAccount
      /\ ~connector.fresh
  BY <1>1, DownType
<1> DEFINE none == [label |-> "absent", received |-> 0, records |-> {}]
<1>3. none \in MailStates /\ none.records = {}
  BY DEF MailStates, Labels
<1>4. mail = [m \in Messages |-> none]
  BY DEF ConnectorInit
<1> HIDE DEF none
<1>5. [account |-> FirstAccount, ok |-> TRUE] \in Credentials /\ 0 \in 0..MaxMail
      /\ 0 \in 0..MaxUpsets
  BY ConnectorAssumption DEF Credentials
<1>6. ConnectorTypes
  BY <1>2, <1>3, <1>4, <1>5, NoneTypes DEF ConnectorInit, ConnectorTypes
<1>7. NothingAhead /\ SignedIn
  BY <1>2, <1>3, <1>4, NoneTypes DEF ConnectorInit, NothingAhead, SignedIn
<1>8. WithinOverlap /\ PagesFollow /\ SyncCovers /\ AckedIsAsked /\ MailIsNotLost
  BY <1>2, NoneTypes
     DEF ConnectorInit, WithinOverlap, PagesFollow, SyncCovers, AckedIsAsked, MailIsNotLost
<1> QED BY <1>6, <1>7, <1>8 DEF ConnectorInv

\* Every step of the loops, of Gmail and of the operator keeps the invariant.
LEMMA ConnectorStep ==
    ASSUME ConnectorInv, [ConnectorNext]_connectorVars PROVE ConnectorInv'
<1>1. ASSUME NEW m \in Messages, ReceiveMail(m) \/ ReturnMail(m) PROVE ConnectorInv'
  <2>1. PICK fresh \in BOOLEAN : EnterInbox(m, fresh)
    BY <1>1 DEF ReceiveMail, ReturnMail
  <2>2. upsets' \in 0..MaxUpsets
    <3>1. upsets \in 0..MaxUpsets /\ MaxUpsets \in Nat
      BY ConnectorAssumption DEF ConnectorInv, ConnectorTypes
    <3>2. UNCHANGED upsets \/ Upset
      BY <1>1 DEF ReceiveMail, ReturnMail
    <3> QED BY <3>1, <3>2 DEF Upset
  <2> QED BY <2>1, <2>2, EnterStep
<1>2. CASE UNCHANGED connectorVars
  BY <1>2 DEF connectorVars, ConnectorInv, ConnectorTypes, NothingAhead, SignedIn, WithinOverlap,
              PagesFollow, SyncCovers, MayLeaveOut, AckedIsAsked, MailIsNotLost, Excused
<1>3. CASE ConnectorNext
  BY <1>1, <1>3, TakeAwayStep, OutsideStep, ResetStep, StopStep, StartStep, BeginStep, PresentStep,
     StartMailboxStep, FetchStep, ReadStep, CommitStep, ListStep, FailsStep, CheckWatchStep,
     CallWatchStep, RecordWatchStep, WatchFailsStep, PullingStep, AcknowledgeStep
     DEF ConnectorNext, SyncStep, WatchStep, PullStep
<1> QED BY <1>2, <1>3

\* The invariant always holds.
LEMMA ConnectorInvHolds == ConnectorSpec => []ConnectorInv
BY ConnectorInitInv, ConnectorStep, PTL DEF ConnectorSpec

\* The mailbox's row, the loops and what they have read keep their types; nothing acknowledged
\* is beyond the bound.
THEOREM ConnectorTypeCorrect == ConnectorSpec => []ConnectorTypeOK
<1>1. ConnectorInv => ConnectorTypeOK
  <2> SUFFICES ASSUME ConnectorInv PROVE ConnectorTypeOK
    OBVIOUS
  <2>1. acked \in 0..MaxMail
    BY ConnectorAssumption DEF ConnectorInv, ConnectorTypes, NothingAhead
  <2> QED BY <2>1 DEF ConnectorInv, ConnectorTypes, ConnectorTypeOK, MailboxRecords,
                      ConnectorRecords, SyncRecords, SyncSteps, WatchRecords, AlertKinds
<1> QED BY <1>1, ConnectorInvHolds, PTL

\* The cursor never passes mail nobody has read (the pages of listHistory, fullSync,
\* commitGmailDelta), for any number of messages, accounts, pages and failures.
THEOREM NoMailIsLost == ConnectorSpec => []MailIsNotLost
<1>1. ConnectorInv => MailIsNotLost
  BY DEF ConnectorInv
<1> QED BY <1>1, ConnectorInvHolds, PTL

\* A request for a sync is not lost to one that was already past what it was for (syncNow).
THEOREM RequestsAreMet == ConnectorSpec => []AckedIsSynced
<1>1. ConnectorInv => AckedIsSynced
  BY DEF ConnectorInv, AckedIsAsked, AckedIsSynced
<1> QED BY <1>1, ConnectorInvHolds, PTL

\* No mail is stored for a mailbox of another account (identify, commitGmailDelta).
THEOREM MailIsOwn == ConnectorSpec => NoForeignMail
<1>1. ConnectorInv /\ [ConnectorNext]_connectorVars =>
        [\A m \in stored' \ stored : Owner[m] = mailbox'.account]_connectorVars
  <2> SUFFICES ASSUME ConnectorInv, ConnectorNext
               PROVE  \A m \in stored' \ stored : Owner[m] = mailbox'.account
    OBVIOUS
  <2>1. CASE UNCHANGED stored
    BY <2>1
  <2>2. CASE CommitDelta /\ stored' # stored
    <3>1. /\ mailbox.in /\ stored' = stored \cup sync.refs /\ sync.pc = "commit"
          /\ mailbox' = [mailbox EXCEPT !.cursor = Latest({mailbox.cursor, sync.to}),
                             !.full = mailbox.full \/ sync.full,
                             !.synced = IF sync.last THEN mailClock ELSE mailbox.synced]
      BY <2>2 DEF CommitDelta
    <3>2. mailbox \in MailboxRecords
      BY DEF ConnectorInv, ConnectorTypes
    <3>3. mailbox'.account = mailbox.account
      BY <3>1, <3>2 DEF MailboxRecords
    <3>4. mailbox.account = connector.account /\ \A m \in sync.refs : Owner[m] = connector.account
      BY <3>1 DEF ConnectorInv, SignedIn
    <3> QED BY <3>1, <3>3, <3>4
  <2> QED BY <2>1, <2>2
          DEF ConnectorNext, ReceiveMail, ReturnMail, EnterInbox, TakeAway, LoseNotification,
              ForgetHistory, WatchExpires, LoseCredential, Authorize, ResetMailbox, StopConnector,
              StartConnector, SyncStep, BeginMailboxSync, ReadProfile, StartMailbox, FetchPage,
              ReadMessages, FullSync, ListInbox, MailboxSyncFails, WatchStep, CheckWatch,
              CallWatch, RecordWatch, WatchFails, PullStep, Pull, Acknowledge, AcknowledgeFails,
              book
<1> QED BY <1>1, ConnectorInvHolds, PTL DEF ConnectorSpec, NoForeignMail

=============================================================================
