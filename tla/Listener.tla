------------------------------ MODULE Listener ------------------------------
(***************************************************************************)
(* The Mattermost listener (packages/mattermost/listener.ts) and the       *)
(* catch-up records it reads posts by (source_cursors), for one channel.   *)
(*                                                                         *)
(* Frames of the WebSocket and syncs over REST become tasks of one chain,  *)
(* run one after another.  Nothing is acknowledged to Mattermost: the      *)
(* channel's cursor is the only progress marker.  Between two steps of a   *)
(* task Mattermost's users, the delivery of the outbox, an operator who    *)
(* edits the configuration, and a crash may come in.                       *)
(***************************************************************************)
EXTENDS Integers, Sequences, FiniteSets

CONSTANTS
    Posts,        \* the posts that may be made in the channel
    Threads,      \* what the posts may be: functions from Posts to Kinds
    Root,         \* the thread root a post answers, or None
    None,
    Margin,       \* syncMarginMs: how far behind its cursor a sync starts
    MaxTime,      \* bound: Mattermost's clock
    MaxGen,       \* bound: configuration generations
    MaxFaults,    \* bound: failed calls, lost frames and connections, and crashes
    ListenerFaults        \* some of ListenerFaultNames

\* "human": an ordinary post; "agent": a post of an agent's bot with a routing signature;
\* "card": an approval card, posted by the listener's own bot; "command": a human's approval
\* command in a card's thread.
Kinds == {"human", "agent", "card", "command"}

\* "error": a REST call or a query fails; "crash": the controller dies; "disconnect": the
\* WebSocket closes; "lose_frame": it drops a frame; "retire", "retire_asker": the agent
\* that writes the posts, or the one that asked for the approval, is retired while its
\* delivery is open; "directory": the first query of a sync, that of the directory, fails.
ListenerFaultNames ==
    {"error", "crash", "disconnect", "lose_frame", "retire", "retire_asker", "directory"}

ASSUME ListenerAssumption ==
    /\ Threads \subseteq [Posts -> Kinds]
    /\ Root \in [Posts -> Posts \cup {None}]
    /\ Margin \in Nat \ {0} /\ {MaxTime, MaxGen, MaxFaults} \subseteq Nat
    /\ ListenerFaults \subseteq ListenerFaultNames

VARIABLES
    now,          \* Mattermost's clock
    kind,         \* what each post is, one of Threads
    post,         \* each post: unmade, stamped, or visible; create_at, update_at, edited
    item,         \* of an agent's post or a card: the outbox item behind it
    retired,      \* whose agent is retired: the author of "agent" posts, the asker of a "card"
    channel,      \* the configuration's word on the channel, and its source_cursors
    task,         \* what the chain is at
    queue,        \* the tasks of the chain: a sync, or the frame of a change
    failing,      \* the channel has a change that failed
    socket,       \* the WebSocket: down, up, or up with a gap in its sequence
    faults,       \* failed calls, lost frames and connections, and crashes so far
    outcome,      \* what was recorded of each post's creation
    private       \* history: the posts that appeared while the channel was not managed

listenerVars == <<now, kind, post, item, retired, channel, task, queue, failing, socket, faults,
                  outcome, private>>
mattermost == <<now, kind, post, private>>
bridge == <<item, retired, channel>>
listener == <<task, queue, failing, socket, faults>>

Frames == [p: Posts \cup {None}, change: {"created", "edited", "sync"}, at: Nat, upd: Nat,
           edited: BOOLEAN]
SyncTask == [p |-> None, change |-> "sync", at |-> 0, upd |-> 0, edited |-> FALSE]
Idle == [pc |-> "idle", frame |-> SyncTask, since |-> 0, floor |-> 0, atFloor |-> {},
         newest |-> 0, gen |-> 0, todo |-> {}]
Recorded == {"created", "recovered", "decided"}

ListenerTypeOK ==
    /\ now \in 0..MaxTime /\ kind \in Threads
    /\ post \in [Posts -> [st: {"none", "stamped", "visible"}, at: Nat, upd: Nat, edited: BOOLEAN]]
    /\ item \in [Posts -> {"sending", "sent", "dead", "cancelled"}]
    /\ retired \subseteq Kinds
    /\ channel \in [managed: BOOLEAN, gen: Nat, left: Nat, started: BOOLEAN, cursor: Nat,
                    floor: Nat, atFloor: SUBSET Posts]
    /\ task \in [pc: {"idle", "live", "save", "scan", "start", "fetch", "next", "replay", "finish"},
                 frame: Frames, since: Nat, floor: Nat, atFloor: SUBSET Posts,
                 newest: Nat, gen: Nat, todo: SUBSET Frames]
    /\ queue \in Seq(Frames)
    /\ failing \in BOOLEAN
    /\ socket \in {"down", "up", "gap"}
    /\ faults \in 0..MaxFaults
    /\ outcome \in [Posts -> Recorded \cup {"none", "rejected", "skipped"}]
    /\ private \subseteq Posts

Visible == {p \in Posts : post[p].st = "visible"}
Larger(a, b) == IF a > b THEN a ELSE b
LargestOf(S) == CHOOSE n \in S \cup {0} : \A m \in S : m <= n

\* A call fails, a frame or the socket is lost, or the controller dies, once more.
Fault == faults < MaxFaults /\ faults' = faults + 1

-----------------------------------------------------------------------------
(* Mattermost. *)

\* A post is stamped when it is created and may be broadcast later than newer ones; the
\* sync's margin is meant to cover that, and the time a frame waits in the chain.
SettledPost(t) ==
    /\ \A p \in Posts : post[p].st = "stamped" => t < post[p].at + Margin
    /\ \A i \in DOMAIN queue : queue[i] # SyncTask => t < queue[i].at + Margin

\* Time goes on by a moment, or by longer than the margin.
Later == {t \in {now + 1, now + Margin + 1} : t <= MaxTime /\ SettledPost(t)}

Frame(p, change) ==
    [p |-> p, change |-> change, at |-> post'[p].at, upd |-> post'[p].upd,
     edited |-> post'[p].edited]

\* A sync at the end of the chain.  Bound: one that waits there already is enough.
WithSync ==
    IF queue # <<>> /\ queue[Len(queue)] = SyncTask /\ (Len(queue) > 1 \/ task.pc = "idle")
    THEN queue ELSE Append(queue, SyncTask)

\* onFrame: events dropped on the way show as a gap in the sequence when the next frame
\* arrives; the channels are read again before that frame is handled.
Arrive(f) ==
    /\ queue' = Append(IF socket = "gap" THEN WithSync ELSE queue, f)
    /\ socket' = "up"

Broadcast(f) ==
    \/ socket # "down" /\ Arrive(f) /\ UNCHANGED faults
    \/ socket = "down" /\ UNCHANGED <<queue, socket, faults>>
    \/ /\ "lose_frame" \in ListenerFaults /\ Fault
       /\ socket # "down" /\ socket' = "gap"
       /\ UNCHANGED queue

\* createPost, first half: the server stamps the post.  An agent's post and a
\* card are made by the delivery of their items.
Stamp(p) ==
    /\ post[p].st = "none"
    /\ Root[p] # None => Root[p] \in Visible
    /\ kind[p] \in {"agent", "card"} => item[p] = "sending"
    /\ \E t \in Later :
         /\ now' = t
         /\ post' = [post EXCEPT ![p] = [st |-> "stamped", at |-> t, upd |-> t, edited |-> FALSE]]
    /\ UNCHANGED <<kind, bridge, listener, outcome, private>>

\* Second half: the post can be read, and is broadcast.  A reply bumps its root's update_at.
Appear(p) ==
    /\ post[p].st = "stamped"
    /\ post' = [q \in Posts |->
                  IF q = p THEN [post[q] EXCEPT !.st = "visible"]
                  ELSE IF q = Root[p] THEN [post[q] EXCEPT !.upd = Larger(@, post[p].at)]
                  ELSE post[q]]
    /\ Broadcast(Frame(p, "created"))
    /\ private' = IF channel.managed THEN private ELSE private \cup {p}
    /\ UNCHANGED <<now, kind, bridge, task, failing, outcome>>

Edit(p) ==
    /\ post[p].st = "visible" /\ ~post[p].edited /\ kind[p] = "human"
    /\ \E t \in Later :
         /\ now' = t
         /\ post' = [post EXCEPT ![p] = [@ EXCEPT !.upd = t, !.edited = TRUE]]
    /\ Broadcast(Frame(p, "edited"))
    /\ UNCHANGED <<kind, bridge, task, failing, outcome, private>>

-----------------------------------------------------------------------------
(* The outbox and the operator, as far as the listener sees them. *)

\* The delivery behind an agent's post, or behind a card, is settled a moment after the
\* post was made.
Settle(p) ==
    /\ kind[p] \in {"agent", "card"} /\ item[p] = "sending" /\ post[p].st # "none"
    /\ \E s \in {"sent", "dead"} : item' = [item EXCEPT ![p] = s]
    /\ UNCHANGED <<mattermost, retired, channel, listener, outcome>>

\* requestAgentRetire, of the posts' author or of the one that asked for the approval: its
\* open items are cancelled, one that was just posted too, whose receipt is then never
\* written.
Retire(k) ==
    /\ (IF k = "agent" THEN "retire" ELSE "retire_asker") \in ListenerFaults
    /\ \E p \in Posts : kind[p] = k /\ item[p] = "sending"
    /\ retired' = retired \cup {k}
    /\ item' = [p \in Posts |-> IF kind[p] = k /\ item[p] = "sending"
                              THEN "cancelled" ELSE item[p]]
    /\ UNCHANGED <<mattermost, channel, listener, outcome>>

\* writeConfigRevisionIn takes the channel out: its catch-up goes with it, and the
\* generation it left in is marked.
Leave ==
    /\ channel.managed /\ channel.gen < MaxGen
    /\ channel' = [channel EXCEPT !.managed = FALSE, !.gen = @ + 1, !.left = channel.gen + 1,
                                  !.started = FALSE, !.cursor = 0, !.floor = 0, !.atFloor = {}]
    /\ UNCHANGED <<mattermost, item, retired, listener, outcome>>

\* A revision that names the channel again: its directory entry is still there.
Rejoin ==
    /\ ~channel.managed /\ channel.gen < MaxGen
    /\ channel' = [channel EXCEPT !.managed = TRUE, !.gen = @ + 1]
    /\ UNCHANGED <<mattermost, item, retired, listener, outcome>>

-----------------------------------------------------------------------------
(* The connection. *)

\* connect and the hello that follows: a sync before any frame.
Connect ==
    /\ socket = "down"
    /\ socket' = "up"
    /\ queue' = WithSync
    /\ UNCHANGED <<mattermost, bridge, task, failing, faults, outcome>>

\* onclose: a network loss, a silent socket, a rejected token.  The chain goes on.
Disconnect ==
    /\ "disconnect" \in ListenerFaults /\ Fault
    /\ socket # "down"
    /\ socket' = "down"
    /\ UNCHANGED <<mattermost, bridge, task, queue, failing, outcome>>

\* The controller dies and starts again with what the database holds.
Crash ==
    /\ "crash" \in ListenerFaults /\ Fault
    /\ socket' = "down" /\ queue' = <<>> /\ task' = Idle /\ failing' = FALSE
    /\ UNCHANGED <<mattermost, bridge, outcome>>

\* The periodic sync, and the resync scheduled after a failure.  Bound: only when the
\* chain is empty, since a sync behind other tasks starts when they are done.
SyncTimer ==
    /\ queue = <<>>
    /\ queue' = <<SyncTask>>
    /\ UNCHANGED <<mattermost, bridge, task, failing, socket, faults, outcome>>

-----------------------------------------------------------------------------
(* What one change of a post comes to. *)

\* pendingLive: the posts whose frame of creation is still queued.
PendingLive == {queue[i].p : i \in {j \in DOMAIN queue : queue[j].change = "created"}}

\* afterChannelStart, inside the transaction that stores the change.
Admits(p) ==
    /\ channel.managed /\ channel.started
    /\ \/ post[p].at > channel.floor
       \/ post[p].at = channel.floor /\ p \notin channel.atFloor

\* A change to be stored: the transaction admits it, or nothing is stored.
Stored(p, as) == IF Admits(p) THEN as ELSE "none"

\* A signed post counts only as the post its delivery's receipt names.  A retired agent
\* is not in the directory: its bot is any bot, and its words are stored without routing.
AgentPost(p, change) ==
    IF "agent" \in retired THEN Stored(p, change)
    ELSE IF change = "recovered" THEN Stored(p, "rejected")
    ELSE CASE item[p] = "dead" -> "rejected"
           [] item[p] \in {"sending", "cancelled"} -> "wait"
           [] item[p] = "sent" -> Stored(p, "created")

\* handleApprovalReply and approvalByCardPost: a card without a receipt that is not dead
\* is still being delivered; a dead one is no card.
CommandPost(p, change) ==
    LET card == item[Root[p]]
    IN IF change = "recovered" \/ ~Admits(p) \/ card = "dead" THEN Stored(p, change)
       ELSE IF card = "sent" THEN "decided"
       ELSE "wait"

\* handleChange and normalizePost, for a post's creation.
HandleChange(p, change) ==
    CASE kind[p] = "human" -> Stored(p, change)
      [] kind[p] = "agent" -> AgentPost(p, change)
      [] kind[p] = "card" -> "skipped"
      [] kind[p] = "command" -> CommandPost(p, change)

\* A creation is stored once (the event id is the post's, or its signed key).
Record(p, r) == outcome' = IF outcome[p] = "none" THEN [outcome EXCEPT ![p] = r] ELSE outcome

-----------------------------------------------------------------------------
(* The chain: a frame. *)

Done == task' = Idle /\ queue' = Tail(queue)

\* handleLive: a channel with an unprocessed change is left to the resync.
BeginLive ==
    /\ task.pc = "idle" /\ queue # <<>> /\ Head(queue) # SyncTask
    /\ IF failing \/ ~channel.managed
       THEN Done
       ELSE task' = [Idle EXCEPT !.pc = "live", !.frame = Head(queue)] /\ UNCHANGED queue
    /\ UNCHANGED <<mattermost, bridge, failing, socket, faults, outcome>>

\* An edit is recorded only for a post the bridge has, and changes nothing else.
HandleLive ==
    LET p == task.frame.p
        r == IF task.frame.change = "created" THEN HandleChange(p, "created") ELSE "none"
    IN /\ task.pc = "live"
       /\ IF r = "wait"
          THEN Done /\ failing' = TRUE /\ UNCHANGED outcome
          ELSE task' = [task EXCEPT !.pc = "save"] /\ Record(p, r) /\ UNCHANGED <<queue, failing>>
       /\ UNCHANGED <<mattermost, bridge, socket, faults>>

\* advanceNumericCursor: only forward, and never a new one.
Advance(t) ==
    channel' = IF channel.started THEN [channel EXCEPT !.cursor = Larger(@, t)] ELSE channel

SaveLive ==
    /\ task.pc = "save"
    /\ Advance(task.frame.upd)
    /\ Done
    /\ UNCHANGED <<mattermost, item, retired, failing, socket, faults, outcome>>

LiveFails ==
    /\ "error" \in ListenerFaults /\ Fault
    /\ task.pc \in {"live", "save"}
    /\ failing' = (failing \/ task.pc = "live")
    /\ Done
    /\ UNCHANGED <<mattermost, bridge, socket, outcome>>

-----------------------------------------------------------------------------
(* The chain: a sync. *)

EndSync(failed) == Done /\ failing' = failed

\* The first reads of syncAll and syncChannel.  A directory that cannot be read ends the
\* sync at once, and marks nothing as failing.
SyncStarts ==
    (IF channel.started
     THEN {[Idle EXCEPT !.pc = "fetch", !.newest = channel.cursor,
                        !.since = Larger(0, channel.cursor - Margin),
                        !.floor = channel.floor, !.atFloor = channel.atFloor]}
     ELSE {[Idle EXCEPT !.pc = "scan", !.gen = channel.gen]})
    \cup (IF "directory" \in ListenerFaults THEN {Idle} ELSE {})

BeginSync ==
    /\ task.pc = "idle" /\ queue # <<>> /\ Head(queue) = SyncTask
    /\ IF channel.managed
       THEN /\ task' \in SyncStarts
            /\ queue' = IF task'.pc = "idle" THEN Tail(queue) ELSE queue
            /\ UNCHANGED failing
       ELSE EndSync(FALSE)
    /\ UNCHANGED <<mattermost, bridge, socket, faults, outcome>>

\* channelStartOf: the newest posts there are; older history is not replayed.
ScanStart ==
    LET floor == LargestOf({post[p].at : p \in Visible})
    IN /\ task.pc = "scan"
       /\ task' = [task EXCEPT !.pc = "start", !.floor = floor,
                               !.atFloor = {p \in Visible : post[p].at = floor},
                               !.newest = LargestOf({post[p].upd : p \in Visible})]
       /\ UNCHANGED <<mattermost, bridge, queue, failing, socket, faults, outcome>>

\* Mutant: a scan is installed whatever happened to the channel meanwhile.
InstallsAnyScan == channel.managed

\* startManagedChannel: void when the channel is not managed now, or left management
\* after the scan's generation.
InstallsScan == channel.managed /\ channel.left <= task.gen

StartChannel ==
    /\ task.pc = "start"
    /\ channel' = IF InstallsScan /\ ~channel.started
                  THEN [channel EXCEPT !.started = TRUE, !.cursor = task.newest,
                                       !.floor = task.floor, !.atFloor = task.atFloor]
                  ELSE channel
    /\ EndSync(~InstallsScan)
    /\ UNCHANGED <<mattermost, item, retired, socket, faults, outcome>>

\* channelChangesSince: every post changed after the window's start, however many (a scan
\* that does not settle fails).
ChangesSince(since) ==
    {[p |-> p, change |-> "created", at |-> post[p].at, upd |-> post[p].upd,
      edited |-> post[p].edited] : p \in {q \in Visible : post[q].upd > since}}

FetchChanges ==
    /\ task.pc = "fetch"
    /\ task' = [task EXCEPT !.pc = "next", !.todo = ChangesSince(task.since)]
    /\ UNCHANGED <<mattermost, bridge, queue, failing, socket, faults, outcome>>

\* Creation order; within one millisecond a root comes before replies.
ComesFirst(f, todo) ==
    \A g \in todo : f.at < g.at \/ (f.at = g.at /\ (Root[f.p] = None \/ Root[g.p] # None))

\* The directory is read for each post: a channel no longer managed ends the sync.
NextPost ==
    /\ task.pc = "next"
    /\ IF task.todo = {}
       THEN task' = [task EXCEPT !.pc = "finish"] /\ UNCHANGED <<queue, failing>>
       ELSE IF ~channel.managed THEN EndSync(FALSE)
       ELSE /\ task' = [task EXCEPT !.pc = "replay",
                                    !.frame = CHOOSE f \in task.todo : ComesFirst(f, task.todo)]
            /\ UNCHANGED <<queue, failing>>
    /\ UNCHANGED <<mattermost, bridge, socket, faults, outcome>>

\* Mutant: a creation is left to the live frames while the socket is up.
ReplaysOffline(f) ==
    /\ f.at > task.since
    /\ ~(f.at < task.floor \/ (f.at = task.floor /\ f.p \in task.atFloor))
    /\ socket = "down"
    /\ outcome[f.p] \notin Recorded

\* syncPost: the creations after the window's start and the channel's, that no queued
\* frame carries and that are not stored.
Replays(f) ==
    /\ f.at > task.since
    /\ ~(f.at < task.floor \/ (f.at = task.floor /\ f.p \in task.atFloor))
    /\ f.p \notin PendingLive
    /\ outcome[f.p] \notin Recorded

ReplayPost ==
    LET f == task.frame
        r == IF Replays(f)
             THEN HandleChange(f.p, IF f.edited THEN "recovered" ELSE "created") ELSE "none"
    IN /\ task.pc = "replay"
       /\ IF r = "wait"
          THEN EndSync(TRUE) /\ UNCHANGED outcome
          ELSE /\ task' = [task EXCEPT !.pc = "next", !.todo = @ \ {f},
                                       !.newest = Larger(@, f.upd)]
               /\ Record(f.p, r)
               /\ UNCHANGED <<queue, failing>>
       /\ UNCHANGED <<mattermost, bridge, socket, faults>>

FinishSync ==
    /\ task.pc = "finish"
    /\ Advance(task.newest)
    /\ EndSync(FALSE)
    /\ UNCHANGED <<mattermost, item, retired, socket, faults, outcome>>

\* Mutant: a failed sync does not hold the live frames back.
SyncFailsQuietly ==
    /\ "error" \in ListenerFaults /\ Fault
    /\ task.pc \in {"scan", "start", "fetch", "next", "replay", "finish"}
    /\ EndSync(FALSE)
    /\ UNCHANGED <<mattermost, bridge, socket, outcome>>

\* The cursor stays put, live frames are left alone, and a resync is scheduled.
SyncFails ==
    /\ "error" \in ListenerFaults /\ Fault
    /\ task.pc \in {"scan", "start", "fetch", "next", "replay", "finish"}
    /\ EndSync(TRUE)
    /\ UNCHANGED <<mattermost, bridge, socket, outcome>>

-----------------------------------------------------------------------------
ListenerInit ==
    /\ now = 0 /\ kind \in Threads
    /\ post = [p \in Posts |-> [st |-> "none", at |-> 0, upd |-> 0, edited |-> FALSE]]
    /\ item = [p \in Posts |-> "sending"]
    /\ retired = {}
    /\ channel = [managed |-> TRUE, gen |-> 0, left |-> 0, started |-> FALSE, cursor |-> 0,
                  floor |-> 0, atFloor |-> {}]
    /\ task = Idle /\ queue = <<>> /\ failing = FALSE /\ socket = "down" /\ faults = 0
    /\ outcome = [p \in Posts |-> "none"]
    /\ private = {}

Live == BeginLive \/ HandleLive \/ SaveLive
Sync ==
    BeginSync \/ ScanStart \/ StartChannel \/ FetchChanges \/ NextPost \/ ReplayPost \/ FinishSync
Environment ==
    \/ \E p \in Posts : Stamp(p) \/ Appear(p) \/ Edit(p)
    \/ (\E k \in {"agent", "card"} : Retire(k)) \/ Leave \/ Rejoin

ListenerNext ==
    \/ Environment \/ Connect \/ Disconnect \/ Crash \/ SyncTimer
    \/ Live \/ LiveFails \/ Sync \/ SyncFails
    \/ \E p \in Posts : Settle(p)

ListenerSpec == ListenerInit /\ [][ListenerNext]_listenerVars

\* The chain gets on, the socket reconnects, the timers fire, and a delivery that is under
\* way is settled.
ListenerFairness ==
    /\ WF_listenerVars(Live) /\ WF_listenerVars(Sync)
    /\ WF_listenerVars(Connect) /\ WF_listenerVars(SyncTimer)
    /\ \A p \in Posts : WF_listenerVars(Settle(p))

ListenerFairSpec == ListenerSpec /\ ListenerFairness

-----------------------------------------------------------------------------
\* A post the channel's window has moved past was dealt with: whatever frames were lost,
\* however long the socket was down, wherever a sync failed or the controller died, no
\* later frame moves the cursor beyond a post nobody has read.
NothingSkipped ==
    \A p \in Visible :
        Admits(p) /\ post[p].at <= channel.cursor - Margin
            => outcome[p] # "none" \/ p \in PendingLive

\* What was posted while the channel was not managed is never recorded, though the
\* channel came back while a frame, a scan or a sync from before was still under way.
UnmanagedIsPrivate == \A p \in private : outcome[p] \notin Recorded

\* Every post of the managed channel is dealt with in the end.
EveryPostIsHandled ==
    \A p \in Posts : []<>(post[p].st = "visible" /\ Admits(p) => outcome[p] # "none")

=============================================================================
