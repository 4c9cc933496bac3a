------------------------------ MODULE AgentRuns ------------------------------
(***************************************************************************)
(* The run protocol of one agent: its state machine, inbox, runs and waits *)
(* (the PostgreSQL rows the control plane keeps), the queue jobs that      *)
(* connect the controller with a worker, and the operator's commands.      *)
(*                                                                         *)
(* Every use case of packages/core is one database transaction that takes  *)
(* the agent's row lock before it reads the agent, so each is one action.  *)
(* What is not under that lock is interleaved: the worker, the queues (a   *)
(* report or timer job may be late, lost, dead-lettered or delivered       *)
(* twice) and the three separate reads of reconciliation.  Agents share    *)
(* only the kill switch and the configuration; one agent stands for any.   *)
(***************************************************************************)
EXTENDS Naturals, FiniteSets

CONSTANTS
    Events,         \* external events (Mattermost posts) that may reach the agent
    Conditions,     \* wait conditions a run may ask for
    Approval,       \* the condition of a needs_human outcome (approval.resolved)
    Answers,        \* <<condition, event>>: the event satisfies the condition
    MaxRuns,        \* bound: agent_runs rows explored
    MaxAttempts,    \* MAX_RUN_ATTEMPTS
    MaxCoalesced,   \* MAX_COALESCED_EVENTS, or 1 for an agent that does not coalesce
    Holds,          \* what may hold a run back: "none" and some of HoldNames
    Activities      \* the faults and commands explored, some of ActivityNames

HoldNames == {"none", "lifecycle", "unresolved", "quota", "budget", "context"}
ActivityNames == {"crash", "lose_job", "lose_timer", "dead_letter", "redeliver",
                  "reconcile", "pause", "disable", "kill", "redrive", "delete", "grant"}

ASSUME BoundsAssumption ==
    /\ MaxRuns \in Nat \ {0}
    /\ MaxAttempts \in Nat \ {0}
    /\ MaxCoalesced \in Nat \ {0}
ASSUME EventsAssumption == Events \cap (0..MaxRuns) = {}
ASSUME AnswersAssumption ==
    /\ Approval \in Conditions
    /\ Answers \subseteq (Conditions \ {Approval}) \X Events
ASSUME ChoicesAssumption ==
    /\ Holds \subseteq HoldNames /\ "none" \in Holds
    /\ Activities \subseteq ActivityNames

Runs == 1..MaxRuns
Attempts == 1..MaxAttempts
Kinds == {"started", "failed", "completed"}

\* The gateway's own event that ends the wait of run r (agent.wait.timeout or
\* approval.resolved) has the id r: siblings are cancelled with the first
\* resolution, so a run's waits end by at most one internal event.
EventIds == Events \cup Runs
None == 0

VARIABLES
    state,       \* agents.state
    killSwitch,  \* gateway_controls.kill_switch
    nRuns,       \* rows of agent_runs; run nRuns is the latest by queued_at
    run,         \* agent_runs
    inbox,       \* events, event_routes and agent_inbox of this agent
    waits,       \* wait_subscriptions, by run and condition
    gone,        \* posts deleted, or in a channel the agent lost
    job,         \* run queue: each attempt's job and its worker
    reports,     \* report queue: <<run, attempt, kind>>, in no order
    timers,      \* agent.timeout jobs: <<run, attempt>>
    waitJobs,    \* agent.wait.timeout jobs
    probe,       \* what one pass of reconciliation has seen so far
    published    \* <<run, attempt>> whose result was persisted and posted

dbVars == <<state, nRuns, run, inbox, waits>>
queueVars == <<job, reports, timers, waitJobs>>
vars == <<state, killSwitch, nRuns, run, inbox, waits, gone, job, reports,
          timers, waitJobs, probe, published>>

AgentStates == {"disabled", "idle", "queued", "running", "waiting", "failed", "paused"}
RunStatuses == {"none", "queued", "running", "succeeded", "failed", "cancelled"}
InboxStatuses == {"none", "stored", "refused", "pending", "claimed", "consumed", "dead"}
WaitStatuses == {"none", "active", "due", "matched", "timed_out", "cancelled"}
JobStates == {"none", "created", "started", "sent", "crashed", "orphan", "gone"}

RunRows == [status: RunStatuses, attempt: 0..MaxAttempts,
            trigger: EventIds \cup {None}, overdue: BOOLEAN]
InboxRows == [status: InboxStatuses, run: 0..MaxRuns, wait: 0..MaxRuns, at: 0..MaxRuns]
Probes == [run: Runs, attempt: 0..MaxAttempts, status: {"queued", "running"},
           phase: {"listed", "job_gone", "silent"}]
NoProbe == [phase |-> "none"]

TypeOK ==
    /\ state \in AgentStates
    /\ killSwitch \in BOOLEAN
    /\ nRuns \in 0..MaxRuns
    /\ run \in [Runs -> RunRows]
    /\ inbox \in [EventIds -> InboxRows]
    /\ waits \in [Runs -> [Conditions -> WaitStatuses]]
    /\ gone \subseteq Events
    /\ job \in [Runs -> [Attempts -> JobStates]]
    /\ reports \subseteq Runs \X Attempts \X Kinds
    /\ timers \subseteq Runs \X Attempts
    /\ waitJobs \subseteq Runs \X Conditions
    /\ probe \in Probes \cup {NoProbe}
    /\ published \subseteq Runs \X Attempts

-----------------------------------------------------------------------------
(* The agent state machine (state-machine.ts). *)

TRANSITIONS ==
    { <<"disabled", "enable", "idle">>, <<"disabled", "enable_failed", "failed">>,
      <<"idle", "schedule", "queued">>, <<"idle", "pause", "paused">>,
      <<"idle", "disable", "disabled">>,
      <<"queued", "start", "running">>, <<"queued", "retry", "queued">>,
      <<"queued", "complete_idle", "idle">>, <<"queued", "complete_waiting", "waiting">>,
      <<"queued", "fail", "failed">>, <<"queued", "pause", "paused">>,
      <<"running", "retry", "queued">>, <<"running", "complete_idle", "idle">>,
      <<"running", "complete_waiting", "waiting">>, <<"running", "fail", "failed">>,
      <<"running", "pause", "paused">>,
      <<"waiting", "wait_resolved", "queued">>, <<"waiting", "pause", "paused">>,
      <<"waiting", "disable", "disabled">>,
      <<"failed", "redrive", "queued">>, <<"failed", "disable", "disabled">>,
      <<"paused", "resume_idle", "idle">>, <<"paused", "resume_waiting", "waiting">>,
      <<"paused", "disable", "disabled">> }

\* The next state, as a set of at most one.  requireTransition throws when there
\* is none, which rolls the whole transaction back: choosing from the empty set
\* disables the action.
NextAgentState(st, transition) == { to \in AgentStates : <<st, transition, to>> \in TRANSITIONS }

InProgress(row) == row.status \in {"queued", "running"}
ActiveWait(status) == status \in {"active", "due"}

-----------------------------------------------------------------------------
(* Waits and missed answers (wait-store.ts, context-store.ts). *)

\* Mutant: siblings stay active.
ResolveWaitAlone(wt, r, c, how) == [wt EXCEPT ![r][c] = how]

\* resolveWait: the wait ends and its active siblings are cancelled.
ResolveWait(wt, r, c, how) ==
    [wt EXCEPT ![r] = [d \in Conditions |->
        IF d = c THEN how ELSE IF ActiveWait(wt[r][d]) THEN "cancelled" ELSE wt[r][d]]]

\* cancelActiveWaits: every active wait of the agent.
CancelActiveWaits(wt) ==
    [r \in Runs |-> [c \in Conditions |->
        IF ActiveWait(wt[r][c]) THEN "cancelled" ELSE wt[r][c]]]

\* Mutant: an entry that resolved a wait is dropped too.
RetireResumptions(ib) ==
    [e \in EventIds |-> IF ib[e].status = "pending" /\ e \in gone
                        THEN [ib[e] EXCEPT !.status = "dead"] ELSE ib[e]]

\* retireInbox: a pending entry of a post that is gone is dropped, unless it
\* resolved a wait.
RetireInbox(ib) ==
    [e \in EventIds |->
        IF ib[e].status = "pending" /\ ib[e].wait = None /\ e \in gone
        THEN [ib[e] EXCEPT !.status = "dead"] ELSE ib[e]]

\* matchMissedAnswers' candidates: <<event, run, condition>> of an active wait
\* not yet due and an event that answers it and is pending, or was stored for
\* nobody since the waiting run was queued.
MissedAnswers(ib, wt) ==
    { m \in Events \X Runs \X Conditions :
        /\ wt[m[2]][m[3]] = "active"
        /\ <<m[3], m[1]>> \in Answers
        /\ m[1] \notin gone
        /\ \/ ib[m[1]].status = "pending"
           \/ ib[m[1]].status = "stored" /\ ib[m[1]].at >= m[2] }

\* Mutant: only inbox entries are scanned, not the events stored for nobody.
ScanInboxOnly(st, ib, wt) ==
    IF st = "waiting" THEN {m \in MissedAnswers(ib, wt) : ib[m[1]].status = "pending"} ELSE {}

\* Only a waiting agent scans.
ScanCandidates(st, ib, wt) == IF st = "waiting" THEN MissedAnswers(ib, wt) ELSE {}

NoMatch == <<>>

\* The scan stops at its first match m.  A stored event passes the loop guards
\* only now (lateMatchAllowed); "refused" are those the guards turned away.
ScanResult(ib, found, refused, m) ==
    /\ \A e \in refused : ib[e].status = "stored"
    /\ IF m = NoMatch THEN \A a \in found : a[1] \in refused
                      ELSE m \in found /\ m[1] \notin refused

InboxAfterScan(ib, refused, m) ==
    [e \in EventIds |->
        IF e \in refused THEN [ib[e] EXCEPT !.status = "refused"]
        ELSE IF m # NoMatch /\ e = m[1]
             THEN [ib[e] EXCEPT !.status = "pending", !.wait = m[2]]
             ELSE ib[e]]

WaitsAfterScan(wt, m) == IF m = NoMatch THEN wt ELSE ResolveWait(wt, m[2], m[3], "matched")

-----------------------------------------------------------------------------
(* The scheduler (scheduler.ts).  ScheduleAgent is called inside other      *)
(* transactions, so it takes the rows as they stand there (st, rn, ib, wt)  *)
(* and gives every row's final value.                                       *)

Pending(ib) == { e \in EventIds : ib[e].status = "pending" }

\* The trigger the scheduler looks up: the redriven run's own trigger; for a
\* waiting agent an entry that resolved a wait; else any, wait entries first
\* (WAIT_PRIORITY is the highest priority).
Triggers(st, rn, ib, redrive) ==
    LET resumes == { e \in Pending(ib) : ib[e].wait # None } IN
    IF redrive THEN Pending(ib) \cap {rn[nRuns].trigger}
    ELSE IF st = "waiting" \/ resumes # {} THEN resumes
    ELSE Pending(ib)

\* Up to MaxCoalesced - 1 other pending entries join the run.
Coalesced(ib, t) ==
    LET rest == Pending(ib) \ {t} IN
    { others \in SUBSET rest :
        Cardinality(others) = (IF Cardinality(rest) < MaxCoalesced - 1
                               THEN Cardinality(rest) ELSE MaxCoalesced - 1) }

SetRows(st, rn, ib, wt) == state' = st /\ run' = rn /\ inbox' = ib /\ waits' = wt

Skip(st, rn, ib, wt) ==
    /\ SetRows(st, rn, ib, wt)
    /\ UNCHANGED <<nRuns, job, timers>>

ScheduleTransition(st, redrive) ==
    CASE st = "idle" -> "schedule"
      [] st = "waiting" -> "wait_resolved"
      [] st = "failed" /\ redrive -> "redrive"
      [] OTHER -> "none"

\* The run row, the claimed inbox entries and enqueueAttempt, in one transaction.
StartRun(st, rn, ib, wt, t, others, redrive) ==
    LET r == nRuns + 1 IN
    /\ nRuns < MaxRuns
    /\ nRuns' = r
    /\ \E next \in NextAgentState(st, ScheduleTransition(st, redrive)) :
            SetRows(next,
                    [rn EXCEPT ![r] = [status |-> "queued", attempt |-> 1,
                                       trigger |-> t, overdue |-> FALSE]],
                    [e \in EventIds |->
                        IF e \in {t} \cup others
                        THEN [ib[e] EXCEPT !.status = "claimed", !.run = r] ELSE ib[e]],
                    wt)
    /\ job' = [job EXCEPT ![r][1] = "created"]
    /\ timers' = timers \cup {<<r, 1>>}

SkipsEarly(hold, st, redrive) ==
    \/ hold \in {"lifecycle", "unresolved"}
    \/ ScheduleTransition(st, redrive) = "none"
    \/ killSwitch

\* "lifecycle" and "unresolved" (no channel resolved) stop the scheduler before
\* it looks at the inbox; "quota" (not for a redrive), "budget" and "context"
\* after it retired entries and matched missed answers.
ScheduleAgent(st, rn, ib, wt, redrive) ==
    \E hold \in Holds :
      IF SkipsEarly(hold, st, redrive)
      THEN Skip(st, rn, ib, wt)
      ELSE LET kept == RetireInbox(ib)
               found == ScanCandidates(st, kept, wt)
           IN \E refused \in SUBSET {a[1] : a \in found}, m \in found \cup {NoMatch} :
                /\ ScanResult(kept, found, refused, m)
                /\ LET ib2 == InboxAfterScan(kept, refused, m)
                       wt2 == WaitsAfterScan(wt, m)
                       ready == Triggers(st, rn, ib2, redrive)
                   IN IF \/ hold = "quota" /\ ~redrive
                         \/ hold \in {"budget", "context"}
                         \/ ready = {}
                         \/ nRuns = MaxRuns
                      THEN Skip(st, rn, ib2, wt2)
                      ELSE \E t \in ready : \E others \in Coalesced(ib2, t) :
                             StartRun(st, rn, ib2, wt2, t, others, redrive)

\* Mutant: the sweep looks for resumptions only.
SweepsResumptions == \E e \in Pending(inbox) : state = "waiting" /\ inbox[e].wait # None

SweepCandidate ==
    \E e \in Pending(inbox) : state = "idle" \/ (state = "waiting" /\ inbox[e].wait # None)

\* sweepSchedules starts what no event will trigger again.
SweepSchedules ==
    /\ SweepCandidate
    /\ ScheduleAgent(state, run, inbox, waits, FALSE)
    /\ UNCHANGED <<killSwitch, gone, reports, waitJobs, probe, published>>

\* Every other caller that only asks for a run: config apply of an agent it
\* leaves enabled, an identity that became ready.
WakeScheduler ==
    /\ ScheduleAgent(state, run, inbox, waits, FALSE)
    /\ UNCHANGED <<killSwitch, gone, reports, waitJobs, probe, published>>

-----------------------------------------------------------------------------
(* Ingest (ingest.ts).  The routing decision for this agent is an input: the *)
(* loop guards may refuse any event, and an event that names nobody is only *)
(* stored.  A redelivered event conflicts on (source, id) and does nothing.  *)

AddToInbox(e, r) ==
    [inbox EXCEPT ![e] = [status |-> "pending", run |-> None, wait |-> r, at |-> nRuns]]

MatchingWaits(e) ==
    { w \in Runs \X Conditions : waits[w[1]][w[2]] = "active" /\ <<w[2], e>> \in Answers }

IngestUnrouted(e) ==
    \E decision \in {"stored", "refused"} :
        /\ decision = "stored" => MatchingWaits(e) = {}
        /\ inbox' = [inbox EXCEPT ![e].status = decision, ![e].at = nRuns]
        /\ UNCHANGED <<state, nRuns, run, waits, job, timers>>

IngestWake(e) ==
    /\ state # "disabled"
    /\ MatchingWaits(e) = {}
    /\ ScheduleAgent(state, run, AddToInbox(e, None), waits, FALSE)

IngestWaitMatch(e) ==
    /\ state # "disabled"
    /\ \E w \in MatchingWaits(e) :
         ScheduleAgent(state, run, AddToInbox(e, w[1]),
                       ResolveWait(waits, w[1], w[2], "matched"), FALSE)

IngestEvent(e) ==
    /\ inbox[e].status = "none"
    /\ IngestUnrouted(e) \/ IngestWake(e) \/ IngestWaitMatch(e)
    /\ UNCHANGED <<killSwitch, gone, reports, waitJobs, probe, published>>

\* routeGrantedMention: a stored post that names the agent is routed to it once
\* the owner's grant is recorded, with no wait considered.
RouteGrantedMention(e) ==
    /\ "grant" \in Activities
    /\ inbox[e].status = "stored"
    /\ \/ /\ inbox' = [inbox EXCEPT ![e].status = "refused"]
          /\ UNCHANGED <<state, nRuns, run, waits, job, timers>>
       \/ /\ state # "disabled"
          /\ ScheduleAgent(state, run, [inbox EXCEPT ![e].status = "pending"], waits, FALSE)
    /\ UNCHANGED <<killSwitch, gone, reports, waitJobs, probe, published>>

\* A deletion is stored, or a channel grant withdrawn: no row of the agent changes.
PostDeleted(e) ==
    /\ "delete" \in Activities
    /\ inbox[e].status # "none" /\ e \notin gone
    /\ gone' = gone \cup {e}
    /\ UNCHANGED <<state, killSwitch, nRuns, run, inbox, waits, job, reports, timers,
                   waitJobs, probe, published>>

-----------------------------------------------------------------------------
(* Wait timeouts (wait-timeouts.ts, reconcile.ts). *)

\* wait_subscriptions.timeout_at passes.  From then on no event matches the wait.
WaitFallsDue(r, c) ==
    /\ waits[r][c] = "active"
    /\ waits' = [waits EXCEPT ![r][c] = "due"]
    /\ UNCHANGED <<state, killSwitch, nRuns, run, inbox, gone, job, reports, timers,
                   waitJobs, probe, published>>

\* The gateway's own event resolves the wait; the loop guards exempt it.
ResolveInternally(r, c, how) ==
    ScheduleAgent(state, run, AddToInbox(r, r), ResolveWait(waits, r, c, how), FALSE)

\* An approval's wait ends by approval.resolved, unless that event was already
\* emitted.  A job that comes before the timeout sends itself again: no change.
HandleWaitTimeout(r, c) ==
    /\ <<r, c>> \in waitJobs
    /\ waits[r][c] # "active"
    /\ waitJobs' = waitJobs \ {<<r, c>>}
    /\ IF waits[r][c] = "due"
       THEN \E how \in IF c = Approval THEN {"matched", "timed_out"} ELSE {"timed_out"} :
              ResolveInternally(r, c, how)
       ELSE UNCHANGED <<state, nRuns, run, inbox, waits, job, timers>>
    /\ UNCHANGED <<killSwitch, gone, reports, probe, published>>

\* resolveApproval (approvals.ts): the owner decided, the action ended, or the
\* request was withdrawn.
ApprovalResolved(r) ==
    /\ ActiveWait(waits[r][Approval])
    /\ ResolveInternally(r, Approval, "matched")
    /\ UNCHANGED <<killSwitch, gone, reports, waitJobs, probe, published>>

\* extendApprovalWait: the granted action keeps the agent waiting; a new job is sent.
ExtendApprovalWait(r) ==
    /\ waits[r][Approval] = "active"
    /\ waitJobs' = waitJobs \cup {<<r, Approval>>}
    /\ UNCHANGED <<state, killSwitch, nRuns, run, inbox, waits, gone, job, reports,
                   timers, probe, published>>

LoseWaitJob(w) ==
    /\ "lose_timer" \in Activities
    /\ w \in waitJobs
    /\ waitJobs' = waitJobs \ {w}
    /\ UNCHANGED <<state, killSwitch, nRuns, run, inbox, waits, gone, job, reports,
                   timers, probe, published>>

DueWaits == { w \in Runs \X Conditions : waits[w[1]][w[2]] = "due" }

\* The last part of reconcileRunsAndWaits: overdue waits get a new job.
ReconcileWaits ==
    /\ ~(DueWaits \subseteq waitJobs)
    /\ waitJobs' = waitJobs \cup DueWaits
    /\ UNCHANGED <<state, killSwitch, nRuns, run, inbox, waits, gone, job, reports,
                   timers, probe, published>>

-----------------------------------------------------------------------------
(* The run queue and its worker (run-job.ts; pg-boss never retries a run    *)
(* job).  "created": queued.  "started": the worker sent its started report *)
(* and is executing.  "sent": it sent its result.  "crashed": the worker    *)
(* died, the job is still active.  "orphan": the job ended (expired or       *)
(* cancelled) under a worker that goes on.  "gone": no job, no worker.      *)

JobAlive(r, a) == job[r][a] \in {"created", "started", "sent", "crashed"}

SetJob(r, a, s) == job' = [job EXCEPT ![r][a] = s]
SendReport(r, a, k) == reports' = reports \cup {<<r, a, k>>}

StartJob(r, a) ==
    /\ job[r][a] = "created"
    /\ SetJob(r, a, "started")
    /\ SendReport(r, a, "started")
    /\ UNCHANGED <<dbVars, killSwitch, gone, timers, waitJobs, probe, published>>

\* The result, or a failure (the runtime's, an unavailable runtime, no workspace),
\* is sent before the job completes; an orphan sends it all the same.
SendResult(r, a) ==
    /\ job[r][a] \in {"started", "orphan"}
    /\ SetJob(r, a, IF job[r][a] = "started" THEN "sent" ELSE "gone")
    /\ \E k \in {"failed", "completed"} : SendReport(r, a, k)
    /\ UNCHANGED <<dbVars, killSwitch, gone, timers, waitJobs, probe, published>>

CompleteJob(r, a) ==
    /\ job[r][a] = "sent"
    /\ SetJob(r, a, "gone")
    /\ UNCHANGED <<dbVars, killSwitch, gone, reports, timers, waitJobs, probe, published>>

\* Also between fetching the job and its started report.
WorkerCrash(r, a) ==
    /\ "crash" \in Activities
    /\ job[r][a] \in {"created", "started", "orphan"}
    /\ SetJob(r, a, IF job[r][a] = "orphan" THEN "gone" ELSE "crashed")
    /\ UNCHANGED <<dbVars, killSwitch, gone, reports, timers, waitJobs, probe, published>>

\* pg-boss expires an active job and dead-letters it.
ExpireJob(r, a) ==
    /\ job[r][a] = "crashed" \/ (job[r][a] = "started" /\ "crash" \in Activities)
    /\ SetJob(r, a, IF job[r][a] = "crashed" THEN "gone" ELSE "orphan")
    /\ UNCHANGED <<dbVars, killSwitch, gone, reports, timers, waitJobs, probe, published>>

\* A queued job is deleted by retention, or dead-lettered as an invalid payload.
LoseJob(r, a) ==
    /\ "lose_job" \in Activities
    /\ job[r][a] = "created"
    /\ SetJob(r, a, "gone")
    /\ UNCHANGED <<dbVars, killSwitch, gone, reports, timers, waitJobs, probe, published>>

\* The CLI cancels the jobs of cancelled runs after the transaction; it may fail.
CancelJob(r, a) ==
    /\ run[r].status = "cancelled"
    /\ job[r][a] \in {"created", "started"}
    /\ SetJob(r, a, IF job[r][a] = "created" THEN "gone" ELSE "orphan")
    /\ UNCHANGED <<dbVars, killSwitch, gone, reports, timers, waitJobs, probe, published>>

LoseTimer(t) ==
    /\ "lose_timer" \in Activities
    /\ t \in timers
    /\ timers' = timers \ {t}
    /\ UNCHANGED <<dbVars, killSwitch, gone, job, reports, waitJobs, probe, published>>

DeadLetterReport(m) ==
    /\ "dead_letter" \in Activities
    /\ m \in reports
    /\ reports' = reports \ {m}
    /\ UNCHANGED <<dbVars, killSwitch, gone, job, timers, waitJobs, probe, published>>

-----------------------------------------------------------------------------
(* The end of an attempt (runs.ts). *)

\* Mutant: the entries are acknowledged.
AcknowledgeInbox(rs, statuses) ==
    [e \in EventIds |->
        IF inbox[e].run \in rs /\ inbox[e].status \in statuses
        THEN [inbox[e] EXCEPT !.status = "consumed"] ELSE inbox[e]]

\* Entries of the runs rs go back to the inbox.
ReturnInbox(rs, statuses) ==
    [e \in EventIds |->
        IF inbox[e].run \in rs /\ inbox[e].status \in statuses
        THEN [inbox[e] EXCEPT !.status = "pending", !.run = None] ELSE inbox[e]]

ConsumeInbox(r) ==
    [e \in EventIds |->
        IF inbox[e].run = r /\ inbox[e].status = "claimed"
        THEN [inbox[e] EXCEPT !.status = "consumed"] ELSE inbox[e]]

RetryAttempt(r, tm) ==
    LET a == run[r].attempt + 1 IN
    /\ run' = [run EXCEPT ![r].status = "queued", ![r].attempt = a, ![r].overdue = FALSE]
    /\ state' \in NextAgentState(state, "retry")
    /\ job' = [job EXCEPT ![r][a] = "created"]
    /\ timers' = tm \cup {<<r, a>>}
    /\ inbox' = inbox

DeferForBudget(r, tm) ==
    /\ run' = [run EXCEPT ![r].status = "cancelled"]
    /\ inbox' = ReturnInbox({r}, {"claimed"})
    /\ state' \in NextAgentState(state, "complete_idle")
    /\ timers' = tm
    /\ job' = job

FailRun(r, tm) ==
    /\ run' = [run EXCEPT ![r].status = "failed"]
    /\ state' \in NextAgentState(state, "fail")
    /\ timers' = tm
    /\ UNCHANGED <<inbox, job>>

Retries(r, retryable) == retryable /\ run[r].attempt < MaxAttempts

\* tm: the timer jobs left once the one being handled, if any, is done.
ApplyFailure(r, retryable, tm) ==
    /\ IF Retries(r, retryable)
       THEN RetryAttempt(r, tm) \/ ("budget" \in Holds /\ DeferForBudget(r, tm))
       ELSE FailRun(r, tm)
    /\ UNCHANGED <<nRuns, waits>>

\* applyCompletion after the checks: the result is persisted and posted, the run
\* ends, its entries are consumed, and the next run may start.
CompleteRun(r, a, status, transition, newWaits) ==
    /\ published' = published \cup {<<r, a>>}
    /\ waitJobs' = waitJobs \cup ({r} \X newWaits)
    /\ \E next \in NextAgentState(state, transition) :
         ScheduleAgent(next, [run EXCEPT ![r].status = status], ConsumeInbox(r),
                       [waits EXCEPT ![r] = [c \in Conditions |->
                            IF c \in newWaits THEN "active" ELSE waits[r][c]]],
                       FALSE)

\* A result that fails validation, authority, scope, approval policy or has no
\* approver fails the run before anything is persisted; an approval card that
\* fails validation does so after the messages were.
RefuseResult(r, a) ==
    /\ ApplyFailure(r, FALSE, timers)
    /\ published' \in {published, published \cup {<<r, a>>}}
    /\ UNCHANGED waitJobs

ApplyCompletion(r, a) ==
    \/ RefuseResult(r, a)
    \/ CompleteRun(r, a, "succeeded", "complete_idle", {})
    \/ \E ws \in SUBSET (Conditions \ {Approval}) :
         ws # {} /\ CompleteRun(r, a, "succeeded", "complete_waiting", ws)
    \/ CompleteRun(r, a, "succeeded", "complete_waiting", {Approval})
    \/ CompleteRun(r, a, "failed", "fail", {})

\* The time budget of the attempt starts with its started report.
ApplyStarted(r) ==
    /\ IF run[r].status = "queued"
       THEN /\ run' = [run EXCEPT ![r].status = "running"]
            /\ timers' = timers \cup {<<r, run[r].attempt>>}
            /\ state' = IF state = "queued" THEN "running" ELSE state
       ELSE UNCHANGED <<run, timers, state>>
    /\ UNCHANGED <<nRuns, inbox, waits, job, waitJobs, published>>

\* Mutant: a report of any attempt is taken.
StaleIfOver(r, a) == ~InProgress(run[r])

\* Mutant: a report for a run that is over is taken.
StaleIfRetried(r, a) == run[r].attempt # a

Stale(r, a) == ~InProgress(run[r]) \/ run[r].attempt # a

\* A report of an attempt that is over changes nothing but the usage ledger, whose
\* effect on scheduling is the "budget" hold.  The job is acknowledged after the
\* transaction; when that is lost, the report is delivered again.
HandleRunReport(m) ==
    LET r == m[1] IN
    /\ m \in reports
    /\ \/ reports' = reports \ {m}
       \/ "redeliver" \in Activities /\ reports' = reports
    /\ IF Stale(r, m[2])
       THEN UNCHANGED <<dbVars, job, timers, waitJobs, published>>
       ELSE \/ m[3] = "started" /\ ApplyStarted(r)
            \/ /\ m[3] = "failed"
               /\ \E retryable \in BOOLEAN : ApplyFailure(r, retryable, timers)
               /\ UNCHANGED <<waitJobs, published>>
            \/ m[3] = "completed" /\ ApplyCompletion(r, m[2])
    /\ UNCHANGED <<killSwitch, gone, probe>>

\* agent_runs.timeout_at of a running attempt passes.
DeadlinePasses(r) ==
    /\ run[r].status = "running" /\ ~run[r].overdue
    /\ run' = [run EXCEPT ![r].overdue = TRUE]
    /\ UNCHANGED <<state, killSwitch, nRuns, inbox, waits, gone, queueVars, probe,
                   published>>

\* The job sent with the attempt only alerts while no worker has started it; the
\* one sent with its started report comes after the deadline.
HandleRunTimeout(t) ==
    LET r == t[1]
        running == ~Stale(r, t[2]) /\ run[r].status = "running"
    IN /\ t \in timers
       /\ running => run[r].overdue
       /\ IF running
          THEN ApplyFailure(r, TRUE, timers \ {t})
          ELSE /\ timers' = timers \ {t}
               /\ UNCHANGED <<dbVars, job>>
       /\ UNCHANGED <<killSwitch, gone, reports, waitJobs, probe, published>>

-----------------------------------------------------------------------------
(* Reconciliation of lost attempts (reconcile.ts): three reads, then a       *)
(* transaction fenced by what they saw.                                      *)

\* Mutant: running attempts are never listed.
ListsQueued(r) == run[r].status = "queued"

LooksStuck(r) == run[r].status = "queued" \/ (run[r].status = "running" /\ run[r].overdue)

ObserveRun(r) ==
    /\ "reconcile" \in Activities
    /\ probe = NoProbe
    /\ LooksStuck(r)
    /\ probe' = [run |-> r, attempt |-> run[r].attempt, status |-> run[r].status,
                 phase |-> "listed"]
    /\ UNCHANGED <<dbVars, killSwitch, gone, queueVars, published>>

ProbeJob ==
    /\ probe.phase = "listed"
    /\ probe' = IF probe.status = "running" \/ ~JobAlive(probe.run, probe.attempt)
                THEN [probe EXCEPT !.phase = "job_gone"] ELSE NoProbe
    /\ UNCHANGED <<dbVars, killSwitch, gone, queueVars, published>>

\* Mutant: pending reports are not looked for.
HasNoReport(r) == FALSE

HasPendingReport(r) == \E m \in reports : m[1] = r

ProbeReport ==
    /\ probe.phase = "job_gone"
    /\ probe' = IF HasPendingReport(probe.run) THEN NoProbe ELSE [probe EXCEPT !.phase = "silent"]
    /\ UNCHANGED <<dbVars, killSwitch, gone, queueVars, published>>

FailLostAttempt ==
    /\ probe.phase = "silent"
    /\ probe' = NoProbe
    /\ LET row == run[probe.run] IN
       IF /\ row.status = probe.status /\ row.attempt = probe.attempt
          /\ row.status = "running" => row.overdue
       THEN ApplyFailure(probe.run, TRUE, timers)
       ELSE UNCHANGED <<dbVars, job, timers>>
    /\ UNCHANGED <<killSwitch, gone, reports, waitJobs, published>>

-----------------------------------------------------------------------------
(* The operator (admin.ts). *)

\* pauseInTransaction: a run in progress is cancelled and its entries return; a
\* paused, disabled or failed agent is left alone.
PauseInTransaction ==
    /\ IF state \in {"paused", "disabled", "failed"}
       THEN UNCHANGED <<state, run, inbox>>
       ELSE /\ state' \in NextAgentState(state, "pause")
            /\ run' = [r \in Runs |-> IF InProgress(run[r])
                                      THEN [run[r] EXCEPT !.status = "cancelled"] ELSE run[r]]
            /\ inbox' = ReturnInbox({r \in Runs : InProgress(run[r])}, {"claimed"})
    /\ UNCHANGED <<nRuns, waits, gone, queueVars, probe, published>>

\* pauseAgent, and cancelRun of the run in progress.
PauseAgent ==
    /\ "pause" \in Activities
    /\ PauseInTransaction
    /\ UNCHANGED killSwitch

ResumeAgent ==
    /\ state = "paused"
    /\ LET waiting == \E r \in Runs, c \in Conditions : ActiveWait(waits[r][c])
       IN \E next \in NextAgentState("paused", IF waiting THEN "resume_waiting" ELSE "resume_idle") :
            ScheduleAgent(next, run, inbox, waits, FALSE)
    /\ UNCHANGED <<killSwitch, gone, reports, waitJobs, probe, published>>

\* applyEnabled(false) inside a config apply.
DisableAgent ==
    /\ "disable" \in Activities
    /\ state # "disabled"
    /\ state' \in NextAgentState(state, "disable")
    /\ waits' = CancelActiveWaits(waits)
    /\ UNCHANGED <<killSwitch, nRuns, run, inbox, gone, queueVars, probe, published>>

EnableTransition ==
    IF nRuns > 0 /\ run[nRuns].status = "failed" THEN "enable_failed" ELSE "enable"

\* applyEnabled(true): FAILED is restored when the latest run failed.
EnableAgent ==
    /\ state = "disabled"
    /\ \E next \in NextAgentState("disabled", EnableTransition) :
         ScheduleAgent(next, run, inbox, waits, FALSE)
    /\ UNCHANGED <<killSwitch, gone, reports, waitJobs, probe, published>>

\* A redrive that starts no run rolls back.
RedriveRun ==
    /\ "redrive" \in Activities
    /\ state = "failed" /\ nRuns > 0 /\ run[nRuns].status = "failed"
    /\ ScheduleAgent(state, run, ReturnInbox({nRuns}, {"claimed", "consumed"}), waits, TRUE)
    /\ nRuns' = nRuns + 1
    /\ UNCHANGED <<killSwitch, gone, reports, waitJobs, probe, published>>

KillAll ==
    /\ "kill" \in Activities
    /\ killSwitch' = TRUE
    /\ PauseInTransaction

ReleaseKillSwitch ==
    /\ killSwitch
    /\ killSwitch' = FALSE
    /\ UNCHANGED <<dbVars, gone, queueVars, probe, published>>

-----------------------------------------------------------------------------
Init ==
    /\ state \in {"idle", "disabled"}
    /\ killSwitch = FALSE
    /\ nRuns = 0
    /\ run = [r \in Runs |-> [status |-> "none", attempt |-> 0, trigger |-> None,
                              overdue |-> FALSE]]
    /\ inbox = [e \in EventIds |-> [status |-> "none", run |-> None, wait |-> None,
                                    at |-> 0]]
    /\ waits = [r \in Runs |-> [c \in Conditions |-> "none"]]
    /\ gone = {}
    /\ job = [r \in Runs |-> [a \in Attempts |-> "none"]]
    /\ reports = {} /\ timers = {} /\ waitJobs = {}
    /\ probe = NoProbe
    /\ published = {}

WorkerStep(r, a) ==
    StartJob(r, a) \/ SendResult(r, a) \/ CompleteJob(r, a)

JobFault(r, a) ==
    WorkerCrash(r, a) \/ ExpireJob(r, a) \/ LoseJob(r, a) \/ CancelJob(r, a)

WaitStep(r, c) ==
    WaitFallsDue(r, c) \/ HandleWaitTimeout(r, c) \/ LoseWaitJob(<<r, c>>)

Reconcile ==
    \/ \E r \in Runs : ObserveRun(r)
    \/ ProbeJob \/ ProbeReport \/ FailLostAttempt \/ ReconcileWaits

Operator ==
    PauseAgent \/ ResumeAgent \/ DisableAgent \/ EnableAgent \/ RedriveRun
    \/ KillAll \/ ReleaseKillSwitch

Next ==
    \/ \E e \in Events : IngestEvent(e) \/ RouteGrantedMention(e) \/ PostDeleted(e)
    \/ SweepSchedules \/ WakeScheduler
    \/ \E r \in Runs, c \in Conditions : WaitStep(r, c)
    \/ \E r \in Runs : ApprovalResolved(r) \/ ExtendApprovalWait(r) \/ DeadlinePasses(r)
    \/ \E r \in Runs, a \in Attempts : WorkerStep(r, a) \/ JobFault(r, a)
    \/ \E m \in reports : HandleRunReport(m) \/ DeadLetterReport(m)
    \/ \E t \in timers : HandleRunTimeout(t) \/ LoseTimer(t)
    \/ Reconcile
    \/ Operator

Spec == Init /\ [][Next]_vars

-----------------------------------------------------------------------------
(* Fairness: what keeps running.  A worker of the adapter is up, the queues  *)
(* deliver what they hold, clocks advance, and the controller's reconcile     *)
(* and schedule sweeps repeat.  No fault and no operator command is fair.     *)
(* Strong fairness of the wait timeout: reconciliation sends a lost job again *)
(* each pass, and the queue does not lose every one of them.                  *)

Fairness ==
    /\ \A r \in Runs, a \in Attempts :
         /\ WF_vars(StartJob(r, a)) /\ WF_vars(SendResult(r, a))
         /\ WF_vars(CompleteJob(r, a)) /\ WF_vars(ExpireJob(r, a))
         /\ WF_vars(HandleRunTimeout(<<r, a>>))
         /\ \A k \in Kinds :
              WF_vars(HandleRunReport(<<r, a, k>>) /\ <<r, a, k>> \notin reports')
    /\ \A r \in Runs : WF_vars(DeadlinePasses(r)) /\ WF_vars(ObserveRun(r))
    /\ WF_vars(ProbeJob) /\ WF_vars(ProbeReport) /\ WF_vars(FailLostAttempt)
    /\ \A r \in Runs, c \in Conditions :
         WF_vars(WaitFallsDue(r, c)) /\ SF_vars(HandleWaitTimeout(r, c))
    /\ WF_vars(ReconcileWaits)
    /\ WF_vars(SweepSchedules /\ nRuns' = nRuns + 1)

FairSpec == Spec /\ Fairness

-----------------------------------------------------------------------------
(* Safety. *)

\* At most one run is in progress, it is the latest, and the agent is QUEUED or
\* RUNNING exactly while it is, in the same phase: no report, timeout, lost-job
\* recovery or operator command leaves the agent busy without a run or a run
\* behind an agent that moved on.
RunMatchesState ==
    /\ \A r \in Runs : InProgress(run[r]) => r = nRuns
    /\ nRuns > 0 /\ InProgress(run[nRuns]) => state = run[nRuns].status
    /\ state \in {"queued", "running"} => nRuns > 0 /\ run[nRuns].status = state

ActiveRuns == { r \in Runs : \E c \in Conditions : ActiveWait(waits[r][c]) }
Resumptions == { e \in Pending(inbox) : inbox[e].wait # None }

\* A waiting agent has something to wait for: an active wait, or the pending entry
\* that resolved one.  Otherwise it would wait forever.
WaitingCanResume == state = "waiting" => ActiveRuns # {} \/ Resumptions # {}

\* An answer, a late answer found by the scan, a timeout and an approval racing for
\* a run's waits resume the agent once: one wait of a run is resolved, and while it
\* has waits open no earlier resumption is still pending.
OneResumption ==
    /\ \A r \in Runs :
         Cardinality({c \in Conditions : waits[r][c] \in {"matched", "timed_out"}}) <= 1
    /\ Cardinality(ActiveRuns) + Cardinality(Resumptions) <= 1

\* A run publishes once, from its last attempt, and only if it was not cancelled:
\* late, duplicate and out-of-order reports of other attempts publish nothing.
PublishedOnce ==
    \A p \in published : run[p[1]].attempt = p[2] /\ run[p[1]].status \in {"succeeded", "failed"}

\* An answer that came before its wait existed is not missed: a waiting agent has no
\* event, stored or pending, that answers one of its waits.  It holds where the
\* scheduler is not stopped before its scan (no "lifecycle" or "unresolved" hold, and
\* not the kill switch together with a grant: resumeAgent does not look at the switch).
MissedAnswersAreSeen == state = "waiting" => MissedAnswers(inbox, waits) = {}

\* Work that entered the inbox leaves it only in a published run, or because its
\* post is gone and it resumes nothing: cancelling, failing, retrying, deferring and
\* redriving drop no event.
WorkIsNotLost ==
    [][\A e \in EventIds : inbox[e].status \in {"pending", "claimed"} =>
        \/ inbox'[e].status \in {"pending", "claimed"}
        \/ inbox'[e].status = "consumed" /\ \E p \in published' : p[1] = inbox[e].run
        \/ inbox'[e].status = "dead" /\ e \in gone /\ inbox[e].wait = None]_vars

\* Reconciliation declares a queued attempt lost only if no report of it waits in the
\* queue: a worker that finished in the meantime is not run again.
LostMeansSilent ==
    [][probe.phase = "silent" /\ probe' = NoProbe /\ probe.status = "queued" /\ run' # run
        => ~\E m \in reports : m[1] = probe.run /\ m[2] = probe.attempt]_vars

\* FAILED is cleared by a redrive of the latest run, so the redrive must be possible.
FailedCanBeRedriven ==
    state = "failed" /\ ~killSwitch /\ nRuns < MaxRuns => ENABLED RedriveRun

-----------------------------------------------------------------------------
(* Liveness, under FairSpec. *)

\* Every run ends, although workers crash, jobs and timers are lost and reports are
\* dead-lettered: the deadline job or reconciliation ends each attempt.
EveryRunEnds == \A r \in Runs : InProgress(run[r]) ~> ~InProgress(run[r])

\* Pending work is started, unless the agent failed, or the bound on runs is reached.
WorkIsTaken ==
    \A e \in EventIds : inbox[e].status = "pending" ~>
        (inbox[e].status # "pending" \/ state = "failed" \/ nRuns = MaxRuns)

=============================================================================
