-------------------------- MODULE AgentRunsProofs --------------------------
(***************************************************************************)
(* Proofs about AgentRuns for every number of events, conditions, runs and *)
(* attempts, every fault and every operator command.                       *)
(***************************************************************************)
EXTENDS AgentRuns, FiniteSetTheorems, TLAPS

Inboxes == [EventIds -> InboxRows]
WaitTables == [Runs -> [Conditions -> WaitStatuses]]
RunTables == [Runs -> RunRows]

\* The types of the rows that scheduleAgent and applyFailure write.
RowsOK ==
    /\ state \in AgentStates /\ nRuns \in 0..MaxRuns /\ run \in RunTables
    /\ inbox \in Inboxes /\ waits \in WaitTables
    /\ job \in [Runs -> [Attempts -> JobStates]]
    /\ timers \subseteq Runs \X Attempts

(***************************************************************************)
(* The operators on rows keep their types.                                 *)
(***************************************************************************)
\* Facts about the constants that the other proofs use.
LEMMA ConstantFacts ==
    /\ MaxRuns \in Nat \ {0} /\ MaxAttempts \in Nat \ {0}
    /\ Runs \subseteq Nat /\ Attempts \subseteq Nat
    /\ 1 \in Runs /\ 1 \in Attempts
    /\ None \in 0..MaxRuns /\ Runs \subseteq 0..MaxRuns
    /\ Approval \in Conditions
    /\ Events \subseteq EventIds /\ Runs \subseteq EventIds
  BY BoundsAssumption, AnswersAssumption DEF Runs, Attempts, None, EventIds

\* resolveWait gives a table of waits.
LEMMA ResolveWaitType ==
    ASSUME NEW wt \in WaitTables, NEW r \in Runs, NEW c \in Conditions,
           NEW how \in WaitStatuses
    PROVE  ResolveWait(wt, r, c, how) \in WaitTables
  BY DEF ResolveWait, WaitTables, WaitStatuses

\* retireInbox gives an inbox.
LEMMA RetireInboxType ==
    ASSUME NEW ib \in Inboxes
    PROVE  RetireInbox(ib) \in Inboxes
  BY DEF RetireInbox, Inboxes, InboxRows, InboxStatuses

\* The scan for missed answers gives an inbox and a table of waits.
LEMMA ScanType ==
    ASSUME NEW ib \in Inboxes, NEW wt \in WaitTables, NEW st,
           NEW refused, NEW m \in ScanCandidates(st, ib, wt) \cup {NoMatch}
    PROVE  /\ InboxAfterScan(ib, refused, m) \in Inboxes
           /\ WaitsAfterScan(wt, m) \in WaitTables
<1>1. m # NoMatch => m[1] \in Events /\ m[2] \in Runs /\ m[3] \in Conditions
  BY DEF ScanCandidates, MissedAnswers
<1>2. m # NoMatch => m[2] \in 0..MaxRuns
  BY <1>1, ConstantFacts
<1>3. InboxAfterScan(ib, refused, m) \in Inboxes
  <2>1. ASSUME NEW e \in EventIds
        PROVE  InboxAfterScan(ib, refused, m)[e] \in InboxRows
    <3>1. ib[e] \in InboxRows
      BY DEF Inboxes
    <3>2. [ib[e] EXCEPT !.status = "refused"] \in InboxRows
      BY <3>1 DEF InboxRows, InboxStatuses
    <3>3. m # NoMatch => [ib[e] EXCEPT !.status = "pending", !.wait = m[2]] \in InboxRows
      BY <3>1, <1>2 DEF InboxRows, InboxStatuses
    <3> QED BY <3>1, <3>2, <3>3 DEF InboxAfterScan
  <2> QED BY <2>1 DEF InboxAfterScan, Inboxes
<1>4. WaitsAfterScan(wt, m) \in WaitTables
  BY <1>1, ResolveWaitType DEF WaitsAfterScan, WaitStatuses
<1> QED BY <1>3, <1>4

(***************************************************************************)
(* The scheduler either leaves the state and the runs as its caller has    *)
(* them, or starts one run of an agent that is not busy.                   *)
(***************************************************************************)
\* What a call of scheduleAgent comes to, with the rows it ends with.
LEMMA ScheduleCases ==
    ASSUME NEW st, NEW rn, NEW ib \in Inboxes, NEW wt \in WaitTables, NEW redrive,
           ScheduleAgent(st, rn, ib, wt, redrive)
    PROVE  \E ib2 \in Inboxes, wt2 \in WaitTables :
              \/ Skip(st, rn, ib2, wt2)
              \/ \E t \in EventIds : \E others :
                    StartRun(st, rn, ib2, wt2, t, others, redrive)
<1>1. PICK hold \in Holds :
        IF SkipsEarly(hold, st, redrive)
        THEN Skip(st, rn, ib, wt)
        ELSE LET kept == RetireInbox(ib)
                 found == ScanCandidates(st, kept, wt)
             IN \E refused \in SUBSET {a[1] : a \in found}, m \in found \cup {NoMatch} :
                  /\ ScanResult(kept, found, refused, m)
                  /\ LET ib2 == InboxAfterScan(kept, refused, m)
                         wt2 == WaitsAfterScan(wt, m)
                         ready == Triggers(st, rn, ib2, redrive)
                     IN IF \/ hold = "quota" /\ ~redrive
                           \/ hold \in {"budget", "context"}
                           \/ ready = {}
                           \/ nRuns = MaxRuns
                        THEN Skip(st, rn, ib2, wt2)
                        ELSE \E t \in ready : \E others \in Coalesced(ib2, t) :
                               StartRun(st, rn, ib2, wt2, t, others, redrive)
  BY DEF ScheduleAgent
<1>2. CASE SkipsEarly(hold, st, redrive)
  BY <1>1, <1>2
<1>3. CASE ~SkipsEarly(hold, st, redrive)
  <2> DEFINE kept == RetireInbox(ib)
             found == ScanCandidates(st, kept, wt)
  <2>1. PICK refused \in SUBSET {a[1] : a \in found}, m \in found \cup {NoMatch} :
          LET ib2 == InboxAfterScan(kept, refused, m)
              wt2 == WaitsAfterScan(wt, m)
              ready == Triggers(st, rn, ib2, redrive)
          IN \/ Skip(st, rn, ib2, wt2)
             \/ \E t \in ready : \E others \in Coalesced(ib2, t) :
                    StartRun(st, rn, ib2, wt2, t, others, redrive)
    BY <1>1, <1>3
  <2> DEFINE ib2 == InboxAfterScan(kept, refused, m)
             wt2 == WaitsAfterScan(wt, m)
  <2>2. kept \in Inboxes
    BY RetireInboxType
  <2>3. ib2 \in Inboxes /\ wt2 \in WaitTables
    <3> HIDE DEF kept
    <3> QED BY <2>2, ScanType
  <2>4. Triggers(st, rn, ib2, redrive) \subseteq EventIds
    <3> HIDE DEF ib2
    <3> QED BY DEF Triggers, Pending
  <2> HIDE DEF ib2, wt2
  <2>5. CASE Skip(st, rn, ib2, wt2)
    BY <2>3, <2>5
  <2>6. CASE \E t \in Triggers(st, rn, ib2, redrive) : \E others \in Coalesced(ib2, t) :
                StartRun(st, rn, ib2, wt2, t, others, redrive)
    BY <2>3, <2>4, <2>6
  <2> QED BY <2>1, <2>5, <2>6 DEF ib2, wt2
<1> QED BY <1>2, <1>3

\* The run that StartRun inserts, and the rows around it, have their types.
LEMMA StartRunType ==
    ASSUME TypeOK, NEW st \in AgentStates, NEW rn \in RunTables, NEW ib \in Inboxes,
           NEW wt \in WaitTables, NEW t \in EventIds, NEW others, NEW redrive,
           StartRun(st, rn, ib, wt, t, others, redrive)
    PROVE  RowsOK'
<1> DEFINE r == nRuns + 1
           row == [status |-> "queued", attempt |-> 1, trigger |-> t, overdue |-> FALSE]
<1>1. r \in Runs /\ 1 \in Attempts /\ nRuns' = r /\ r \in 0..MaxRuns
  <2>1. nRuns < MaxRuns /\ nRuns' = r
    BY DEF StartRun
  <2>2. nRuns \in 0..MaxRuns /\ MaxRuns \in Nat
    BY ConstantFacts DEF TypeOK
  <2> QED BY <2>1, <2>2, ConstantFacts DEF Runs
<1>2. row \in RunRows
  BY ConstantFacts DEF RunRows, RunStatuses
<1>3. PICK next \in AgentStates :
        SetRows(next, [rn EXCEPT ![r] = row],
                [e \in EventIds |-> IF e \in {t} \cup others
                                    THEN [ib[e] EXCEPT !.status = "claimed", !.run = r]
                                    ELSE ib[e]],
                wt)
  BY DEF StartRun, NextAgentState
<1>4. run' \in RunTables
  <2> HIDE DEF row
  <2> QED BY <1>1, <1>2, <1>3 DEF SetRows, RunTables
<1>5. inbox' \in Inboxes
  <2>1. ASSUME NEW e \in EventIds
        PROVE  [ib[e] EXCEPT !.status = "claimed", !.run = r] \in InboxRows
    BY <1>1 DEF Inboxes, InboxRows, InboxStatuses
  <2> QED BY <1>3, <2>1 DEF SetRows, Inboxes
<1>6. job' \in [Runs -> [Attempts -> JobStates]]
  <2>1. job' = [job EXCEPT ![r][1] = "created"]
    BY DEF StartRun
  <2>2. job \in [Runs -> [Attempts -> JobStates]] /\ "created" \in JobStates
    BY DEF TypeOK, JobStates
  <2> QED BY <1>1, <2>1, <2>2
<1>7. timers' \subseteq Runs \X Attempts
  <2>1. timers' = timers \cup {<<r, 1>>}
    BY DEF StartRun
  <2> QED BY <1>1, <2>1 DEF TypeOK
<1> QED BY <1>1, <1>3, <1>4, <1>5, <1>6, <1>7 DEF SetRows, RowsOK

\* The rows scheduleAgent writes have their types.
LEMMA ScheduleType ==
    ASSUME TypeOK, NEW st \in AgentStates, NEW rn \in RunTables, NEW ib \in Inboxes,
           NEW wt \in WaitTables, NEW redrive,
           ScheduleAgent(st, rn, ib, wt, redrive)
    PROVE  RowsOK'
<1>1. PICK ib2 \in Inboxes, wt2 \in WaitTables :
        \/ Skip(st, rn, ib2, wt2)
        \/ \E t \in EventIds : \E others : StartRun(st, rn, ib2, wt2, t, others, redrive)
  BY ScheduleCases
<1>2. CASE Skip(st, rn, ib2, wt2)
  BY <1>2 DEF Skip, SetRows, TypeOK, RowsOK
<1>3. CASE \E t \in EventIds : \E others : StartRun(st, rn, ib2, wt2, t, others, redrive)
  BY <1>3, StartRunType
<1> QED BY <1>1, <1>2, <1>3

(***************************************************************************)
(* Type correctness.                                                       *)
(***************************************************************************)
\* A function of records updated at one field keeps its type.
LEMMA RunUpdateType ==
    ASSUME TypeOK, NEW r \in Runs, NEW s \in RunStatuses
    PROVE  [run EXCEPT ![r].status = s] \in RunTables
<1>1. run \in RunTables /\ run[r] \in RunRows
  BY DEF TypeOK, RunTables
<1>2. [run[r] EXCEPT !.status = s] \in RunRows
  BY <1>1 DEF RunRows
<1>3. [run EXCEPT ![r].status = s] = [run EXCEPT ![r] = [run[r] EXCEPT !.status = s]]
  BY <1>1 DEF RunTables
<1> QED BY <1>1, <1>2, <1>3 DEF RunTables

\* Entries given back, or consumed, form an inbox.
LEMMA InboxUpdateType ==
    ASSUME TypeOK
    PROVE  /\ \A rs, statuses : ReturnInbox(rs, statuses) \in Inboxes
           /\ \A r : ConsumeInbox(r) \in Inboxes
           /\ \A e \in EventIds, w \in 0..MaxRuns : AddToInbox(e, w) \in Inboxes
           /\ \A e \in EventIds, s \in InboxStatuses : [inbox EXCEPT ![e].status = s] \in Inboxes
<1>1. \A e \in EventIds : inbox[e] \in InboxRows
  BY DEF TypeOK
<1>2. ASSUME NEW e \in EventIds, NEW s \in InboxStatuses
      PROVE  /\ [inbox[e] EXCEPT !.status = s] \in InboxRows
             /\ [inbox[e] EXCEPT !.status = s, !.run = None] \in InboxRows
  BY <1>1, ConstantFacts DEF InboxRows
<1>3. ASSUME NEW rs, NEW statuses
      PROVE  ReturnInbox(rs, statuses) \in Inboxes
  <2>1. "pending" \in InboxStatuses
    BY DEF InboxStatuses
  <2> QED BY <1>1, <1>2, <2>1 DEF ReturnInbox, Inboxes
<1>4. ASSUME NEW r
      PROVE  ConsumeInbox(r) \in Inboxes
  <2>1. "consumed" \in InboxStatuses
    BY DEF InboxStatuses
  <2> QED BY <1>1, <1>2, <2>1 DEF ConsumeInbox, Inboxes
<1>5. ASSUME NEW e \in EventIds, NEW w \in 0..MaxRuns
      PROVE  AddToInbox(e, w) \in Inboxes
  <2>1. [status |-> "pending", run |-> None, wait |-> w, at |-> nRuns] \in InboxRows
    BY ConstantFacts DEF TypeOK, InboxRows, InboxStatuses
  <2> QED BY <2>1 DEF AddToInbox, TypeOK, Inboxes
<1>6. ASSUME NEW e \in EventIds, NEW s \in InboxStatuses
      PROVE  [inbox EXCEPT ![e].status = s] \in Inboxes
  <2>1. [inbox EXCEPT ![e].status = s] = [inbox EXCEPT ![e] = [inbox[e] EXCEPT !.status = s]]
    BY DEF TypeOK
  <2> QED BY <1>2, <2>1 DEF TypeOK, Inboxes
<1> QED BY <1>3, <1>4, <1>5, <1>6

\* applyFailure writes rows of their types, whichever way the attempt ends.
LEMMA FailureType ==
    ASSUME TypeOK, NEW r \in Runs, NEW retryable \in BOOLEAN, NEW tm \in SUBSET (Runs \X Attempts),
           ApplyFailure(r, retryable, tm)
    PROVE  RowsOK'
<1>1. nRuns' \in 0..MaxRuns /\ waits' \in WaitTables
  BY DEF ApplyFailure, TypeOK, WaitTables
<1>2. run \in RunTables /\ run[r] \in RunRows /\ inbox \in Inboxes
  BY DEF TypeOK, RunTables, Inboxes
<1>3. CASE Retries(r, retryable) /\ RetryAttempt(r, tm)
  <2> DEFINE a == run[r].attempt + 1
  <2>1. a \in Attempts
    BY <1>2, <1>3, ConstantFacts DEF Retries, RunRows, Attempts
  <2>2. [run[r] EXCEPT !.status = "queued", !.attempt = a, !.overdue = FALSE] \in RunRows
    <3>1. a \in 0..MaxAttempts
      BY <2>1, ConstantFacts DEF Attempts
    <3> HIDE DEF a
    <3> QED BY <1>2, <3>1 DEF RunRows, RunStatuses
  <2>3. run' = [run EXCEPT ![r] = [run[r] EXCEPT !.status = "queued", !.attempt = a,
                                                 !.overdue = FALSE]]
    BY <1>2, <1>3 DEF RetryAttempt, RunTables
  <2>4. run' \in RunTables
    BY <1>2, <2>2, <2>3 DEF RunTables
  <2>5. job' = [job EXCEPT ![r][a] = "created"] /\ timers' = tm \cup {<<r, a>>} /\ inbox' = inbox
    BY <1>3 DEF RetryAttempt
  <2>6. job' \in [Runs -> [Attempts -> JobStates]]
    <3>1. job \in [Runs -> [Attempts -> JobStates]] /\ "created" \in JobStates
      BY DEF TypeOK, JobStates
    <3> QED BY <2>1, <2>5, <3>1
  <2>7. state' \in AgentStates
    BY <1>3 DEF RetryAttempt, NextAgentState
  <2>8. timers' \subseteq Runs \X Attempts
    BY <2>1, <2>5
  <2> QED BY <1>1, <1>2, <2>4, <2>5, <2>6, <2>7, <2>8 DEF RowsOK
<1>4. CASE DeferForBudget(r, tm)
  <2>1. run' \in RunTables
    BY <1>4, RunUpdateType DEF DeferForBudget, RunStatuses
  <2>2. inbox' \in Inboxes
    BY <1>4, InboxUpdateType DEF DeferForBudget
  <2> QED BY <1>1, <1>4, <2>1, <2>2 DEF DeferForBudget, NextAgentState, TypeOK, RowsOK
<1>5. CASE FailRun(r, tm)
  <2>1. run' \in RunTables
    BY <1>5, RunUpdateType DEF FailRun, RunStatuses
  <2> QED BY <1>1, <1>2, <1>5, <2>1 DEF FailRun, NextAgentState, TypeOK, RowsOK
<1> QED BY <1>3, <1>4, <1>5 DEF ApplyFailure

\* The rows as they stand before a step.
LEMMA RowsBefore ==
    ASSUME TypeOK
    PROVE  RowsOK
  BY DEF TypeOK, RowsOK, RunTables, Inboxes, WaitTables

\* A step that leaves the rows typed and changes nothing else keeps TypeOK.
LEMMA RowsSuffice ==
    ASSUME TypeOK, RowsOK',
           UNCHANGED <<killSwitch, gone, reports, waitJobs, probe, published>>
    PROVE  TypeOK'
  BY DEF TypeOK, RowsOK, RunTables, Inboxes, WaitTables

\* A step of the worker, or a fault of its job, keeps TypeOK.
LEMMA JobSteps ==
    ASSUME TypeOK, NEW r \in Runs, NEW a \in Attempts,
           WorkerStep(r, a) \/ JobFault(r, a)
    PROVE  TypeOK'
<1>1. ASSUME NEW s \in JobStates, SetJob(r, a, s)
      PROVE  job' \in [Runs -> [Attempts -> JobStates]]
  BY <1>1 DEF SetJob, TypeOK
<1>2. ASSUME NEW k \in Kinds, SendReport(r, a, k)
      PROVE  reports' \subseteq Runs \X Attempts \X Kinds
  BY <1>2 DEF SendReport, TypeOK
<1>3. CASE StartJob(r, a)
  <2>1. /\ job' \in [Runs -> [Attempts -> JobStates]]
        /\ reports' \subseteq Runs \X Attempts \X Kinds
    BY <1>1, <1>2, <1>3 DEF StartJob, JobStates, Kinds
  <2> QED BY <1>3, <2>1 DEF StartJob, TypeOK, dbVars
<1>4. CASE SendResult(r, a)
  <2>1. /\ job' \in [Runs -> [Attempts -> JobStates]]
        /\ reports' \subseteq Runs \X Attempts \X Kinds
    BY <1>1, <1>2, <1>4 DEF SendResult, JobStates, Kinds
  <2> QED BY <1>4, <2>1 DEF SendResult, TypeOK, dbVars
<1>5. ASSUME NEW s \in JobStates, SetJob(r, a, s),
             UNCHANGED <<dbVars, killSwitch, gone, reports, timers, waitJobs, probe, published>>
      PROVE  TypeOK'
  BY <1>1, <1>5 DEF TypeOK, dbVars
<1>6. CASE CompleteJob(r, a)
  BY <1>5, <1>6 DEF CompleteJob, JobStates
<1>7. CASE WorkerCrash(r, a)
  BY <1>5, <1>7 DEF WorkerCrash, JobStates
<1>8. CASE ExpireJob(r, a)
  BY <1>5, <1>8 DEF ExpireJob, JobStates
<1>9. CASE LoseJob(r, a)
  BY <1>5, <1>9 DEF LoseJob, JobStates
<1>10. CASE CancelJob(r, a)
  BY <1>5, <1>10 DEF CancelJob, JobStates
<1> QED BY <1>3, <1>4, <1>6, <1>7, <1>8, <1>9, <1>10 DEF WorkerStep, JobFault

\* Ingest, a granted mention and a deletion keep TypeOK.
LEMMA EventSteps ==
    ASSUME TypeOK, NEW e \in Events,
           IngestEvent(e) \/ RouteGrantedMention(e) \/ PostDeleted(e)
    PROVE  TypeOK'
<1>1. e \in EventIds /\ RowsOK
  BY RowsBefore, ConstantFacts
<1>2. CASE IngestEvent(e) /\ IngestUnrouted(e)
  <2>1. PICK d \in {"stored", "refused"} :
          inbox' = [inbox EXCEPT ![e].status = d, ![e].at = nRuns]
    BY <1>2 DEF IngestUnrouted
  <2>2. inbox' = [inbox EXCEPT ![e] = [inbox[e] EXCEPT !.status = d, !.at = nRuns]]
    BY <1>1, <2>1 DEF RowsOK, Inboxes
  <2>3. [inbox[e] EXCEPT !.status = d, !.at = nRuns] \in InboxRows
    BY <1>1 DEF RowsOK, Inboxes, InboxRows, InboxStatuses
  <2>4. inbox' \in Inboxes
    BY <1>1, <2>2, <2>3 DEF RowsOK, Inboxes
  <2>5. RowsOK'
    BY <1>1, <1>2, <2>4 DEF IngestUnrouted, RowsOK
  <2> QED BY <1>2, <2>5, RowsSuffice DEF IngestEvent
<1>3. CASE IngestEvent(e) /\ IngestWake(e)
  <2>1. AddToInbox(e, None) \in Inboxes
    BY <1>1, InboxUpdateType, ConstantFacts
  <2>2. RowsOK'
    BY <1>1, <1>3, <2>1, ScheduleType DEF IngestWake, RowsOK
  <2> QED BY <1>3, <2>2, RowsSuffice DEF IngestEvent
<1>4. CASE IngestEvent(e) /\ IngestWaitMatch(e)
  <2>1. PICK w \in MatchingWaits(e) :
          ScheduleAgent(state, run, AddToInbox(e, w[1]),
                        ResolveWait(waits, w[1], w[2], "matched"), FALSE)
    BY <1>4 DEF IngestWaitMatch
  <2>2. w[1] \in Runs /\ w[1] \in 0..MaxRuns /\ w[2] \in Conditions
    BY ConstantFacts DEF MatchingWaits
  <2>3. AddToInbox(e, w[1]) \in Inboxes
    BY <1>1, <2>2, InboxUpdateType
  <2>4. ResolveWait(waits, w[1], w[2], "matched") \in WaitTables
    BY <1>1, <2>2, ResolveWaitType DEF RowsOK, WaitStatuses
  <2>5. RowsOK'
    BY <1>1, <2>1, <2>3, <2>4, ScheduleType DEF RowsOK
  <2> QED BY <1>4, <2>5, RowsSuffice DEF IngestEvent
<1>5. CASE RouteGrantedMention(e)
  <2>1. \A s \in InboxStatuses : [inbox EXCEPT ![e].status = s] \in Inboxes
    BY <1>1, InboxUpdateType
  <2>2. CASE /\ inbox' = [inbox EXCEPT ![e].status = "refused"]
             /\ UNCHANGED <<state, nRuns, run, waits, job, timers>>
    <3>1. RowsOK'
      BY <1>1, <2>1, <2>2 DEF RowsOK, InboxStatuses
    <3> QED BY <1>5, <3>1, RowsSuffice DEF RouteGrantedMention
  <2>3. CASE ScheduleAgent(state, run, [inbox EXCEPT ![e].status = "pending"], waits, FALSE)
    <3>1. [inbox EXCEPT ![e].status = "pending"] \in Inboxes
      BY <2>1 DEF InboxStatuses
    <3>2. RowsOK'
      BY <1>1, <2>3, <3>1, ScheduleType DEF RowsOK
    <3> QED BY <1>5, <3>2, RowsSuffice DEF RouteGrantedMention
  <2> QED BY <1>5, <2>2, <2>3 DEF RouteGrantedMention
<1>6. CASE PostDeleted(e)
  BY <1>6 DEF PostDeleted, TypeOK
<1> QED BY <1>2, <1>3, <1>4, <1>5, <1>6 DEF IngestEvent

\* Wait timeouts, approvals and the jobs of waits keep TypeOK.
LEMMA WaitSteps ==
    ASSUME TypeOK, NEW r \in Runs, NEW c \in Conditions,
           WaitStep(r, c) \/ ApprovalResolved(r) \/ ExtendApprovalWait(r)
    PROVE  TypeOK'
<1>1. RowsOK /\ r \in EventIds /\ r \in 0..MaxRuns /\ Approval \in Conditions
  BY RowsBefore, ConstantFacts
<1>2. ASSUME NEW d \in Conditions, NEW how \in {"matched", "timed_out"},
             ResolveInternally(r, d, how)
      PROVE  RowsOK'
  <2>1. AddToInbox(r, r) \in Inboxes
    BY <1>1, InboxUpdateType
  <2>2. ResolveWait(waits, r, d, how) \in WaitTables
    BY <1>1, ResolveWaitType DEF RowsOK, WaitStatuses
  <2> QED BY <1>1, <1>2, <2>1, <2>2, ScheduleType DEF ResolveInternally, RowsOK
<1>3. CASE WaitFallsDue(r, c)
  <2>1. waits' = [waits EXCEPT ![r][c] = "due"]
    BY <1>3 DEF WaitFallsDue
  <2>2. waits' \in [Runs -> [Conditions -> WaitStatuses]]
    BY <2>1 DEF TypeOK, WaitStatuses
  <2> QED BY <1>3, <2>2 DEF WaitFallsDue, TypeOK
<1>4. CASE HandleWaitTimeout(r, c)
  <2>1. RowsOK'
    <3>1. CASE waits[r][c] = "due"
      BY <1>2, <1>4, <3>1 DEF HandleWaitTimeout
    <3>2. CASE waits[r][c] # "due"
      BY <1>1, <1>4, <3>2 DEF HandleWaitTimeout, RowsOK
    <3> QED BY <3>1, <3>2
  <2>2. waitJobs' \subseteq Runs \X Conditions
    BY <1>4 DEF HandleWaitTimeout, TypeOK
  <2> QED BY <1>4, <2>1, <2>2
          DEF HandleWaitTimeout, TypeOK, RowsOK, RunTables, Inboxes, WaitTables
<1>5. CASE LoseWaitJob(<<r, c>>)
  BY <1>5 DEF LoseWaitJob, TypeOK
<1>6. CASE ApprovalResolved(r)
  <2>1. RowsOK'
    BY <1>1, <1>2, <1>6 DEF ApprovalResolved
  <2> QED BY <1>6, <2>1, RowsSuffice DEF ApprovalResolved
<1>7. CASE ExtendApprovalWait(r)
  BY <1>1, <1>7 DEF ExtendApprovalWait, TypeOK
<1> QED BY <1>3, <1>4, <1>5, <1>6, <1>7 DEF WaitStep

\* The end of a run writes rows of their types.
LEMMA CompleteRunType ==
    ASSUME TypeOK, NEW r \in Runs, NEW a \in Attempts, NEW status \in RunStatuses,
           NEW transition, NEW newWaits \in SUBSET Conditions,
           CompleteRun(r, a, status, transition, newWaits)
    PROVE  /\ RowsOK'
           /\ waitJobs' \subseteq Runs \X Conditions
           /\ published' \subseteq Runs \X Attempts
<1> DEFINE wt == [waits EXCEPT ![r] = [c \in Conditions |->
                     IF c \in newWaits THEN "active" ELSE waits[r][c]]]
<1>1. PICK next \in AgentStates :
        ScheduleAgent(next, [run EXCEPT ![r].status = status], ConsumeInbox(r), wt, FALSE)
  BY DEF CompleteRun, NextAgentState
<1>2. [run EXCEPT ![r].status = status] \in RunTables /\ ConsumeInbox(r) \in Inboxes
  BY RunUpdateType, InboxUpdateType
<1>3. wt \in WaitTables
  BY DEF TypeOK, WaitTables, WaitStatuses
<1>4. RowsOK'
  <2> HIDE DEF wt
  <2> QED BY <1>1, <1>2, <1>3, ScheduleType
<1> QED BY <1>4 DEF CompleteRun, TypeOK

\* The report handler keeps TypeOK.
LEMMA ReportSteps ==
    ASSUME TypeOK, NEW m \in reports, HandleRunReport(m) \/ DeadLetterReport(m)
    PROVE  TypeOK'
<1> DEFINE r == m[1]
           a == m[2]
<1>1. RowsOK /\ r \in Runs /\ a \in Attempts
  BY RowsBefore DEF TypeOK
<1>2. CASE DeadLetterReport(m)
  BY <1>2 DEF DeadLetterReport, TypeOK, dbVars
<1>3. CASE HandleRunReport(m)
  <2>1. reports' \subseteq Runs \X Attempts \X Kinds
    BY <1>3 DEF HandleRunReport, TypeOK
  <2>2. killSwitch' \in BOOLEAN /\ gone' \subseteq Events /\ probe' \in Probes \cup {NoProbe}
    BY <1>3 DEF HandleRunReport, TypeOK
  <2>3. /\ RowsOK'
        /\ waitJobs' \subseteq Runs \X Conditions
        /\ published' \subseteq Runs \X Attempts
    <3> HIDE DEF r, a
    <3>1. CASE UNCHANGED <<dbVars, job, timers, waitJobs, published>>
      BY <1>1, <3>1 DEF dbVars, RowsOK, TypeOK
    <3>2. CASE ~Stale(r, a) /\ ApplyStarted(r)
      <4>1. run' \in RunTables
        BY <1>1, <3>2, RunUpdateType DEF ApplyStarted, RowsOK, RunStatuses
      <4>2. timers' \subseteq Runs \X Attempts
        <5>1. run[r].attempt \in Attempts
          BY <1>1, <3>2 DEF Stale
        <5> QED BY <1>1, <3>2, <5>1 DEF ApplyStarted, RowsOK
      <4> QED BY <1>1, <3>2, <4>1, <4>2 DEF ApplyStarted, RowsOK, AgentStates, TypeOK
    <3>3. CASE /\ \E retryable \in BOOLEAN : ApplyFailure(r, retryable, timers)
               /\ UNCHANGED <<waitJobs, published>>
      BY <1>1, <3>3, FailureType DEF RowsOK, TypeOK
    <3>4. CASE RefuseResult(r, a)
      <4>1. RowsOK'
        BY <1>1, <3>4, FailureType DEF RefuseResult, RowsOK
      <4> QED BY <1>1, <3>4, <4>1 DEF RefuseResult, TypeOK
    <3>5. CASE \E ws \in SUBSET Conditions :
                 \/ CompleteRun(r, a, "succeeded", "complete_idle", ws)
                 \/ CompleteRun(r, a, "succeeded", "complete_waiting", ws)
                 \/ CompleteRun(r, a, "failed", "fail", ws)
      BY <1>1, <3>5, CompleteRunType DEF RunStatuses
    <3>6. CASE ApplyCompletion(r, a)
      BY <3>4, <3>5, <3>6, ConstantFacts DEF ApplyCompletion
    <3> QED BY <1>3, <3>1, <3>2, <3>3, <3>6 DEF HandleRunReport, r, a
  <2> QED BY <2>1, <2>2, <2>3 DEF TypeOK, RowsOK, RunTables, Inboxes, WaitTables
<1> QED BY <1>2, <1>3

\* Timeouts, deadlines and reconciliation keep TypeOK.
LEMMA TimerSteps ==
    ASSUME TypeOK,
           \/ \E t \in timers : HandleRunTimeout(t) \/ LoseTimer(t)
           \/ \E r \in Runs : DeadlinePasses(r)
           \/ Reconcile
    PROVE  TypeOK'
<1>1. RowsOK
  BY RowsBefore
<1>2. ASSUME NEW t \in timers, HandleRunTimeout(t)
      PROVE  TypeOK'
  <2>1. t[1] \in Runs /\ timers \ {t} \in SUBSET (Runs \X Attempts)
    BY DEF TypeOK
  <2>2. RowsOK'
    <3>1. CASE ApplyFailure(t[1], TRUE, timers \ {t})
      BY <2>1, <3>1, FailureType
    <3>2. CASE timers' = timers \ {t} /\ UNCHANGED <<dbVars, job>>
      BY <1>1, <2>1, <3>2 DEF RowsOK, dbVars
    <3> QED BY <1>2, <3>1, <3>2 DEF HandleRunTimeout
  <2> QED BY <1>2, <2>2, RowsSuffice DEF HandleRunTimeout
<1>3. ASSUME NEW t \in timers, LoseTimer(t)
      PROVE  TypeOK'
  BY <1>3 DEF LoseTimer, TypeOK, dbVars
<1>4. ASSUME NEW r \in Runs, DeadlinePasses(r)
      PROVE  TypeOK'
  <2>1. run' = [run EXCEPT ![r] = [run[r] EXCEPT !.overdue = TRUE]]
    BY <1>1, <1>4 DEF DeadlinePasses, RowsOK, RunTables
  <2>2. [run[r] EXCEPT !.overdue = TRUE] \in RunRows
    BY <1>1 DEF RowsOK, RunTables, RunRows
  <2>3. run' \in RunTables
    BY <1>1, <2>1, <2>2 DEF RowsOK, RunTables
  <2> QED BY <1>4, <2>3 DEF DeadlinePasses, TypeOK, RunTables, queueVars
<1>5. ASSUME NEW r \in Runs, ObserveRun(r)
      PROVE  TypeOK'
  <2>1. run[r].attempt \in 0..MaxAttempts
    BY <1>1 DEF RowsOK, RunTables, RunRows
  <2>2. probe' \in Probes
    BY <1>5, <2>1 DEF ObserveRun, LooksStuck, Probes
  <2> QED BY <1>5, <2>2 DEF ObserveRun, TypeOK, dbVars, queueVars
<1>6. ASSUME NEW p \in {"job_gone", "silent"}, probe.phase # "none"
      PROVE  [probe EXCEPT !.phase = p] \in Probes
  <2>1. probe \in Probes
    BY <1>6 DEF TypeOK, NoProbe
  <2> QED BY <2>1 DEF Probes
<1>7. CASE ProbeJob
  <2>1. probe' \in Probes \cup {NoProbe}
    BY <1>6, <1>7 DEF ProbeJob
  <2> QED BY <1>7, <2>1 DEF ProbeJob, TypeOK, dbVars, queueVars
<1>8. CASE ProbeReport
  <2>1. probe' \in Probes \cup {NoProbe}
    BY <1>6, <1>8 DEF ProbeReport
  <2> QED BY <1>8, <2>1 DEF ProbeReport, TypeOK, dbVars, queueVars
<1>9. CASE FailLostAttempt
  <2>1. probe.run \in Runs
    BY <1>9 DEF FailLostAttempt, TypeOK, Probes, NoProbe
  <2>2. RowsOK'
    <3>1. CASE ApplyFailure(probe.run, TRUE, timers)
      BY <1>1, <2>1, <3>1, FailureType DEF RowsOK
    <3>2. CASE UNCHANGED <<dbVars, job, timers>>
      BY <1>1, <3>2 DEF RowsOK, dbVars
    <3> QED BY <1>9, <3>1, <3>2 DEF FailLostAttempt
  <2> QED BY <1>9, <2>2
          DEF FailLostAttempt, TypeOK, RowsOK, RunTables, Inboxes, WaitTables
<1>10. CASE ReconcileWaits
  BY <1>10 DEF ReconcileWaits, DueWaits, TypeOK
<1> QED BY <1>2, <1>3, <1>4, <1>5, <1>7, <1>8, <1>9, <1>10 DEF Reconcile

\* The operator's commands keep TypeOK.
LEMMA OperatorSteps ==
    ASSUME TypeOK, Operator
    PROVE  TypeOK'
<1>1. RowsOK
  BY RowsBefore
<1>2. ASSUME PauseInTransaction, killSwitch' \in BOOLEAN
      PROVE  TypeOK'
  <2>1. state' \in AgentStates
    BY <1>1, <1>2 DEF PauseInTransaction, NextAgentState, RowsOK
  <2>2. run' \in RunTables
    <3>1. \A r \in Runs : /\ run[r] \in RunRows
                          /\ [run[r] EXCEPT !.status = "cancelled"] \in RunRows
      BY <1>1 DEF RowsOK, RunTables, RunRows, RunStatuses
    <3> QED BY <1>1, <1>2, <3>1 DEF PauseInTransaction, RunTables, RowsOK
  <2>3. inbox' \in Inboxes
    BY <1>1, <1>2, InboxUpdateType DEF PauseInTransaction, RowsOK
  <2> QED BY <1>2, <2>1, <2>2, <2>3
          DEF PauseInTransaction, TypeOK, RunTables, Inboxes, queueVars
<1>3. CASE PauseAgent
  BY <1>2, <1>3 DEF PauseAgent, TypeOK
<1>4. CASE KillAll
  BY <1>2, <1>4 DEF KillAll
<1>5. CASE ResumeAgent
  <2>1. PICK next \in AgentStates : ScheduleAgent(next, run, inbox, waits, FALSE)
    BY <1>5 DEF ResumeAgent, NextAgentState
  <2>2. RowsOK'
    BY <1>1, <2>1, ScheduleType DEF RowsOK
  <2> QED BY <1>5, <2>2, RowsSuffice DEF ResumeAgent
<1>6. CASE DisableAgent
  <2>1. CancelActiveWaits(waits) \in WaitTables
    BY <1>1 DEF CancelActiveWaits, RowsOK, WaitTables, WaitStatuses
  <2> QED BY <1>6, <2>1 DEF DisableAgent, NextAgentState, TypeOK, WaitTables, queueVars
<1>7. CASE EnableAgent
  <2>1. PICK next \in AgentStates : ScheduleAgent(next, run, inbox, waits, FALSE)
    BY <1>7 DEF EnableAgent, NextAgentState
  <2>2. RowsOK'
    BY <1>1, <2>1, ScheduleType DEF RowsOK
  <2> QED BY <1>7, <2>2, RowsSuffice DEF EnableAgent
<1>8. CASE RedriveRun
  <2>1. ReturnInbox({nRuns}, {"claimed", "consumed"}) \in Inboxes
    BY InboxUpdateType
  <2>2. RowsOK'
    BY <1>1, <1>8, <2>1, ScheduleType DEF RedriveRun, RowsOK
  <2> QED BY <1>8, <2>2, RowsSuffice DEF RedriveRun
<1>9. CASE ReleaseKillSwitch
  BY <1>9 DEF ReleaseKillSwitch, TypeOK, dbVars, queueVars
<1> QED BY <1>3, <1>4, <1>5, <1>6, <1>7, <1>8, <1>9 DEF Operator

\* The rows of a fresh agent have their types.
LEMMA InitType == Init => TypeOK
<1> SUFFICES ASSUME Init PROVE TypeOK
  OBVIOUS
<1>1. run \in [Runs -> RunRows]
  BY ConstantFacts DEF Init, RunRows, RunStatuses, None
<1>2. inbox \in [EventIds -> InboxRows]
  BY ConstantFacts DEF Init, InboxRows, InboxStatuses, None
<1>3. nRuns \in 0..MaxRuns
  BY ConstantFacts DEF Init
<1> QED BY <1>1, <1>2, <1>3
        DEF Init, TypeOK, AgentStates, WaitStatuses, JobStates

\* Every step of the protocol keeps TypeOK.
LEMMA TypeStep == TypeOK /\ [Next]_vars => TypeOK'
<1> SUFFICES ASSUME TypeOK, [Next]_vars PROVE TypeOK'
  OBVIOUS
<1>1. CASE \E e \in Events : IngestEvent(e) \/ RouteGrantedMention(e) \/ PostDeleted(e)
  BY <1>1, EventSteps
<1>2. CASE SweepSchedules \/ WakeScheduler
  <2>1. RowsOK'
    BY <1>2, RowsBefore, ScheduleType DEF SweepSchedules, WakeScheduler, RowsOK
  <2> QED BY <1>2, <2>1, RowsSuffice DEF SweepSchedules, WakeScheduler
<1>3. CASE \E r \in Runs, c \in Conditions : WaitStep(r, c)
  BY <1>3, WaitSteps
<1>4. CASE \E r \in Runs : ApprovalResolved(r) \/ ExtendApprovalWait(r)
  BY <1>4, WaitSteps, ConstantFacts
<1>5. CASE \E r \in Runs, a \in Attempts : WorkerStep(r, a) \/ JobFault(r, a)
  BY <1>5, JobSteps
<1>6. CASE \E m \in reports : HandleRunReport(m) \/ DeadLetterReport(m)
  BY <1>6, ReportSteps
<1>7. CASE \/ \E t \in timers : HandleRunTimeout(t) \/ LoseTimer(t)
           \/ \E r \in Runs : DeadlinePasses(r)
           \/ Reconcile
  BY <1>7, TimerSteps
<1>8. CASE Operator
  BY <1>8, OperatorSteps
<1>9. CASE UNCHANGED vars
  BY <1>9 DEF vars, TypeOK
<1> QED BY <1>1, <1>2, <1>3, <1>4, <1>5, <1>6, <1>7, <1>8, <1>9 DEF Next

\* Every row, queue and probe keeps its type, whatever fails or is commanded: in
\* particular no run has more than MAX_RUN_ATTEMPTS attempts or jobs.
THEOREM TypeCorrect == Spec => []TypeOK
  BY InitType, TypeStep, PTL DEF Spec

(***************************************************************************)
(* The agent is busy exactly while its latest run is in progress.  The     *)
(* invariant is inductive over TypeOK: the scheduler starts a run only     *)
(* from a state that, by the invariant, has no run in progress; every      *)
(* handler that ends an attempt is fenced by the attempt being current.    *)
(***************************************************************************)
\* RunMatchesState of the state st and n runs rn, as a transaction has them.
Matches(st, n, rn) ==
    /\ \A r \in Runs : InProgress(rn[r]) => r = n
    /\ n > 0 /\ InProgress(rn[n]) => st = rn[n].status
    /\ st \in {"queued", "running"} => n > 0 /\ rn[n].status = st

\* Where each transition of the state machine leads.
LEMMA TransitionFacts ==
    ASSUME NEW st, NEW to
    PROVE  /\ to \in NextAgentState(st, "schedule") => to = "queued"
           /\ to \in NextAgentState(st, "wait_resolved") => to = "queued"
           /\ to \in NextAgentState(st, "redrive") => to = "queued"
           /\ to \in NextAgentState(st, "retry") => to = "queued"
           /\ to \in NextAgentState(st, "complete_idle") => to = "idle"
           /\ to \in NextAgentState(st, "complete_waiting") => to = "waiting"
           /\ to \in NextAgentState(st, "fail") => to = "failed"
           /\ to \in NextAgentState(st, "pause") => to = "paused"
           /\ to \in NextAgentState(st, "disable") =>
                to = "disabled" /\ st \notin {"queued", "running"}
           /\ to \in NextAgentState(st, "enable") => to = "idle"
           /\ to \in NextAgentState(st, "enable_failed") => to = "failed"
           /\ to \in NextAgentState(st, "resume_idle") => to = "idle"
           /\ to \in NextAgentState(st, "resume_waiting") => to = "waiting"
           /\ to \in NextAgentState(st, "none") => FALSE
  BY DEF NextAgentState, TRANSITIONS

\* The state may change freely while no run is in progress.
LEMMA MatchesWhenFree ==
    ASSUME NEW n \in 0..MaxRuns, NEW rn, NEW st,
           \A r \in Runs : ~InProgress(rn[r]), st \notin {"queued", "running"}
    PROVE  Matches(st, n, rn)
<1>1. n > 0 => n \in Runs
  BY ConstantFacts DEF Runs
<1> QED BY <1>1 DEF Matches

\* An agent that is not busy has no run in progress.
LEMMA FreeMeansNoRun ==
    ASSUME NEW n \in 0..MaxRuns, NEW rn, NEW st, Matches(st, n, rn),
           st \notin {"queued", "running"}
    PROVE  \A r \in Runs : ~InProgress(rn[r])
<1> SUFFICES ASSUME NEW r \in Runs, InProgress(rn[r]) PROVE FALSE
  OBVIOUS
<1>1. r = n /\ n > 0
  BY ConstantFacts DEF Matches, Runs
<1>2. st = rn[n].status
  BY <1>1 DEF Matches
<1> QED BY <1>1, <1>2 DEF InProgress

\* scheduleAgent keeps the invariant of the rows its caller has.
LEMMA ScheduleMatches ==
    ASSUME TypeOK, NEW st, NEW rn \in RunTables, NEW ib \in Inboxes, NEW wt \in WaitTables,
           NEW redrive, Matches(st, nRuns, rn), ScheduleAgent(st, rn, ib, wt, redrive)
    PROVE  RunMatchesState'
<1>1. PICK ib2 \in Inboxes, wt2 \in WaitTables :
        \/ Skip(st, rn, ib2, wt2)
        \/ \E t \in EventIds : \E others : StartRun(st, rn, ib2, wt2, t, others, redrive)
  BY ScheduleCases
<1>2. CASE Skip(st, rn, ib2, wt2)
  BY <1>2 DEF Skip, SetRows, Matches, RunMatchesState
<1>3. CASE \E t \in EventIds : \E others : StartRun(st, rn, ib2, wt2, t, others, redrive)
  <2>0. PICK t \in EventIds : \E others : StartRun(st, rn, ib2, wt2, t, others, redrive)
    BY <1>3
  <2>1. PICK others : StartRun(st, rn, ib2, wt2, t, others, redrive)
    BY <2>0
  <2> DEFINE n == nRuns + 1
             row == [status |-> "queued", attempt |-> 1, trigger |-> t, overdue |-> FALSE]
  <2>2. PICK next \in NextAgentState(st, ScheduleTransition(st, redrive)) :
          state' = next /\ run' = [rn EXCEPT ![n] = row]
    BY <2>1 DEF StartRun, SetRows
  <2>3. next = "queued" /\ st \notin {"queued", "running"}
    <3>1. CASE st \in {"queued", "running"}
      <4>1. ScheduleTransition(st, redrive) = "none"
        BY <3>1 DEF ScheduleTransition
      <4> QED BY <2>2, <4>1, TransitionFacts
    <3>2. CASE st \notin {"queued", "running"}
      <4>1. ScheduleTransition(st, redrive) \in {"schedule", "wait_resolved", "redrive", "none"}
        BY DEF ScheduleTransition
      <4> QED BY <2>2, <3>2, <4>1, TransitionFacts
    <3> QED BY <3>1, <3>2
  <2>4. n \in Runs /\ n > 0 /\ nRuns' = n
    <3>1. nRuns < MaxRuns /\ nRuns' = n
      BY <2>1 DEF StartRun
    <3>2. nRuns \in 0..MaxRuns /\ MaxRuns \in Nat
      BY ConstantFacts DEF TypeOK
    <3> QED BY <3>1, <3>2 DEF Runs
  <2>5. \A r \in Runs : ~InProgress(rn[r])
    BY <2>3, FreeMeansNoRun DEF TypeOK
  <2>6. row.status = "queued"
    OBVIOUS
  <2>7. run'[n] = row /\ \A r \in Runs \ {n} : run'[r] = rn[r]
    <3> HIDE DEF row, n
    <3> QED BY <2>2, <2>4 DEF RunTables
  <2>8. run'[n].status = "queued"
    BY <2>6, <2>7
  <2>9. \A r \in Runs : InProgress(run'[r]) => r = n
    BY <2>5, <2>7
  <2> HIDE DEF n, row
  <2> QED BY <2>2, <2>3, <2>4, <2>8, <2>9 DEF RunMatchesState, InProgress
<1> QED BY <1>1, <1>2, <1>3

\* The run in progress is the latest, in the phase the agent is in.
LEMMA BusyRun ==
    ASSUME TypeOK, RunMatchesState, NEW r \in Runs, InProgress(run[r])
    PROVE  /\ r = nRuns /\ nRuns > 0 /\ state = run[r].status
           /\ \A q \in Runs \ {r} : ~InProgress(run[q])
<1>1. r = nRuns /\ r > 0
  BY DEF RunMatchesState, Runs
<1> QED BY <1>1 DEF RunMatchesState

\* A run in progress ends, with the agent in a state that is not busy.
LEMMA RunEnds ==
    ASSUME TypeOK, RunMatchesState, NEW r \in Runs, InProgress(run[r]),
           NEW s \in {"succeeded", "failed", "cancelled"},
           NEW st, st \notin {"queued", "running"}
    PROVE  Matches(st, nRuns, [run EXCEPT ![r].status = s])
<1> DEFINE rn == [run EXCEPT ![r].status = s]
<1>1. rn[r].status = s /\ \A q \in Runs \ {r} : rn[q] = run[q]
  BY DEF TypeOK, RunRows
<1>2. \A q \in Runs : ~InProgress(rn[q])
  BY <1>1, BusyRun DEF InProgress
<1> HIDE DEF rn
<1>3. Matches(st, nRuns, rn)
  BY <1>2, MatchesWhenFree DEF TypeOK
<1> QED BY <1>3 DEF rn

\* applyFailure of the run in progress keeps the invariant.
LEMMA FailureMatches ==
    ASSUME TypeOK, RunMatchesState, NEW r \in Runs, InProgress(run[r]),
           NEW retryable \in BOOLEAN, NEW tm, ApplyFailure(r, retryable, tm)
    PROVE  RunMatchesState'
<1>1. nRuns' = nRuns
  BY DEF ApplyFailure
<1>2. CASE RetryAttempt(r, tm)
  <2>1. state' = "queued"
    BY <1>2, TransitionFacts DEF RetryAttempt
  <2>2. run'[r].status = "queued" /\ \A q \in Runs \ {r} : run'[q] = run[q]
    BY <1>2 DEF RetryAttempt, TypeOK, RunRows
  <2> QED BY <1>1, <2>1, <2>2, BusyRun DEF RunMatchesState, InProgress
<1>3. CASE DeferForBudget(r, tm)
  <2>1. state' = "idle" /\ run' = [run EXCEPT ![r].status = "cancelled"]
    BY <1>3, TransitionFacts DEF DeferForBudget
  <2>2. Matches("idle", nRuns, [run EXCEPT ![r].status = "cancelled"])
    BY RunEnds
  <2> QED BY <1>1, <2>1, <2>2 DEF Matches, RunMatchesState
<1>4. CASE FailRun(r, tm)
  <2>1. state' = "failed" /\ run' = [run EXCEPT ![r].status = "failed"]
    BY <1>4, TransitionFacts DEF FailRun
  <2>2. Matches("failed", nRuns, [run EXCEPT ![r].status = "failed"])
    BY RunEnds
  <2> QED BY <1>1, <2>1, <2>2 DEF Matches, RunMatchesState
<1> QED BY <1>2, <1>3, <1>4 DEF ApplyFailure

\* The end of the run in progress keeps the invariant, with the run that follows it.
LEMMA CompleteMatches ==
    ASSUME TypeOK, RunMatchesState, NEW r \in Runs, InProgress(run[r]), NEW a,
           NEW status \in {"succeeded", "failed"},
           NEW transition \in {"complete_idle", "complete_waiting", "fail"},
           NEW newWaits \in SUBSET Conditions,
           CompleteRun(r, a, status, transition, newWaits)
    PROVE  RunMatchesState'
<1> DEFINE rn == [run EXCEPT ![r].status = status]
           wt == [waits EXCEPT ![r] = [c \in Conditions |->
                     IF c \in newWaits THEN "active" ELSE waits[r][c]]]
<1>1. PICK next \in NextAgentState(state, transition) :
        ScheduleAgent(next, rn, ConsumeInbox(r), wt, FALSE)
  BY DEF CompleteRun
<1>2. next \notin {"queued", "running"}
  BY TransitionFacts
<1>3. rn \in RunTables /\ ConsumeInbox(r) \in Inboxes
  BY RunUpdateType, InboxUpdateType DEF RunStatuses
<1>4. wt \in WaitTables
  BY DEF TypeOK, WaitTables, WaitStatuses
<1>5. Matches(next, nRuns, rn)
  BY <1>2, RunEnds
<1> HIDE DEF rn, wt
<1> QED BY <1>1, <1>3, <1>4, <1>5, ScheduleMatches

\* A report keeps the invariant: one of an attempt that is over changes no row.
LEMMA ReportMatches ==
    ASSUME TypeOK, RunMatchesState, NEW m \in reports, HandleRunReport(m)
    PROVE  RunMatchesState'
<1> DEFINE r == m[1]
           a == m[2]
<1>1. r \in Runs
  BY DEF TypeOK
<1> HIDE DEF r, a
<1>2. CASE UNCHANGED dbVars
  BY <1>2 DEF dbVars, RunMatchesState
<1>3. CASE ~Stale(r, a)
  <2>1. InProgress(run[r])
    BY <1>3 DEF Stale
  <2>2. CASE ApplyStarted(r)
    <3>1. CASE run[r].status = "queued"
      <4>1. state' = "running" /\ run' = [run EXCEPT ![r].status = "running"] /\ nRuns' = nRuns
        BY <1>1, <2>1, <2>2, <3>1, BusyRun DEF ApplyStarted
      <4>2. run'[r].status = "running" /\ \A q \in Runs \ {r} : run'[q] = run[q]
        BY <1>1, <4>1 DEF TypeOK, RunRows
      <4> QED BY <1>1, <2>1, <4>1, <4>2, BusyRun DEF RunMatchesState, InProgress
    <3>2. CASE run[r].status # "queued"
      BY <2>2, <3>2 DEF ApplyStarted, RunMatchesState
    <3> QED BY <3>1, <3>2
  <2>3. CASE \E retryable \in BOOLEAN : ApplyFailure(r, retryable, timers)
    BY <1>1, <2>1, <2>3, FailureMatches
  <2>4. CASE RefuseResult(r, a)
    BY <1>1, <2>1, <2>4, FailureMatches DEF RefuseResult
  <2>5. CASE \E ws \in SUBSET Conditions :
               \/ CompleteRun(r, a, "succeeded", "complete_idle", ws)
               \/ CompleteRun(r, a, "succeeded", "complete_waiting", ws)
               \/ CompleteRun(r, a, "failed", "fail", ws)
    BY <1>1, <2>1, <2>5, CompleteMatches
  <2>6. CASE ApplyCompletion(r, a)
    BY <2>4, <2>5, <2>6, ConstantFacts DEF ApplyCompletion
  <2> QED BY <1>3, <2>2, <2>3, <2>6 DEF HandleRunReport, r, a
<1> QED BY <1>2, <1>3 DEF HandleRunReport, r, a

\* A timeout, a deadline or a lost attempt found by reconciliation keeps the
\* invariant: each is fenced by the attempt being the current one.
LEMMA TimerMatches ==
    ASSUME TypeOK, RunMatchesState,
           \/ \E t \in timers : HandleRunTimeout(t)
           \/ \E r \in Runs : DeadlinePasses(r)
           \/ FailLostAttempt
    PROVE  RunMatchesState'
<1>1. CASE UNCHANGED dbVars
  BY <1>1 DEF dbVars, RunMatchesState
<1>2. ASSUME NEW t \in timers, HandleRunTimeout(t)
      PROVE  RunMatchesState'
  <2>1. t[1] \in Runs
    BY DEF TypeOK
  <2>2. CASE ~Stale(t[1], t[2]) /\ ApplyFailure(t[1], TRUE, timers \ {t})
    <3>1. InProgress(run[t[1]])
      BY <2>2 DEF Stale
    <3> QED BY <2>1, <2>2, <3>1, FailureMatches
  <2> QED BY <1>1, <1>2, <2>2 DEF HandleRunTimeout
<1>3. ASSUME NEW r \in Runs, DeadlinePasses(r)
      PROVE  RunMatchesState'
  <2>1. state' = state /\ nRuns' = nRuns
    BY <1>3 DEF DeadlinePasses
  <2>2. \A q \in Runs : run'[q].status = run[q].status
    BY <1>3 DEF DeadlinePasses, TypeOK, RunRows
  <2>3. nRuns > 0 => nRuns \in Runs
    BY ConstantFacts DEF TypeOK, Runs
  <2> QED BY <2>1, <2>2, <2>3 DEF RunMatchesState, InProgress
<1>4. CASE FailLostAttempt
  <2>1. probe.run \in Runs /\ probe.status \in {"queued", "running"}
    BY <1>4 DEF FailLostAttempt, TypeOK, Probes, NoProbe
  <2>2. CASE run[probe.run].status = probe.status /\ ApplyFailure(probe.run, TRUE, timers)
    <3>1. InProgress(run[probe.run])
      BY <2>1, <2>2 DEF InProgress
    <3> QED BY <2>1, <2>2, <3>1, FailureMatches
  <2> QED BY <1>1, <1>4, <2>2 DEF FailLostAttempt
<1> QED BY <1>2, <1>3, <1>4

\* The operator's commands keep the invariant.
LEMMA OperatorMatches ==
    ASSUME TypeOK, RunMatchesState, Operator
    PROVE  RunMatchesState'
<1>1. RowsOK /\ nRuns \in 0..MaxRuns /\ Matches(state, nRuns, run)
  BY RowsBefore DEF RowsOK, Matches, RunMatchesState
<1>2. ASSUME state \notin {"queued", "running"}, NEW st, st \notin {"queued", "running"}
      PROVE  Matches(st, nRuns, run)
  BY <1>1, <1>2, FreeMeansNoRun, MatchesWhenFree
<1>3. ASSUME PauseInTransaction
      PROVE  RunMatchesState'
  <2>1. CASE state \in {"paused", "disabled", "failed"}
    BY <1>3, <2>1 DEF PauseInTransaction, RunMatchesState
  <2>2. CASE state \notin {"paused", "disabled", "failed"}
    <3>1. state' = "paused" /\ nRuns' = nRuns
      BY <1>3, <2>2, TransitionFacts DEF PauseInTransaction
    <3>2. \A r \in Runs : ~InProgress(run'[r])
      BY <1>1, <1>3, <2>2 DEF PauseInTransaction, InProgress, RowsOK, RunTables, RunRows
    <3>3. nRuns > 0 => nRuns \in Runs
      BY <1>1, ConstantFacts DEF Runs
    <3> QED BY <3>1, <3>2, <3>3 DEF RunMatchesState
  <2> QED BY <2>1, <2>2
<1>4. CASE PauseAgent \/ KillAll
  BY <1>3, <1>4 DEF PauseAgent, KillAll
<1>5. CASE ResumeAgent
  <2>1. PICK next : /\ next \in {"idle", "waiting"}
                    /\ ScheduleAgent(next, run, inbox, waits, FALSE)
    BY <1>5, TransitionFacts DEF ResumeAgent
  <2>2. Matches(next, nRuns, run)
    BY <1>2, <1>5, <2>1 DEF ResumeAgent
  <2> QED BY <1>1, <2>1, <2>2, ScheduleMatches DEF RowsOK
<1>6. CASE DisableAgent
  <2>1. state' = "disabled" /\ state \notin {"queued", "running"}
    BY <1>6, TransitionFacts DEF DisableAgent
  <2>2. Matches("disabled", nRuns, run)
    BY <1>2, <2>1
  <2> QED BY <1>6, <2>1, <2>2 DEF DisableAgent, Matches, RunMatchesState
<1>7. CASE EnableAgent
  <2>1. PICK next : /\ next \in {"idle", "failed"}
                    /\ ScheduleAgent(next, run, inbox, waits, FALSE)
    BY <1>7, TransitionFacts DEF EnableAgent, EnableTransition
  <2>2. Matches(next, nRuns, run)
    BY <1>2, <1>7, <2>1 DEF EnableAgent
  <2> QED BY <1>1, <2>1, <2>2, ScheduleMatches DEF RowsOK
<1>8. CASE RedriveRun
  <2>1. ReturnInbox({nRuns}, {"claimed", "consumed"}) \in Inboxes
    BY InboxUpdateType
  <2> QED BY <1>1, <1>8, <2>1, ScheduleMatches DEF RedriveRun, RowsOK
<1>9. CASE ReleaseKillSwitch
  BY <1>9 DEF ReleaseKillSwitch, dbVars, RunMatchesState
<1> QED BY <1>4, <1>5, <1>6, <1>7, <1>8, <1>9 DEF Operator

\* A step that asks the scheduler for a run with the agent's state and runs as
\* they stand keeps the invariant, whatever it did to the inbox and the waits.
LEMMA CallerMatches ==
    ASSUME TypeOK, RunMatchesState, NEW ib \in Inboxes, NEW wt \in WaitTables,
           ScheduleAgent(state, run, ib, wt, FALSE)
    PROVE  RunMatchesState'
<1>1. Matches(state, nRuns, run) /\ run \in RunTables
  BY RowsBefore DEF RowsOK, Matches, RunMatchesState
<1> QED BY <1>1, ScheduleMatches

\* Events and waits keep the invariant.
LEMMA EventMatches ==
    ASSUME TypeOK, RunMatchesState,
           \/ \E e \in Events : IngestEvent(e) \/ RouteGrantedMention(e) \/ PostDeleted(e)
           \/ SweepSchedules \/ WakeScheduler
           \/ \E r \in Runs, c \in Conditions : WaitStep(r, c)
           \/ \E r \in Runs : ApprovalResolved(r) \/ ExtendApprovalWait(r)
    PROVE  RunMatchesState'
<1>1. RowsOK
  BY RowsBefore
<1>2. CASE UNCHANGED <<state, nRuns, run>>
  BY <1>2 DEF RunMatchesState
<1>3. CASE \E ib \in Inboxes, wt \in WaitTables : ScheduleAgent(state, run, ib, wt, FALSE)
  BY <1>3, CallerMatches
<1>4. ASSUME NEW r \in Runs, NEW c \in Conditions, NEW how \in {"matched", "timed_out"},
             ResolveInternally(r, c, how)
      PROVE  RunMatchesState'
  <2>1. AddToInbox(r, r) \in Inboxes
    BY InboxUpdateType, ConstantFacts
  <2>2. ResolveWait(waits, r, c, how) \in WaitTables
    BY <1>1, ResolveWaitType DEF RowsOK, WaitStatuses
  <2> QED BY <1>3, <1>4, <2>1, <2>2 DEF ResolveInternally
<1>5. ASSUME NEW e \in Events, IngestWake(e)
      PROVE  RunMatchesState'
  <2>1. AddToInbox(e, None) \in Inboxes
    BY InboxUpdateType, ConstantFacts
  <2> QED BY <1>1, <1>3, <1>5, <2>1 DEF IngestWake, RowsOK
<1>6. ASSUME NEW e \in Events, IngestWaitMatch(e)
      PROVE  RunMatchesState'
  <2>1. PICK w \in MatchingWaits(e) :
          ScheduleAgent(state, run, AddToInbox(e, w[1]),
                        ResolveWait(waits, w[1], w[2], "matched"), FALSE)
    BY <1>6 DEF IngestWaitMatch
  <2>2. w[1] \in Runs /\ w[2] \in Conditions
    BY DEF MatchingWaits
  <2>3. AddToInbox(e, w[1]) \in Inboxes
    BY <2>2, InboxUpdateType, ConstantFacts
  <2>4. ResolveWait(waits, w[1], w[2], "matched") \in WaitTables
    BY <1>1, <2>2, ResolveWaitType DEF RowsOK, WaitStatuses
  <2> QED BY <1>3, <2>1, <2>3, <2>4
<1>7. ASSUME NEW e \in Events, IngestEvent(e) \/ RouteGrantedMention(e) \/ PostDeleted(e)
      PROVE  RunMatchesState'
  <2>1. CASE IngestEvent(e)
    BY <1>2, <1>5, <1>6, <2>1 DEF IngestEvent, IngestUnrouted
  <2>2. CASE RouteGrantedMention(e)
    <3>1. [inbox EXCEPT ![e].status = "pending"] \in Inboxes
      BY InboxUpdateType, ConstantFacts DEF InboxStatuses
    <3> QED BY <1>1, <1>2, <1>3, <2>2, <3>1 DEF RouteGrantedMention, RowsOK
  <2>3. CASE PostDeleted(e)
    BY <1>2, <2>3 DEF PostDeleted
  <2> QED BY <1>7, <2>1, <2>2, <2>3
<1>8. CASE SweepSchedules \/ WakeScheduler
  BY <1>1, <1>3, <1>8 DEF SweepSchedules, WakeScheduler, RowsOK
<1>9. ASSUME NEW r \in Runs, NEW c \in Conditions, WaitStep(r, c)
      PROVE  RunMatchesState'
  <2>1. CASE HandleWaitTimeout(r, c)
    BY <1>2, <1>4, <2>1 DEF HandleWaitTimeout
  <2>2. CASE WaitFallsDue(r, c) \/ LoseWaitJob(<<r, c>>)
    BY <1>2, <2>2 DEF WaitFallsDue, LoseWaitJob
  <2> QED BY <1>9, <2>1, <2>2 DEF WaitStep
<1>10. ASSUME NEW r \in Runs, ApprovalResolved(r) \/ ExtendApprovalWait(r)
       PROVE  RunMatchesState'
  BY <1>2, <1>4, <1>10, ConstantFacts DEF ApprovalResolved, ExtendApprovalWait
<1> QED BY <1>7, <1>8, <1>9, <1>10

\* Every step of the protocol keeps the invariant.
LEMMA MatchStep == TypeOK /\ RunMatchesState /\ [Next]_vars => RunMatchesState'
<1> SUFFICES ASSUME TypeOK, RunMatchesState, [Next]_vars PROVE RunMatchesState'
  OBVIOUS
<1>1. CASE UNCHANGED dbVars
  BY <1>1 DEF dbVars, RunMatchesState
<1>2. CASE \/ \E e \in Events : IngestEvent(e) \/ RouteGrantedMention(e) \/ PostDeleted(e)
           \/ SweepSchedules \/ WakeScheduler
           \/ \E r \in Runs, c \in Conditions : WaitStep(r, c)
           \/ \E r \in Runs : ApprovalResolved(r) \/ ExtendApprovalWait(r)
  BY <1>2, EventMatches
<1>3. CASE \E r \in Runs, a \in Attempts : WorkerStep(r, a) \/ JobFault(r, a)
  BY <1>1, <1>3
     DEF WorkerStep, JobFault, StartJob, SendResult, CompleteJob, WorkerCrash, ExpireJob,
         LoseJob, CancelJob
<1>4. CASE \E m \in reports : HandleRunReport(m) \/ DeadLetterReport(m)
  BY <1>1, <1>4, ReportMatches DEF DeadLetterReport
<1>5. CASE \/ \E t \in timers : HandleRunTimeout(t) \/ LoseTimer(t)
           \/ \E r \in Runs : DeadlinePasses(r)
           \/ FailLostAttempt
  BY <1>1, <1>5, TimerMatches DEF LoseTimer
<1>6. CASE Reconcile
  <2>1. CASE FailLostAttempt
    BY <1>5, <2>1
  <2>2. CASE \/ \E r \in Runs : ObserveRun(r)
             \/ ProbeJob \/ ProbeReport \/ ReconcileWaits
    BY <1>1, <2>2 DEF ObserveRun, ProbeJob, ProbeReport, ReconcileWaits, dbVars
  <2> QED BY <1>6, <2>1, <2>2 DEF Reconcile
<1>7. CASE Operator
  BY <1>7, OperatorMatches
<1>8. CASE UNCHANGED vars
  BY <1>1, <1>8 DEF vars, dbVars
<1> QED BY <1>2, <1>3, <1>4, <1>5, <1>6, <1>7, <1>8 DEF Next

\* At most one run is in progress, it is the latest, and the agent is QUEUED or
\* RUNNING exactly while it is, for every number of events, runs and attempts.
THEOREM BusyMeansRunning == Spec => []RunMatchesState
<1>1. Init => RunMatchesState
  BY DEF Init, RunMatchesState, InProgress
<1> QED BY <1>1, InitType, TypeStep, MatchStep, PTL DEF Spec

(***************************************************************************)
(* What a step may do to the rows of the runs.                             *)
(***************************************************************************)
\* Run ids above the newest are not in use.
FutureIsBlank(n, rn) == \A r \in Runs : r > n => rn[r].status = "none"

Over == {"succeeded", "failed", "cancelled"}

SameRow(r) ==
    /\ run'[r].status = run[r].status /\ run'[r].attempt = run[r].attempt
    /\ run'[r].trigger = run[r].trigger

Inserted(r) ==
    /\ r = nRuns + 1 /\ nRuns' = r
    /\ run'[r].status = "queued" /\ run'[r].attempt = 1 /\ job'[r][1] = "created"

Retried(r) ==
    /\ InProgress(run[r])
    /\ run'[r].status = "queued" /\ run'[r].attempt = run[r].attempt + 1
    /\ run'[r].trigger = run[r].trigger
    /\ job'[r][run[r].attempt + 1] = "created"

Started(r) ==
    /\ run[r].status = "queued" /\ run'[r].status = "running"
    /\ run'[r].attempt = run[r].attempt /\ run'[r].trigger = run[r].trigger

Ended(r) ==
    /\ InProgress(run[r]) /\ run'[r].status \in Over
    /\ run'[r].attempt = run[r].attempt /\ run'[r].trigger = run[r].trigger

\* What becomes of the row of run r.
RowStep(r) == SameRow(r) \/ Inserted(r) \/ Retried(r) \/ Started(r) \/ Ended(r)

RowSteps == nRuns' >= nRuns /\ FutureIsBlank(nRuns', run') /\ \A r \in Runs : RowStep(r)

\* The jobs change with the attempts: a new attempt has a job, the others keep theirs.
JobsFollow ==
    \A r \in Runs, a \in Attempts :
        \/ job'[r][a] = job[r][a]
        \/ (Inserted(r) \/ Retried(r)) /\ run'[r].attempt = a

\* What a call of the scheduler does to the runs its caller has.
LEMMA ScheduleRows ==
    ASSUME TypeOK, NEW st, NEW rn \in RunTables, NEW ib \in Inboxes, NEW wt \in WaitTables,
           NEW redrive, ScheduleAgent(st, rn, ib, wt, redrive)
    PROVE  \/ nRuns' = nRuns /\ run' = rn /\ job' = job
           \/ /\ nRuns + 1 \in Runs /\ nRuns' = nRuns + 1
              /\ run'[nRuns + 1].status = "queued" /\ run'[nRuns + 1].attempt = 1
              /\ \A r \in Runs \ {nRuns + 1} : run'[r] = rn[r]
              /\ job'[nRuns + 1][1] = "created"
              /\ \A r \in Runs, a \in Attempts :
                    job'[r][a] = job[r][a] \/ (r = nRuns + 1 /\ a = 1)
<1>1. PICK ib2 \in Inboxes, wt2 \in WaitTables :
        \/ Skip(st, rn, ib2, wt2)
        \/ \E t \in EventIds : \E others : StartRun(st, rn, ib2, wt2, t, others, redrive)
  BY ScheduleCases
<1>2. CASE Skip(st, rn, ib2, wt2)
  BY <1>2 DEF Skip, SetRows
<1>3. CASE \E t \in EventIds : \E others : StartRun(st, rn, ib2, wt2, t, others, redrive)
  <2>0. PICK t \in EventIds : \E others : StartRun(st, rn, ib2, wt2, t, others, redrive)
    BY <1>3
  <2>1. PICK others : StartRun(st, rn, ib2, wt2, t, others, redrive)
    BY <2>0
  <2> DEFINE n == nRuns + 1
             row == [status |-> "queued", attempt |-> 1, trigger |-> t, overdue |-> FALSE]
  <2>2. run' = [rn EXCEPT ![n] = row] /\ job' = [job EXCEPT ![n][1] = "created"]
    BY <2>1 DEF StartRun, SetRows
  <2>3. n \in Runs /\ nRuns' = n
    <3>1. nRuns < MaxRuns /\ nRuns' = n
      BY <2>1 DEF StartRun
    <3>2. nRuns \in 0..MaxRuns /\ MaxRuns \in Nat
      BY ConstantFacts DEF TypeOK
    <3> QED BY <3>1, <3>2 DEF Runs
  <2>4. row.status = "queued" /\ row.attempt = 1
    OBVIOUS
  <2>5. run'[n] = row /\ \A r \in Runs \ {n} : run'[r] = rn[r]
    <3> HIDE DEF row, n
    <3> QED BY <2>2, <2>3 DEF RunTables
  <2>6. /\ job'[n][1] = "created"
        /\ \A r \in Runs, a \in Attempts : job'[r][a] = job[r][a] \/ (r = n /\ a = 1)
    <3> HIDE DEF n
    <3> QED BY <2>2, <2>3, ConstantFacts DEF TypeOK
  <2> QED BY <2>3, <2>4, <2>5, <2>6
<1> QED BY <1>1, <1>2, <1>3

\* A call of the scheduler on the runs as they stand.
LEMMA CallerRows ==
    ASSUME TypeOK, FutureIsBlank(nRuns, run), NEW st, NEW ib \in Inboxes, NEW wt \in WaitTables,
           NEW redrive, ScheduleAgent(st, run, ib, wt, redrive)
    PROVE  RowSteps /\ JobsFollow
<1>1. run \in RunTables /\ nRuns \in Nat
  BY RowsBefore DEF RowsOK
<1>2. CASE nRuns' = nRuns /\ run' = run /\ job' = job
  BY <1>1, <1>2 DEF RowSteps, RowStep, SameRow, FutureIsBlank, JobsFollow
<1>3. CASE /\ nRuns + 1 \in Runs /\ nRuns' = nRuns + 1
           /\ run'[nRuns + 1].status = "queued" /\ run'[nRuns + 1].attempt = 1
           /\ \A r \in Runs \ {nRuns + 1} : run'[r] = run[r]
           /\ job'[nRuns + 1][1] = "created"
           /\ \A r \in Runs, a \in Attempts :
                 job'[r][a] = job[r][a] \/ (r = nRuns + 1 /\ a = 1)
  <2>1. FutureIsBlank(nRuns', run')
    BY <1>1, <1>3 DEF FutureIsBlank, Runs
  <2>2. ASSUME NEW r \in Runs PROVE RowStep(r)
    BY <1>3 DEF RowStep, SameRow, Inserted
  <2>3. JobsFollow
    BY <1>3 DEF JobsFollow, Inserted
  <2> QED BY <1>1, <1>3, <2>1, <2>2, <2>3 DEF RowSteps
<1> QED BY <1>1, <1>2, <1>3, ScheduleRows

\* A step that leaves the runs alone.
LEMMA RowsStay ==
    ASSUME TypeOK, FutureIsBlank(nRuns, run), UNCHANGED <<nRuns, run>>
    PROVE  RowSteps
  BY DEF RowSteps, RowStep, SameRow, FutureIsBlank, TypeOK

\* A step that changes only the row of a run that is in progress.
LEMMA OneRowSteps ==
    ASSUME TypeOK, FutureIsBlank(nRuns, run), nRuns' = nRuns, NEW r \in Runs, InProgress(run[r]),
           \A q \in Runs \ {r} : run'[q] = run[q], RowStep(r)
    PROVE  RowSteps
<1>1. r <= nRuns
  BY DEF FutureIsBlank, InProgress, Runs, TypeOK
<1>2. FutureIsBlank(nRuns', run')
  BY <1>1 DEF FutureIsBlank, Runs, TypeOK
<1>3. ASSUME NEW q \in Runs PROVE RowStep(q)
  BY DEF RowStep, SameRow
<1> QED BY <1>2, <1>3 DEF RowSteps, TypeOK

\* applyFailure of the run in progress retries, defers or fails it.
LEMMA FailureRows ==
    ASSUME TypeOK, FutureIsBlank(nRuns, run), NEW r \in Runs, InProgress(run[r]),
           NEW retryable \in BOOLEAN, NEW tm, ApplyFailure(r, retryable, tm)
    PROVE  /\ RowSteps /\ JobsFollow
           /\ ~retryable => run'[r].status = "failed" /\ run'[r].attempt = run[r].attempt
<1>0. nRuns' = nRuns /\ run[r] \in RunRows /\ run[r].attempt \in Nat
  BY ConstantFacts DEF ApplyFailure, TypeOK, RunRows
<1>1. ASSUME NEW s \in Over, run' = [run EXCEPT ![r].status = s], job' = job
      PROVE  RowSteps /\ JobsFollow /\ run'[r].status = s /\ run'[r].attempt = run[r].attempt
  <2>1. /\ run'[r].status = s /\ run'[r].attempt = run[r].attempt
        /\ run'[r].trigger = run[r].trigger
        /\ \A q \in Runs \ {r} : run'[q] = run[q]
    BY <1>1 DEF TypeOK, RunRows
  <2>2. RowStep(r)
    BY <2>1 DEF RowStep, Ended
  <2>3. JobsFollow
    BY <1>1 DEF JobsFollow
  <2> QED BY <1>0, <2>1, <2>2, <2>3, OneRowSteps
<1>2. CASE Retries(r, retryable) /\ RetryAttempt(r, tm)
  <2> DEFINE a == run[r].attempt + 1
  <2>1. run' = [run EXCEPT ![r].status = "queued", ![r].attempt = a, ![r].overdue = FALSE]
    BY <1>2 DEF RetryAttempt
  <2>2. job' = [job EXCEPT ![r][a] = "created"] /\ a \in Attempts
    BY <1>0, <1>2, ConstantFacts DEF RetryAttempt, Retries, Attempts
  <2>3. job'[r][a] = "created"
    <3> HIDE DEF a
    <3> QED BY <2>2 DEF TypeOK
  <2>4. \A q \in Runs \ {r} : run'[q] = run[q]
    BY <2>1 DEF TypeOK
  <2>5. run'[r] = [run[r] EXCEPT !.status = "queued", !.attempt = a, !.overdue = FALSE]
    BY <2>1 DEF TypeOK
  <2>6. run'[r].status = "queued" /\ run'[r].attempt = a /\ run'[r].trigger = run[r].trigger
    <3> HIDE DEF a
    <3> QED BY <1>0, <2>5 DEF RunRows
  <2>7. RowStep(r)
    BY <2>3, <2>6 DEF RowStep, Retried
  <2>8. \A q \in Runs, b \in Attempts : job'[q][b] = job[q][b] \/ (q = r /\ b = a)
    <3> HIDE DEF a
    <3> QED BY <2>2 DEF TypeOK
  <2>9. JobsFollow
    BY <2>3, <2>6, <2>8 DEF JobsFollow, Retried
  <2> QED BY <1>0, <1>2, <2>4, <2>7, <2>9, OneRowSteps DEF Retries
<1>3. CASE Retries(r, retryable) /\ DeferForBudget(r, tm)
  BY <1>1, <1>3 DEF DeferForBudget, Over, Retries
<1>4. CASE FailRun(r, tm)
  BY <1>1, <1>4 DEF FailRun, Over
<1> QED BY <1>2, <1>3, <1>4 DEF ApplyFailure

\* The end of the run in progress, with the run that follows it.
LEMMA CompleteRows ==
    ASSUME TypeOK, RunMatchesState, FutureIsBlank(nRuns, run), NEW r \in Runs, InProgress(run[r]),
           NEW a, NEW status \in {"succeeded", "failed"}, NEW transition,
           NEW newWaits \in SUBSET Conditions,
           CompleteRun(r, a, status, transition, newWaits)
    PROVE  /\ RowSteps /\ JobsFollow
           /\ run'[r].status = status /\ run'[r].attempt = run[r].attempt
<1> DEFINE rn == [run EXCEPT ![r].status = status]
           wt == [waits EXCEPT ![r] = [c \in Conditions |->
                     IF c \in newWaits THEN "active" ELSE waits[r][c]]]
<1>1. PICK next : ScheduleAgent(next, rn, ConsumeInbox(r), wt, FALSE)
  BY DEF CompleteRun
<1>2. rn \in RunTables /\ ConsumeInbox(r) \in Inboxes
  BY RunUpdateType, InboxUpdateType DEF RunStatuses
<1>3. wt \in WaitTables
  BY DEF TypeOK, WaitTables, WaitStatuses
<1>4. r = nRuns /\ nRuns \in Nat
  BY BusyRun DEF TypeOK
<1>5. /\ rn[r].status = status /\ rn[r].attempt = run[r].attempt
      /\ rn[r].trigger = run[r].trigger
      /\ \A q \in Runs \ {r} : rn[q] = run[q]
  BY DEF TypeOK, RunRows
<1> HIDE DEF rn, wt
<1>6. \/ nRuns' = nRuns /\ run' = rn /\ job' = job
      \/ /\ nRuns + 1 \in Runs /\ nRuns' = nRuns + 1
         /\ run'[nRuns + 1].status = "queued" /\ run'[nRuns + 1].attempt = 1
         /\ \A q \in Runs \ {nRuns + 1} : run'[q] = rn[q]
         /\ job'[nRuns + 1][1] = "created"
         /\ \A q \in Runs, b \in Attempts :
               job'[q][b] = job[q][b] \/ (q = nRuns + 1 /\ b = 1)
  BY <1>1, <1>2, <1>3, ScheduleRows
<1>7. run'[r] = rn[r]
  BY <1>4, <1>6
<1>8. FutureIsBlank(nRuns', run')
  BY <1>4, <1>5, <1>6 DEF FutureIsBlank, Runs
<1>9. ASSUME NEW q \in Runs PROVE RowStep(q)
  <2>1. CASE q = r
    BY <1>5, <1>7, <2>1 DEF RowStep, Ended, Over
  <2>2. CASE q # r
    BY <1>4, <1>5, <1>6, <2>2 DEF RowStep, SameRow, Inserted
  <2> QED BY <2>1, <2>2
<1>10. JobsFollow
  BY <1>6 DEF JobsFollow, Inserted
<1> QED BY <1>4, <1>5, <1>6, <1>7, <1>8, <1>9, <1>10 DEF RowSteps

\* Whoever calls the scheduler outside the report handler calls it on the runs as they stand.
LEMMA SchedulerCalls ==
    ASSUME TypeOK,
           \/ \E e \in Events : IngestEvent(e) \/ RouteGrantedMention(e) \/ PostDeleted(e)
           \/ SweepSchedules \/ WakeScheduler
           \/ \E r \in Runs, c \in Conditions : WaitStep(r, c)
           \/ \E r \in Runs : ApprovalResolved(r) \/ ExtendApprovalWait(r)
           \/ ResumeAgent \/ EnableAgent \/ RedriveRun
    PROVE  \/ UNCHANGED <<nRuns, run, job>>
           \/ \E st, redrive : \E ib \in Inboxes, wt \in WaitTables :
                 ScheduleAgent(st, run, ib, wt, redrive)
<1> DEFINE Goal == \/ UNCHANGED <<nRuns, run, job>>
                   \/ \E st, redrive : \E ib \in Inboxes, wt \in WaitTables :
                         ScheduleAgent(st, run, ib, wt, redrive)
<1>1. RowsOK
  BY RowsBefore
<1>2. ASSUME NEW st, NEW ib \in Inboxes, NEW redrive, NEW wt \in WaitTables,
             ScheduleAgent(st, run, ib, wt, redrive)
      PROVE  Goal
  BY <1>2
<1>3. ASSUME UNCHANGED <<nRuns, run, job>> PROVE Goal
  BY <1>3
<1> HIDE DEF Goal
<1>4. ASSUME NEW r \in Runs, NEW c \in Conditions, NEW how \in {"matched", "timed_out"},
             ResolveInternally(r, c, how)
      PROVE  Goal
  <2>1. AddToInbox(r, r) \in Inboxes
    BY InboxUpdateType, ConstantFacts
  <2>2. ResolveWait(waits, r, c, how) \in WaitTables
    BY <1>1, ResolveWaitType DEF RowsOK, WaitStatuses
  <2> QED BY <1>2, <1>4, <2>1, <2>2 DEF ResolveInternally
<1>5. ASSUME NEW e \in Events, IngestEvent(e) PROVE Goal
  <2>1. CASE IngestUnrouted(e)
    BY <1>3, <2>1 DEF IngestUnrouted
  <2>2. CASE IngestWake(e)
    <3>1. AddToInbox(e, None) \in Inboxes
      BY InboxUpdateType, ConstantFacts
    <3> QED BY <1>1, <1>2, <2>2, <3>1 DEF IngestWake, RowsOK
  <2>3. CASE IngestWaitMatch(e)
    <3>1. PICK w \in MatchingWaits(e) :
            ScheduleAgent(state, run, AddToInbox(e, w[1]),
                          ResolveWait(waits, w[1], w[2], "matched"), FALSE)
      BY <2>3 DEF IngestWaitMatch
    <3>2. w[1] \in Runs /\ w[2] \in Conditions
      BY DEF MatchingWaits
    <3>3. AddToInbox(e, w[1]) \in Inboxes
      BY <3>2, InboxUpdateType, ConstantFacts
    <3>4. ResolveWait(waits, w[1], w[2], "matched") \in WaitTables
      BY <1>1, <3>2, ResolveWaitType DEF RowsOK, WaitStatuses
    <3> QED BY <1>2, <3>1, <3>3, <3>4
  <2> QED BY <1>5, <2>1, <2>2, <2>3 DEF IngestEvent
<1>6. ASSUME NEW e \in Events, RouteGrantedMention(e) PROVE Goal
  <2>1. [inbox EXCEPT ![e].status = "pending"] \in Inboxes
    BY InboxUpdateType, ConstantFacts DEF InboxStatuses
  <2> QED BY <1>1, <1>2, <1>3, <1>6, <2>1 DEF RouteGrantedMention, RowsOK
<1>7. ASSUME NEW e \in Events, PostDeleted(e) PROVE Goal
  BY <1>3, <1>7 DEF PostDeleted
<1>8. CASE SweepSchedules \/ WakeScheduler
  BY <1>1, <1>2, <1>8 DEF SweepSchedules, WakeScheduler, RowsOK, Goal
<1>9. ASSUME NEW r \in Runs, NEW c \in Conditions, WaitStep(r, c) PROVE Goal
  <2>1. CASE HandleWaitTimeout(r, c)
    BY <1>3, <1>4, <2>1 DEF HandleWaitTimeout
  <2>2. CASE WaitFallsDue(r, c) \/ LoseWaitJob(<<r, c>>)
    BY <1>3, <2>2 DEF WaitFallsDue, LoseWaitJob
  <2> QED BY <1>9, <2>1, <2>2 DEF WaitStep
<1>10. ASSUME NEW r \in Runs, ApprovalResolved(r) \/ ExtendApprovalWait(r) PROVE Goal
  BY <1>3, <1>4, <1>10, ConstantFacts DEF ApprovalResolved, ExtendApprovalWait
<1>11. CASE ResumeAgent \/ EnableAgent
  BY <1>1, <1>2, <1>11 DEF ResumeAgent, EnableAgent, RowsOK, Goal
<1>12. CASE RedriveRun
  <2>1. ReturnInbox({nRuns}, {"claimed", "consumed"}) \in Inboxes
    BY InboxUpdateType
  <2> QED BY <1>1, <1>2, <1>12, <2>1 DEF RedriveRun, RowsOK, Goal
<1> QED BY <1>5, <1>6, <1>7, <1>8, <1>9, <1>10, <1>11, <1>12 DEF Goal

\* A report changes the row of the run in progress only, starts the next run, and publishes
\* only what ends that run from its current attempt.
LEMMA ReportRows ==
    ASSUME TypeOK, RunMatchesState, FutureIsBlank(nRuns, run), NEW m \in reports,
           HandleRunReport(m)
    PROVE  /\ RowSteps /\ JobsFollow
           /\ \A p \in published' \ published :
                run'[p[1]].attempt = p[2] /\ run'[p[1]].status \in {"succeeded", "failed"}
<1> DEFINE r == m[1]
           a == m[2]
           Good == \A p \in published' \ published :
                     run'[p[1]].attempt = p[2] /\ run'[p[1]].status \in {"succeeded", "failed"}
<1>1. r \in Runs
  BY DEF TypeOK
<1> HIDE DEF r, a
<1>2. CASE UNCHANGED <<dbVars, job, published>>
  BY <1>2, RowsStay DEF dbVars, JobsFollow
<1>3. CASE ~Stale(r, a)
  <2>1. InProgress(run[r]) /\ run[r].attempt = a
    BY <1>3 DEF Stale
  <2>2. CASE ApplyStarted(r)
    <3>1. CASE run[r].status = "queued"
      <4>1. run' = [run EXCEPT ![r].status = "running"] /\ nRuns' = nRuns
        BY <2>2, <3>1 DEF ApplyStarted
      <4>2. /\ run'[r].status = "running" /\ run'[r].attempt = run[r].attempt
            /\ run'[r].trigger = run[r].trigger
            /\ \A q \in Runs \ {r} : run'[q] = run[q]
        BY <1>1, <4>1 DEF TypeOK, RunRows
      <4>3. RowStep(r)
        BY <3>1, <4>2 DEF RowStep, Started
      <4>4. RowSteps
        BY <1>1, <2>1, <4>1, <4>2, <4>3, OneRowSteps
      <4> QED BY <2>2, <4>4 DEF ApplyStarted, JobsFollow
    <3>2. CASE run[r].status # "queued"
      BY <2>2, <3>2, RowsStay DEF ApplyStarted, JobsFollow
    <3> QED BY <3>1, <3>2
  <2>3. CASE /\ \E retryable \in BOOLEAN : ApplyFailure(r, retryable, timers)
             /\ UNCHANGED published
    BY <1>1, <2>1, <2>3, FailureRows
  <2>4. CASE RefuseResult(r, a)
    <3>1. RowSteps /\ JobsFollow /\ run'[r].status = "failed" /\ run'[r].attempt = a
      BY <1>1, <2>1, <2>4, FailureRows DEF RefuseResult
    <3>2. published' \ published \subseteq {<<r, a>>}
      BY <2>4 DEF RefuseResult
    <3> QED BY <3>1, <3>2
  <2>5. CASE \E ws \in SUBSET Conditions :
               \/ CompleteRun(r, a, "succeeded", "complete_idle", ws)
               \/ CompleteRun(r, a, "succeeded", "complete_waiting", ws)
               \/ CompleteRun(r, a, "failed", "fail", ws)
    <3>1. PICK status \in {"succeeded", "failed"}, transition \in {"complete_idle", "complete_waiting", "fail"},
               ws \in SUBSET Conditions :
            CompleteRun(r, a, status, transition, ws)
      BY <2>5
    <3>2. RowSteps /\ JobsFollow /\ run'[r].status = status /\ run'[r].attempt = a
      BY <1>1, <2>1, <3>1, CompleteRows
    <3>3. published' = published \cup {<<r, a>>}
      BY <3>1 DEF CompleteRun
    <3>4. Good
      BY <3>2, <3>3
    <3> QED BY <3>2, <3>4
  <2>6. CASE ApplyCompletion(r, a)
    BY <2>4, <2>5, <2>6, ConstantFacts DEF ApplyCompletion
  <2> QED BY <1>3, <2>2, <2>3, <2>6 DEF HandleRunReport, r, a
<1> QED BY <1>2, <1>3 DEF HandleRunReport, r, a

\* What any step does to the rows of the runs, and what it publishes.
LEMMA RunRowsStep ==
    ASSUME TypeOK, RunMatchesState, FutureIsBlank(nRuns, run), [Next]_vars
    PROVE  /\ RowSteps
           /\ JobsFollow \/ \E r \in Runs, a \in Attempts : WorkerStep(r, a) \/ JobFault(r, a)
           /\ \A p \in published' \ published :
                run'[p[1]].attempt = p[2] /\ run'[p[1]].status \in {"succeeded", "failed"}
<1>1. ASSUME UNCHANGED <<nRuns, run, job>> PROVE RowSteps /\ JobsFollow
  BY <1>1, RowsStay DEF JobsFollow
<1>2. CASE \/ \E e \in Events : IngestEvent(e) \/ RouteGrantedMention(e) \/ PostDeleted(e)
           \/ SweepSchedules \/ WakeScheduler
           \/ \E r \in Runs, c \in Conditions : WaitStep(r, c)
           \/ \E r \in Runs : ApprovalResolved(r) \/ ExtendApprovalWait(r)
           \/ ResumeAgent \/ EnableAgent \/ RedriveRun
  <2>1. RowSteps /\ JobsFollow
    BY <1>1, <1>2, SchedulerCalls, CallerRows
  <2>2. published' = published
    BY <1>2 DEF IngestEvent, RouteGrantedMention, PostDeleted, SweepSchedules, WakeScheduler,
                WaitStep, WaitFallsDue, HandleWaitTimeout, LoseWaitJob, ApprovalResolved,
                ExtendApprovalWait, ResumeAgent, EnableAgent, RedriveRun
  <2> QED BY <2>1, <2>2
<1>3. CASE UNCHANGED <<dbVars, job, published>>
  BY <1>1, <1>3 DEF dbVars
<1>4. CASE \E r \in Runs, a \in Attempts : WorkerStep(r, a) \/ JobFault(r, a)
  <2>1. UNCHANGED <<dbVars, published>>
    BY <1>4 DEF WorkerStep, JobFault, StartJob, SendResult, CompleteJob, WorkerCrash,
                ExpireJob, LoseJob, CancelJob
  <2> QED BY <1>4, <2>1, RowsStay DEF dbVars
<1>5. CASE \E m \in reports : HandleRunReport(m) \/ DeadLetterReport(m)
  BY <1>3, <1>5, ReportRows DEF DeadLetterReport
<1>6. ASSUME NEW r \in Runs, DeadlinePasses(r)
      PROVE  RowSteps /\ JobsFollow /\ published' = published
  <2>1. \A q \in Runs : SameRow(q)
    BY <1>6 DEF DeadlinePasses, SameRow, TypeOK, RunRows
  <2>2. nRuns' = nRuns
    BY <1>6 DEF DeadlinePasses
  <2>3. FutureIsBlank(nRuns', run')
    BY <2>1, <2>2 DEF FutureIsBlank, SameRow
  <2> QED BY <1>6, <2>1, <2>2, <2>3
          DEF RowSteps, RowStep, DeadlinePasses, TypeOK, JobsFollow, queueVars
<1>7. ASSUME NEW t \in timers, HandleRunTimeout(t)
      PROVE  RowSteps /\ JobsFollow /\ published' = published
  <2>1. t[1] \in Runs
    BY DEF TypeOK
  <2>2. CASE ~Stale(t[1], t[2]) /\ ApplyFailure(t[1], TRUE, timers \ {t})
    <3>1. InProgress(run[t[1]])
      BY <2>2 DEF Stale
    <3> QED BY <1>7, <2>1, <2>2, <3>1, FailureRows DEF HandleRunTimeout
  <2> QED BY <1>1, <1>7, <2>2 DEF HandleRunTimeout, dbVars
<1>8. CASE FailLostAttempt
  <2>1. probe.run \in Runs /\ probe.status \in {"queued", "running"}
    BY <1>8 DEF FailLostAttempt, TypeOK, Probes, NoProbe
  <2>2. CASE run[probe.run].status = probe.status /\ ApplyFailure(probe.run, TRUE, timers)
    <3>1. InProgress(run[probe.run])
      BY <2>1, <2>2 DEF InProgress
    <3> QED BY <1>8, <2>1, <2>2, <3>1, FailureRows DEF FailLostAttempt
  <2> QED BY <1>3, <1>8, <2>2 DEF FailLostAttempt, dbVars
<1>9. CASE Reconcile
  <2>1. CASE \/ \E r \in Runs : ObserveRun(r)
             \/ ProbeJob \/ ProbeReport \/ ReconcileWaits
    BY <1>3, <2>1 DEF ObserveRun, ProbeJob, ProbeReport, ReconcileWaits, dbVars, queueVars
  <2> QED BY <1>8, <1>9, <2>1 DEF Reconcile
<1>10. CASE PauseAgent \/ KillAll
  <2>0. PauseInTransaction
    BY <1>10 DEF PauseAgent, KillAll
  <2>1. nRuns' = nRuns /\ published' = published /\ job' = job
    BY <2>0 DEF PauseInTransaction, queueVars
  <2>2. CASE run' = run
    BY <1>1, <2>1, <2>2
  <2>3. CASE run' = [r \in Runs |-> IF InProgress(run[r])
                                    THEN [run[r] EXCEPT !.status = "cancelled"] ELSE run[r]]
    <3>1. ASSUME NEW q \in Runs PROVE SameRow(q) \/ Ended(q)
      <4>1. run[q] \in RunRows
        BY DEF TypeOK
      <4> QED BY <2>3, <4>1 DEF SameRow, Ended, Over, RunRows
    <3>2. FutureIsBlank(nRuns', run')
      BY <2>1, <2>3 DEF FutureIsBlank, InProgress
    <3> QED BY <2>1, <3>1, <3>2 DEF RowSteps, RowStep, TypeOK, JobsFollow
  <2> QED BY <2>0, <2>2, <2>3 DEF PauseInTransaction
<1>11. CASE Operator
  <2>1. CASE DisableAgent \/ ReleaseKillSwitch
    BY <1>1, <2>1 DEF DisableAgent, ReleaseKillSwitch, dbVars, queueVars
  <2> QED BY <1>2, <1>10, <1>11, <2>1 DEF Operator
<1>12. CASE UNCHANGED vars
  BY <1>3, <1>12 DEF vars, dbVars
<1>13. CASE \E t \in timers : HandleRunTimeout(t) \/ LoseTimer(t)
  BY <1>3, <1>7, <1>13 DEF LoseTimer
<1>14. CASE \E r \in Runs : DeadlinePasses(r)
  BY <1>6, <1>14
<1> QED BY <1>2, <1>4, <1>5, <1>9, <1>11, <1>12, <1>13, <1>14 DEF Next

\* RunMatchesState and the row numbering, which the other invariants rest on.
RunsInv == TypeOK /\ RunMatchesState /\ FutureIsBlank(nRuns, run)

\* A fresh agent has no runs.
LEMMA RunsInvInit == Init => RunsInv
<1>1. Init => RunMatchesState /\ FutureIsBlank(nRuns, run)
  BY DEF Init, RunMatchesState, InProgress, FutureIsBlank
<1> QED BY <1>1, InitType DEF RunsInv

\* Every step keeps them.
LEMMA RunsInvStep == RunsInv /\ [Next]_vars => RunsInv'
<1> SUFFICES ASSUME RunsInv, [Next]_vars PROVE RunsInv'
  OBVIOUS
<1>1. TypeOK' /\ RunMatchesState'
  BY TypeStep, MatchStep DEF RunsInv
<1>2. FutureIsBlank(nRuns', run')
  BY RunRowsStep DEF RunsInv, RowSteps
<1> QED BY <1>1, <1>2 DEF RunsInv, FutureIsBlank

\* A run publishes once, from its last attempt, and not when it was cancelled, for every number
\* of attempts and every order, loss and repetition of reports: a row that is over never changes
\* again, and a report is applied only to the current attempt of the run in progress.
THEOREM PublishesOnce == Spec => []PublishedOnce
<1>1. Init => PublishedOnce
  BY DEF Init, PublishedOnce
<1>2. RunsInv /\ PublishedOnce /\ [Next]_vars => PublishedOnce'
  <2> SUFFICES ASSUME RunsInv, PublishedOnce, [Next]_vars, NEW p \in published'
               PROVE  run'[p[1]].attempt = p[2] /\ run'[p[1]].status \in {"succeeded", "failed"}
    BY DEF PublishedOnce
  <2>1. RowSteps /\ \A q \in published' \ published :
           run'[q[1]].attempt = q[2] /\ run'[q[1]].status \in {"succeeded", "failed"}
    BY RunRowsStep DEF RunsInv
  <2>2. CASE p \in published
    <3>1. p[1] \in Runs
      BY <2>2 DEF RunsInv, TypeOK
    <3>2. run[p[1]].attempt = p[2] /\ run[p[1]].status \in {"succeeded", "failed"}
      BY <2>2 DEF PublishedOnce
    <3>3. SameRow(p[1])
      <4>1. p[1] # nRuns + 1
        BY <3>1, <3>2 DEF RunsInv, FutureIsBlank, TypeOK
      <4> QED BY <2>1, <3>1, <3>2, <4>1 DEF RowSteps, RowStep, Inserted, Retried, Started, Ended, InProgress
    <3> QED BY <3>2, <3>3 DEF SameRow
  <2> QED BY <2>1, <2>2
<1> QED BY <1>1, <1>2, RunsInvInit, RunsInvStep, PTL DEF Spec

(***************************************************************************)
(* Reconciliation.                                                         *)
(***************************************************************************)
\* A run has an attempt from the start.
AttemptsCount == \A r \in Runs : run[r].status # "none" => run[r].attempt \in Attempts

\* A worker that took a queued attempt told so: its report is still in the queue.
StartsAreTold ==
    \A r \in Runs : run[r].status = "queued" =>
        (job[r][run[r].attempt] \in {"started", "sent", "orphan"}
            => <<r, run[r].attempt, "started">> \in reports)

\* The attempt that reconciliation looks at is still the one it listed.
StillListed ==
    /\ probe.status = "queued" /\ run[probe.run].status = "queued"
    /\ run[probe.run].attempt = probe.attempt

\* What reconciliation has seen of a queued attempt is so as long as the attempt is queued.
ProbeIsTrue ==
    probe # NoProbe =>
        /\ run[probe.run].status # "none"
        /\ probe.attempt <= run[probe.run].attempt
        /\ StillListed /\ probe.phase \in {"job_gone", "silent"} =>
              job[probe.run][probe.attempt] \in {"orphan", "gone", "none"}
        /\ StillListed /\ probe.phase = "silent" =>
              /\ job[probe.run][probe.attempt] # "orphan"
              /\ \A m \in reports : ~(m[1] = probe.run /\ m[2] = probe.attempt)

LostInv == RunsInv /\ AttemptsCount /\ StartsAreTold /\ ProbeIsTrue

\* A step of a worker or a fault of its job.
JobStep(r, a) == WorkerStep(r, a) \/ JobFault(r, a)

\* What such a step does to its job, and what it tells.
LEMMA JobStepFacts ==
    ASSUME TypeOK, NEW q \in Runs, NEW b \in Attempts, JobStep(q, b)
    PROVE  /\ UNCHANGED <<dbVars, probe>>
           /\ \A r \in Runs, a \in Attempts : job'[r][a] = job[r][a] \/ (r = q /\ a = b)
           /\ reports \subseteq reports'
           /\ \A m \in reports' \ reports : m[1] = q /\ m[2] = b
           /\ job[q][b] \in {"gone", "none"} => FALSE
           /\ job[q][b] = "orphan" => job'[q][b] = "gone"
           /\ reports' # reports => job[q][b] \in {"created", "started", "orphan"}
           /\ job'[q][b] \in {"started", "sent", "orphan"} =>
                \/ job[q][b] \in {"started", "sent", "orphan"}
                \/ <<q, b, "started">> \in reports'
<1>0. job \in [Runs -> [Attempts -> JobStates]] /\ job[q][b] \in JobStates
  BY DEF TypeOK
<1>1. ASSUME NEW s, SetJob(q, b, s)
      PROVE  /\ job'[q][b] = s
             /\ \A r \in Runs, a \in Attempts : job'[r][a] = job[r][a] \/ (r = q /\ a = b)
  BY <1>0, <1>1 DEF SetJob
<1>2. CASE StartJob(q, b)
  <2>1. UNCHANGED <<dbVars, probe>> /\ SetJob(q, b, "started") /\ job[q][b] = "created"
    BY <1>2 DEF StartJob
  <2>2. reports' = reports \cup {<<q, b, "started">>}
    BY <1>2 DEF StartJob, SendReport
  <2> QED BY <1>1, <2>1, <2>2
<1>3. CASE SendResult(q, b)
  <2>1. PICK k \in {"failed", "completed"} : SendReport(q, b, k)
    BY <1>3 DEF SendResult
  <2>2. reports' = reports \cup {<<q, b, k>>}
    BY <2>1 DEF SendReport
  <2>3. UNCHANGED <<dbVars, probe>> /\ job[q][b] \in {"started", "orphan"}
    BY <1>3 DEF SendResult
  <2>4. CASE job[q][b] = "started"
    <3>1. SetJob(q, b, "sent")
      BY <1>3, <2>4 DEF SendResult
    <3> QED BY <1>1, <2>2, <2>3, <2>4, <3>1
  <2>5. CASE job[q][b] = "orphan"
    <3>1. SetJob(q, b, "gone")
      BY <1>3, <2>5 DEF SendResult
    <3> QED BY <1>1, <2>2, <2>3, <2>5, <3>1
  <2> QED BY <2>3, <2>4, <2>5
<1>4. ASSUME NEW s \in {"gone", "crashed", "orphan"}, SetJob(q, b, s),
             job[q][b] \notin {"gone", "none"}, job[q][b] = "orphan" => s = "gone",
             s = "orphan" => job[q][b] = "started", UNCHANGED <<dbVars, probe, reports>>
      PROVE  /\ UNCHANGED <<dbVars, probe>>
             /\ \A r \in Runs, a \in Attempts : job'[r][a] = job[r][a] \/ (r = q /\ a = b)
             /\ reports \subseteq reports'
             /\ \A m \in reports' \ reports : m[1] = q /\ m[2] = b
             /\ job[q][b] \in {"gone", "none"} => FALSE
             /\ job[q][b] = "orphan" => job'[q][b] = "gone"
             /\ reports' # reports => job[q][b] \in {"created", "started", "orphan"}
             /\ job'[q][b] \in {"started", "sent", "orphan"} =>
                  \/ job[q][b] \in {"started", "sent", "orphan"}
                  \/ <<q, b, "started">> \in reports'
  BY <1>1, <1>4
<1>5. CASE CompleteJob(q, b)
  BY <1>4, <1>5 DEF CompleteJob
<1>6. CASE WorkerCrash(q, b)
  BY <1>4, <1>6 DEF WorkerCrash
<1>7. CASE ExpireJob(q, b)
  BY <1>4, <1>7 DEF ExpireJob
<1>8. CASE LoseJob(q, b)
  BY <1>4, <1>8 DEF LoseJob
<1>9. CASE CancelJob(q, b)
  BY <1>4, <1>9 DEF CancelJob
<1> QED BY <1>2, <1>3, <1>5, <1>6, <1>7, <1>8, <1>9 DEF JobStep, WorkerStep, JobFault

\* Who changes the reports, and who changes the probe.
LEMMA QueueAndProbe ==
    ASSUME TypeOK, [Next]_vars, "dead_letter" \notin Activities
    PROVE  /\ \/ reports' = reports
              \/ \E m \in reports : HandleRunReport(m)
              \/ \E r \in Runs, a \in Attempts : JobStep(r, a)
           /\ \/ probe' = probe
              \/ \E r \in Runs : ObserveRun(r)
              \/ ProbeJob \/ ProbeReport \/ FailLostAttempt
<1>1. CASE \/ \E e \in Events : IngestEvent(e) \/ RouteGrantedMention(e) \/ PostDeleted(e)
           \/ SweepSchedules \/ WakeScheduler
  BY <1>1 DEF IngestEvent, RouteGrantedMention, PostDeleted, SweepSchedules, WakeScheduler
<1>2. CASE \E r \in Runs, c \in Conditions : WaitStep(r, c)
  BY <1>2 DEF WaitStep, WaitFallsDue, HandleWaitTimeout, LoseWaitJob
<1>3. CASE \E r \in Runs : ApprovalResolved(r) \/ ExtendApprovalWait(r) \/ DeadlinePasses(r)
  BY <1>3 DEF ApprovalResolved, ExtendApprovalWait, DeadlinePasses, queueVars
<1>4. CASE \E r \in Runs, a \in Attempts : WorkerStep(r, a) \/ JobFault(r, a)
  BY <1>4, JobStepFacts DEF JobStep
<1>5. CASE \E m \in reports : HandleRunReport(m) \/ DeadLetterReport(m)
  BY <1>5 DEF HandleRunReport, DeadLetterReport
<1>6. CASE \E t \in timers : HandleRunTimeout(t) \/ LoseTimer(t)
  BY <1>6 DEF HandleRunTimeout, LoseTimer
<1>7. CASE Reconcile
  BY <1>7 DEF Reconcile, ObserveRun, ProbeJob, ProbeReport, FailLostAttempt, ReconcileWaits,
              queueVars
<1>8. CASE Operator
  BY <1>8 DEF Operator, PauseAgent, ResumeAgent, DisableAgent, EnableAgent, RedriveRun, KillAll,
              ReleaseKillSwitch, PauseInTransaction, queueVars
<1>9. CASE UNCHANGED vars
  BY <1>9 DEF vars
<1> QED BY <1>1, <1>2, <1>3, <1>4, <1>5, <1>6, <1>7, <1>8, <1>9 DEF Next

\* A queued attempt that stays queued keeps what its worker told.
LEMMA ToldStep ==
    ASSUME LostInv, [Next]_vars, "dead_letter" \notin Activities
    PROVE  AttemptsCount' /\ StartsAreTold'
<1> USE DEF LostInv, RunsInv
<1>1. RowSteps /\ (JobsFollow \/ \E r \in Runs, a \in Attempts : JobStep(r, a)) /\ TypeOK'
  BY RunRowsStep, TypeStep DEF JobStep
<1>2. AttemptsCount'
  <2> SUFFICES ASSUME NEW r \in Runs, run'[r].status # "none" PROVE run'[r].attempt \in Attempts
    BY DEF AttemptsCount
  <2>1. run'[r].attempt \in 0..MaxAttempts /\ MaxAttempts \in Nat \ {0}
    BY <1>1, ConstantFacts DEF TypeOK, RunRows
  <2>2. RowStep(r)
    BY <1>1 DEF RowSteps
  <2>3. CASE Inserted(r)
    BY <2>3, ConstantFacts DEF Inserted
  <2>4. CASE ~Inserted(r)
    BY <2>1, <2>2, <2>4 DEF RowStep, SameRow, Retried, Started, Ended, InProgress, AttemptsCount, Attempts
  <2> QED BY <2>3, <2>4
<1>3. StartsAreTold'
  <2> SUFFICES ASSUME NEW r \in Runs, run'[r].status = "queued",
                      job'[r][run'[r].attempt] \in {"started", "sent", "orphan"}
               PROVE  <<r, run'[r].attempt, "started">> \in reports'
    BY DEF StartsAreTold
  <2>1. SameRow(r) /\ ~Inserted(r) /\ ~Retried(r)
    BY <1>1 DEF RowSteps, RowStep, Inserted, Retried, Started, Ended, InProgress, Over
  <2> DEFINE a == run[r].attempt
  <2>2. run[r].status = "queued" /\ run'[r].attempt = a /\ a \in Attempts
    BY <2>1 DEF SameRow, AttemptsCount
  <2>3. CASE JobsFollow
    <3>1. job'[r][a] = job[r][a]
      BY <2>1, <2>2, <2>3 DEF JobsFollow
    <3>2. <<r, a, "started">> \in reports
      BY <2>2, <3>1 DEF StartsAreTold
    <3>3. CASE reports' = reports
      BY <2>2, <3>2, <3>3
    <3>4. ASSUME NEW m \in reports, HandleRunReport(m) PROVE <<r, a, "started">> \in reports'
      <4>1. CASE m = <<r, a, "started">>
        <5>1. ~Stale(r, a)
          BY <2>2 DEF Stale, InProgress
        <5>2. ApplyStarted(r)
          BY <3>4, <4>1, <5>1 DEF HandleRunReport
        <5>3. run' = [run EXCEPT ![r].status = "running"]
          BY <2>2, <5>2 DEF ApplyStarted
        <5>4. run'[r].status = "running"
          BY <5>3 DEF TypeOK, RunRows
        <5> QED BY <5>4
      <4>2. CASE m # <<r, a, "started">>
        BY <3>2, <3>4, <4>2 DEF HandleRunReport
      <4> QED BY <4>1, <4>2
    <3>5. CASE \E q \in Runs, b \in Attempts : JobStep(q, b)
      BY <2>2, <3>2, <3>5, JobStepFacts
    <3> QED BY <2>2, <3>3, <3>4, <3>5, QueueAndProbe
  <2>4. ASSUME NEW q \in Runs, NEW b \in Attempts, JobStep(q, b)
        PROVE  <<r, a, "started">> \in reports'
    <3> HIDE DEF a
    <3>0. /\ \A p \in Runs, d \in Attempts : job'[p][d] = job[p][d] \/ (p = q /\ d = b)
          /\ reports \subseteq reports'
          /\ job'[q][b] \in {"started", "sent", "orphan"} =>
               \/ job[q][b] \in {"started", "sent", "orphan"}
               \/ <<q, b, "started">> \in reports'
      <4>1. TypeOK
        OBVIOUS
      <4> HIDE DEF RunsInv, LostInv
      <4> QED BY <2>4, <4>1, JobStepFacts
    <3>1. CASE job[r][a] \in {"started", "sent", "orphan"}
      <4>1. <<r, a, "started">> \in reports
        BY <2>2, <3>1 DEF StartsAreTold, a
      <4> QED BY <3>0, <4>1
    <3>2. CASE job[r][a] \notin {"started", "sent", "orphan"}
      <4>1. job'[r][a] \in {"started", "sent", "orphan"}
        BY <2>2
      <4>2. r = q /\ a = b
        BY <2>2, <3>0, <3>2, <4>1
      <4> QED BY <3>0, <3>2, <4>1, <4>2
    <3> QED BY <3>1, <3>2
  <2> QED BY <1>1, <2>2, <2>3, <2>4
<1> QED BY <1>2, <1>3

\* What reconciliation has seen stays true until its transaction.
LEMMA ProbeStep ==
    ASSUME LostInv, [Next]_vars, "dead_letter" \notin Activities
    PROVE  ProbeIsTrue'
<1> USE DEF LostInv, RunsInv
<1>1. RowSteps /\ (JobsFollow \/ \E r \in Runs, a \in Attempts : JobStep(r, a))
  BY RunRowsStep DEF JobStep
<1>2. ASSUME NEW r \in Runs, ObserveRun(r) PROVE ProbeIsTrue'
  <2>1. UNCHANGED <<run, job, reports>>
    BY <1>2 DEF ObserveRun, dbVars, queueVars
  <2>2. /\ probe'.run = r /\ probe'.attempt = run[r].attempt /\ probe'.phase = "listed"
        /\ run[r].status \in {"queued", "running"}
    BY <1>2 DEF ObserveRun, LooksStuck
  <2>3. run[r].attempt \in Nat
    BY ConstantFacts DEF TypeOK, RunRows
  <2> QED BY <2>1, <2>2, <2>3 DEF ProbeIsTrue
<1>3. ASSUME probe.phase # "none"
      PROVE  probe # NoProbe /\ probe \in Probes /\ probe.run \in Runs
  BY <1>3 DEF TypeOK, NoProbe, Probes
<1>4. CASE ProbeJob
  <2>1. UNCHANGED <<run, job, reports>> /\ probe.phase = "listed"
    BY <1>4 DEF ProbeJob, dbVars, queueVars
  <2>2. probe # NoProbe /\ probe \in Probes /\ probe.run \in Runs
    BY <1>3, <2>1
  <2>3. CASE probe' = NoProbe
    BY <2>3 DEF ProbeIsTrue
  <2>4. CASE /\ probe' = [probe EXCEPT !.phase = "job_gone"]
             /\ probe.status = "running" \/ ~JobAlive(probe.run, probe.attempt)
    <3>1. /\ probe'.run = probe.run /\ probe'.attempt = probe.attempt
          /\ probe'.status = probe.status /\ probe'.phase = "job_gone"
      BY <2>2, <2>4 DEF Probes
    <3>2. StillListed => job[probe.run][probe.attempt] \in {"orphan", "gone", "none"}
      <4> SUFFICES ASSUME StillListed PROVE job[probe.run][probe.attempt] \in {"orphan", "gone", "none"}
        OBVIOUS
      <4>1. ~JobAlive(probe.run, probe.attempt) /\ probe.attempt \in Attempts
        BY <2>2, <2>4 DEF StillListed, AttemptsCount
      <4>2. job[probe.run][probe.attempt] \in JobStates
        BY <2>2, <4>1 DEF TypeOK
      <4> QED BY <4>1, <4>2 DEF JobAlive, JobStates
    <3> QED BY <2>1, <2>2, <3>1, <3>2 DEF ProbeIsTrue, StillListed
  <2> QED BY <1>4, <2>3, <2>4 DEF ProbeJob
<1>5. CASE ProbeReport
  <2>1. UNCHANGED <<run, job, reports>> /\ probe.phase = "job_gone"
    BY <1>5 DEF ProbeReport, dbVars, queueVars
  <2>2. probe # NoProbe /\ probe \in Probes /\ probe.run \in Runs
    BY <1>3, <2>1
  <2>3. CASE probe' = NoProbe
    BY <2>3 DEF ProbeIsTrue
  <2>4. CASE probe' = [probe EXCEPT !.phase = "silent"] /\ ~HasPendingReport(probe.run)
    <3>1. /\ probe'.run = probe.run /\ probe'.attempt = probe.attempt
          /\ probe'.status = probe.status /\ probe'.phase = "silent"
      BY <2>2, <2>4 DEF Probes
    <3>2. \A m \in reports : m[1] # probe.run
      BY <2>4 DEF HasPendingReport
    <3>3. StillListed => job[probe.run][probe.attempt] # "orphan"
      BY <2>2, <3>2 DEF StillListed, StartsAreTold
    <3> QED BY <2>1, <2>2, <3>1, <3>2, <3>3 DEF ProbeIsTrue, StillListed
  <2> QED BY <1>5, <2>3, <2>4 DEF ProbeReport
<1>6. CASE FailLostAttempt
  BY <1>6 DEF FailLostAttempt, ProbeIsTrue
<1>7. CASE probe' = probe
  <2> SUFFICES ASSUME probe # NoProbe PROVE ProbeIsTrue'
    BY <1>7 DEF ProbeIsTrue
  <2> DEFINE r == probe.run
             a == probe.attempt
  <2>1. r \in Runs /\ a \in 0..MaxAttempts /\ probe.phase \in {"listed", "job_gone", "silent"}
    BY DEF TypeOK, Probes
  <2>2. run[r].status # "none" /\ a <= run[r].attempt
    BY DEF ProbeIsTrue
  <2>3. RowStep(r) /\ ~Inserted(r)
    BY <1>1, <2>1, <2>2 DEF RowSteps, Inserted, FutureIsBlank, TypeOK
  <2>4. run[r].attempt \in Nat /\ a \in Nat
    <3>1. run[r] \in RunRows
      BY <2>1 DEF TypeOK
    <3> QED BY <2>1, <3>1, ConstantFacts DEF RunRows
  <2>5. run'[r].status # "none" /\ a <= run'[r].attempt
    BY <2>2, <2>3, <2>4 DEF RowStep, SameRow, Retried, Started, Ended, Over
  <2>6. ASSUME probe.status = "queued", run'[r].status = "queued", run'[r].attempt = a
        PROVE  StillListed /\ ~Retried(r)
    <3>1. ~Retried(r)
      BY <2>2, <2>4, <2>6 DEF Retried
    <3>2. SameRow(r)
      BY <2>3, <2>6, <3>1 DEF RowStep, Started, Ended, Over
    <3> QED BY <2>6, <3>1, <3>2 DEF SameRow, StillListed
  <2>7. ASSUME StillListed, ~Retried(r), probe.phase \in {"job_gone", "silent"}
        PROVE  /\ job'[r][a] \in {"orphan", "gone", "none"}
               /\ probe.phase = "silent" => /\ job'[r][a] # "orphan"
                                            /\ \A m \in reports' : ~(m[1] = r /\ m[2] = a)
    <3>1. /\ job[r][a] \in {"orphan", "gone", "none"}
          /\ probe.phase = "silent" => /\ job[r][a] # "orphan"
                                       /\ \A m \in reports : ~(m[1] = r /\ m[2] = a)
      BY <2>7 DEF ProbeIsTrue
    <3>2. a \in Attempts
      BY <2>1, <2>7 DEF StillListed, AttemptsCount
    <3> HIDE DEF r, a
    <3>3. CASE \E q \in Runs, b \in Attempts : JobStep(q, b)
      <4>1. PICK q \in Runs, b \in Attempts : JobStep(q, b)
        BY <3>3
      <4>2. CASE q = r /\ b = a
        BY <2>1, <3>1, <3>2, <4>1, <4>2, JobStepFacts
      <4>3. CASE ~(q = r /\ b = a)
        <5>1. job'[r][a] = job[r][a]
          <6>1. \A p \in Runs, d \in Attempts : job'[p][d] = job[p][d] \/ (p = q /\ d = b)
            BY <4>1, JobStepFacts
          <6> QED BY <2>1, <3>2, <4>3, <6>1
        <5>2. \A m \in reports' \ reports : ~(m[1] = r /\ m[2] = a)
          <6>1. \A m \in reports' \ reports : m[1] = q /\ m[2] = b
            BY <4>1, JobStepFacts
          <6> QED BY <4>3, <6>1
        <5> QED BY <3>1, <5>1, <5>2
      <4> QED BY <4>2, <4>3
    <3>4. CASE JobsFollow /\ ~\E q \in Runs, b \in Attempts : JobStep(q, b)
      <4>1. job'[r][a] = job[r][a]
        BY <2>1, <2>3, <2>7, <3>2, <3>4 DEF JobsFollow
      <4>2. reports' \subseteq reports
        BY <3>4, QueueAndProbe DEF HandleRunReport
      <4> QED BY <3>1, <4>1, <4>2
    <3> QED BY <1>1, <3>3, <3>4
  <2> QED BY <1>7, <2>5, <2>6, <2>7 DEF ProbeIsTrue, StillListed
<1> QED BY <1>2, <1>4, <1>5, <1>6, <1>7, QueueAndProbe

\* Reconciliation runs a queued attempt again only if no report of it waits: without
\* dead-lettered reports, a worker that took the attempt has its started report in the queue
\* until the attempt is no longer queued, and after the two reads nobody can send one.
THEOREM LostIsSilent ==
    ASSUME "dead_letter" \notin Activities
    PROVE  Spec => LostMeansSilent
<1>1. Init => LostInv
  <2> SUFFICES ASSUME Init PROVE LostInv
    OBVIOUS
  <2>1. AttemptsCount /\ StartsAreTold /\ ProbeIsTrue
    BY DEF Init, AttemptsCount, StartsAreTold, ProbeIsTrue
  <2> QED BY <2>1, RunsInvInit DEF LostInv
<1>2. LostInv /\ [Next]_vars => LostInv'
  BY ToldStep, ProbeStep, RunsInvStep DEF LostInv
<1>3. LostInv /\ [Next]_vars =>
        [probe.phase = "silent" /\ probe' = NoProbe /\ probe.status = "queued" /\ run' # run
           => ~\E m \in reports : m[1] = probe.run /\ m[2] = probe.attempt]_vars
  <2> SUFFICES ASSUME LostInv, [Next]_vars, probe.phase = "silent", probe' = NoProbe,
                      probe.status = "queued", run' # run,
                      NEW m \in reports, m[1] = probe.run, m[2] = probe.attempt
               PROVE  FALSE
    BY DEF vars
  <2>1. probe # NoProbe
    BY DEF NoProbe
  <2>2. FailLostAttempt
    BY <2>1, QueueAndProbe DEF ObserveRun, ProbeJob, ProbeReport, LostInv, RunsInv
  <2>3. StillListed
    BY <2>2 DEF FailLostAttempt, StillListed, dbVars
  <2> QED BY <2>1, <2>3 DEF LostInv, ProbeIsTrue
<1> QED BY <1>1, <1>2, <1>3, PTL DEF Spec, LostMeansSilent

(***************************************************************************)
(* What a call of the scheduler does to the inbox and the waits.           *)
(***************************************************************************)
\* The inbox and the waits after the scheduler retired entries and looked for missed answers.
Scanned(st, ib, wt, ib2, wt2) ==
    LET kept == RetireInbox(ib)
        found == ScanCandidates(st, kept, wt)
    IN \E refused \in SUBSET {a[1] : a \in found}, m \in found \cup {NoMatch} :
         /\ ScanResult(kept, found, refused, m)
         /\ ib2 = InboxAfterScan(kept, refused, m)
         /\ wt2 = WaitsAfterScan(wt, m)

\* An entry is left alone, retired because its post is gone, or refused by the loop guards.
EntryKept(ib, ib2, e) ==
    \/ ib2[e] = ib[e]
    \/ /\ ib[e].status = "pending" /\ ib[e].wait = None /\ e \in gone
       /\ ib2[e].status = "dead" /\ ib2[e].wait = None
    \/ /\ ib[e].status = "stored"
       /\ ib2[e].status = "refused" /\ ib2[e].wait = ib[e].wait

\* The entry of f answers the wait of run r on c.
AnswerFound(ib, wt, ib2, wt2, f, r, c) ==
    /\ wt[r][c] = "active" /\ wt2 = ResolveWait(wt, r, c, "matched")
    /\ ib[f].status \in {"pending", "stored"}
    /\ ib2[f].status = "pending" /\ ib2[f].wait = r
    /\ \A e \in EventIds \ {f} : EntryKept(ib, ib2, e)

\* A call of the scheduler stops before it looks, or looks and starts a run or does not.
LEMMA ScheduleMeans ==
    ASSUME NEW st, NEW rn, NEW ib \in Inboxes, NEW wt \in WaitTables, NEW redrive,
           ScheduleAgent(st, rn, ib, wt, redrive)
    PROVE  \/ (\E hold \in Holds : SkipsEarly(hold, st, redrive)) /\ Skip(st, rn, ib, wt)
           \/ \E ib2 \in Inboxes, wt2 \in WaitTables :
                /\ Scanned(st, ib, wt, ib2, wt2)
                /\ \/ Skip(st, rn, ib2, wt2)
                   \/ /\ ~killSwitch
                      /\ \E t \in Triggers(st, rn, ib2, redrive) :
                           \E others \in Coalesced(ib2, t) :
                              StartRun(st, rn, ib2, wt2, t, others, redrive)
<1>1. PICK hold \in Holds :
        IF SkipsEarly(hold, st, redrive)
        THEN Skip(st, rn, ib, wt)
        ELSE LET kept == RetireInbox(ib)
                 found == ScanCandidates(st, kept, wt)
             IN \E refused \in SUBSET {a[1] : a \in found}, m \in found \cup {NoMatch} :
                  /\ ScanResult(kept, found, refused, m)
                  /\ LET ib2 == InboxAfterScan(kept, refused, m)
                         wt2 == WaitsAfterScan(wt, m)
                         ready == Triggers(st, rn, ib2, redrive)
                     IN IF \/ hold = "quota" /\ ~redrive
                           \/ hold \in {"budget", "context"}
                           \/ ready = {}
                           \/ nRuns = MaxRuns
                        THEN Skip(st, rn, ib2, wt2)
                        ELSE \E t \in ready : \E others \in Coalesced(ib2, t) :
                               StartRun(st, rn, ib2, wt2, t, others, redrive)
  BY DEF ScheduleAgent
<1>2. CASE SkipsEarly(hold, st, redrive)
  BY <1>1, <1>2
<1>3. CASE ~SkipsEarly(hold, st, redrive)
  <2> DEFINE kept == RetireInbox(ib)
             found == ScanCandidates(st, kept, wt)
  <2>1. PICK refused \in SUBSET {a[1] : a \in found}, m \in found \cup {NoMatch} :
          /\ ScanResult(kept, found, refused, m)
          /\ LET ib2 == InboxAfterScan(kept, refused, m)
                 wt2 == WaitsAfterScan(wt, m)
                 ready == Triggers(st, rn, ib2, redrive)
             IN \/ Skip(st, rn, ib2, wt2)
                \/ \E t \in ready : \E others \in Coalesced(ib2, t) :
                       StartRun(st, rn, ib2, wt2, t, others, redrive)
    BY <1>1, <1>3
  <2> DEFINE ib2 == InboxAfterScan(kept, refused, m)
             wt2 == WaitsAfterScan(wt, m)
  <2>2. kept \in Inboxes
    BY RetireInboxType
  <2>3. ib2 \in Inboxes /\ wt2 \in WaitTables
    <3> HIDE DEF kept
    <3> QED BY <2>2, ScanType
  <2>4. Scanned(st, ib, wt, ib2, wt2)
    BY <2>1 DEF Scanned
  <2>5. ~killSwitch
    BY <1>3 DEF SkipsEarly
  <2>6. \/ Skip(st, rn, ib2, wt2)
        \/ \E t \in Triggers(st, rn, ib2, redrive) : \E others \in Coalesced(ib2, t) :
              StartRun(st, rn, ib2, wt2, t, others, redrive)
    BY <2>1
  <2> HIDE DEF ib2, wt2
  <2> QED BY <2>3, <2>4, <2>5, <2>6
<1> QED BY <1>2, <1>3

\* What the scan does: nothing more than retire and refuse, or one answer is found.
LEMMA ScanMeans ==
    ASSUME NEW st, NEW ib \in Inboxes, NEW wt \in WaitTables, NEW ib2, NEW wt2,
           Scanned(st, ib, wt, ib2, wt2)
    PROVE  \/ wt2 = wt /\ \A e \in EventIds : EntryKept(ib, ib2, e)
           \/ /\ st = "waiting"
              /\ \E f \in Events, r \in Runs, c \in Conditions :
                    AnswerFound(ib, wt, ib2, wt2, f, r, c)
<1> DEFINE kept == RetireInbox(ib)
           found == ScanCandidates(st, kept, wt)
<1>1. PICK refused \in SUBSET {a[1] : a \in found}, m \in found \cup {NoMatch} :
         /\ ScanResult(kept, found, refused, m)
         /\ ib2 = InboxAfterScan(kept, refused, m)
         /\ wt2 = WaitsAfterScan(wt, m)
  BY DEF Scanned
<1>2. ASSUME NEW e \in EventIds
      PROVE  /\ ib[e] \in InboxRows
             /\ \/ kept[e] = ib[e]
                \/ /\ ib[e].status = "pending" /\ ib[e].wait = None /\ e \in gone
                   /\ kept[e].status = "dead" /\ kept[e].wait = None
  <2>1. ib[e] \in InboxRows
    BY DEF Inboxes
  <2>2. [ib[e] EXCEPT !.status = "dead"].status = "dead" /\ [ib[e] EXCEPT !.status = "dead"].wait = ib[e].wait
    BY <2>1 DEF InboxRows
  <2> QED BY <2>1, <2>2 DEF RetireInbox
<1>3. kept \in Inboxes
  BY RetireInboxType
<1> HIDE DEF kept
<1>4. \A e \in refused : kept[e].status = "stored"
  BY <1>1 DEF ScanResult
<1>5. ASSUME NEW e \in EventIds, m = NoMatch \/ e # m[1]
      PROVE  EntryKept(ib, ib2, e)
  <2>1. kept[e] \in InboxRows
    BY <1>3 DEF Inboxes
  <2>2. CASE e \in refused
    <3>1. ib2[e] = [kept[e] EXCEPT !.status = "refused"]
      BY <1>1, <2>2 DEF InboxAfterScan
    <3>2. ib2[e].status = "refused" /\ ib2[e].wait = kept[e].wait
      BY <2>1, <3>1 DEF InboxRows
    <3>3. kept[e] = ib[e] /\ ib[e].status = "stored"
      BY <1>2, <1>4, <2>2
    <3> QED BY <3>2, <3>3 DEF EntryKept
  <2>3. CASE e \notin refused
    <3>1. ib2[e] = kept[e]
      BY <1>1, <1>5, <2>3 DEF InboxAfterScan
    <3> QED BY <1>2, <3>1 DEF EntryKept
  <2> QED BY <2>2, <2>3
<1>6. CASE m = NoMatch
  BY <1>1, <1>5, <1>6 DEF WaitsAfterScan
<1>7. CASE m # NoMatch
  <2>1. m \in found /\ m[1] \notin refused
    BY <1>1, <1>7 DEF ScanResult
  <2>2. st = "waiting" /\ m \in MissedAnswers(kept, wt)
    BY <2>1 DEF ScanCandidates
  <2>3. /\ m[1] \in Events /\ m[2] \in Runs /\ m[3] \in Conditions
        /\ wt[m[2]][m[3]] = "active" /\ kept[m[1]].status \in {"pending", "stored"}
    BY <2>2 DEF MissedAnswers
  <2>4. m[1] \in EventIds
    BY <2>3, ConstantFacts
  <2>5. kept[m[1]] = ib[m[1]] /\ kept[m[1]] \in InboxRows
    BY <1>2, <2>3, <2>4
  <2>6. ib2[m[1]] = [kept[m[1]] EXCEPT !.status = "pending", !.wait = m[2]]
    BY <1>1, <1>7, <2>1, <2>4 DEF InboxAfterScan
  <2>7. ib2[m[1]].status = "pending" /\ ib2[m[1]].wait = m[2]
    BY <2>5, <2>6 DEF InboxRows
  <2>8. wt2 = ResolveWait(wt, m[2], m[3], "matched")
    BY <1>1, <1>7 DEF WaitsAfterScan
  <2>9. AnswerFound(ib, wt, ib2, wt2, m[1], m[2], m[3])
    BY <1>5, <2>3, <2>5, <2>7, <2>8 DEF AnswerFound
  <2> QED BY <2>2, <2>3, <2>9
<1> QED BY <1>6, <1>7

\* A started run claims pending entries and leaves the others alone.
LEMMA StartEntries ==
    ASSUME NEW st, NEW rn, NEW ib \in Inboxes, NEW wt, NEW redrive,
           NEW t \in Triggers(st, rn, ib, redrive), NEW others \in Coalesced(ib, t),
           StartRun(st, rn, ib, wt, t, others, redrive)
    PROVE  /\ t \in Pending(ib) /\ others \subseteq Pending(ib)
           /\ \A e \in EventIds :
                \/ /\ e \notin {t} \cup others /\ inbox'[e] = ib[e]
                \/ /\ e \in {t} \cup others /\ ib[e].status = "pending"
                   /\ inbox'[e].status = "claimed" /\ inbox'[e].run = nRuns + 1
                   /\ inbox'[e].wait = ib[e].wait
<1>1. t \in Pending(ib) /\ others \subseteq Pending(ib)
  BY DEF Triggers, Coalesced
<1>2. inbox' = [e \in EventIds |->
                  IF e \in {t} \cup others
                  THEN [ib[e] EXCEPT !.status = "claimed", !.run = nRuns + 1] ELSE ib[e]]
  BY DEF StartRun, SetRows
<1>3. ASSUME NEW e \in EventIds
      PROVE  \/ /\ e \notin {t} \cup others /\ inbox'[e] = ib[e]
             \/ /\ e \in {t} \cup others /\ ib[e].status = "pending"
                /\ inbox'[e].status = "claimed" /\ inbox'[e].run = nRuns + 1
                /\ inbox'[e].wait = ib[e].wait
  <2>1. ib[e] \in InboxRows
    BY DEF Inboxes
  <2>2. CASE e \notin {t} \cup others
    BY <1>2, <2>2
  <2>3. CASE e \in {t} \cup others
    <3>1. inbox'[e] = [ib[e] EXCEPT !.status = "claimed", !.run = nRuns + 1]
      BY <1>2, <2>3
    <3>2. /\ inbox'[e].status = "claimed" /\ inbox'[e].run = nRuns + 1
          /\ inbox'[e].wait = ib[e].wait
      BY <2>1, <3>1 DEF InboxRows
    <3> QED BY <1>1, <2>3, <3>2 DEF Pending
  <2> QED BY <2>2, <2>3
<1> QED BY <1>1, <1>3

(***************************************************************************)
(* Work is not lost.                                                       *)
(***************************************************************************)
\* An entry in hand stays in hand, or is retired because its post is gone.
InHand(ib, e) == ib[e].status \in {"pending", "claimed"}
StaysInHand(ib, e) ==
    \/ inbox'[e].status \in {"pending", "claimed"}
    \/ inbox'[e].status = "dead" /\ e \in gone /\ ib[e].wait = None

\* The scheduler drops no entry, and what is consumed stays so.
LEMMA ScheduleKeepsWork ==
    ASSUME NEW st, NEW rn, NEW ib \in Inboxes, NEW wt \in WaitTables, NEW redrive,
           ScheduleAgent(st, rn, ib, wt, redrive), NEW e \in EventIds
    PROVE  /\ InHand(ib, e) => StaysInHand(ib, e)
           /\ ib[e].status = "consumed" => inbox'[e].status = "consumed"
<1>1. CASE Skip(st, rn, ib, wt)
  BY <1>1 DEF Skip, SetRows, InHand, StaysInHand
<1>2. ASSUME NEW ib2 \in Inboxes, NEW wt2, Scanned(st, ib, wt, ib2, wt2)
      PROVE  /\ InHand(ib, e) => \/ InHand(ib2, e)
                                 \/ ib2[e].status = "dead" /\ e \in gone /\ ib[e].wait = None
             /\ ib[e].status = "consumed" => ib2[e].status = "consumed"
  <2>1. CASE EntryKept(ib, ib2, e)
    BY <2>1 DEF EntryKept, InHand
  <2>2. CASE \E f \in Events, r \in Runs, c \in Conditions :
                AnswerFound(ib, wt, ib2, wt2, f, r, c)
    BY <2>1, <2>2 DEF AnswerFound, InHand
  <2> QED BY <1>2, <2>1, <2>2, ScanMeans
<1>3. ASSUME NEW ib2 \in Inboxes, NEW wt2 \in WaitTables, Scanned(st, ib, wt, ib2, wt2),
             Skip(st, rn, ib2, wt2)
      PROVE  /\ InHand(ib, e) => StaysInHand(ib, e)
             /\ ib[e].status = "consumed" => inbox'[e].status = "consumed"
  <2>1. inbox' = ib2
    BY <1>3 DEF Skip, SetRows
  <2> QED BY <1>2, <1>3, <2>1 DEF InHand, StaysInHand
<1>4. ASSUME NEW ib2 \in Inboxes, NEW wt2 \in WaitTables, Scanned(st, ib, wt, ib2, wt2),
             NEW t \in Triggers(st, rn, ib2, redrive), NEW others \in Coalesced(ib2, t),
             StartRun(st, rn, ib2, wt2, t, others, redrive)
      PROVE  /\ InHand(ib, e) => StaysInHand(ib, e)
             /\ ib[e].status = "consumed" => inbox'[e].status = "consumed"
  <2>1. \/ inbox'[e] = ib2[e]
        \/ ib2[e].status = "pending" /\ inbox'[e].status = "claimed"
    BY <1>4, StartEntries
  <2> QED BY <1>2, <1>4, <2>1 DEF InHand, StaysInHand
<1> QED BY <1>1, <1>3, <1>4, ScheduleMeans

\* A step that calls the scheduler on an inbox with the same work in hand loses none.
LEMMA CallerKeepsWork ==
    ASSUME NEW st, NEW rn, NEW ib \in Inboxes, NEW wt \in WaitTables, NEW redrive,
           ScheduleAgent(st, rn, ib, wt, redrive), NEW e \in EventIds, InHand(inbox, e),
           InHand(ib, e), ib[e].wait = None => inbox[e].wait = None
    PROVE  StaysInHand(inbox, e)
  BY ScheduleKeepsWork DEF StaysInHand

\* What the callers of the scheduler do to an entry before they call it.
LEMMA CallersKeepWork ==
    ASSUME TypeOK, NEW e \in EventIds, InHand(inbox, e)
    PROVE  /\ \A f \in Events : inbox[f].status \in {"none", "stored"} =>
                 /\ \A w : AddToInbox(f, w)[e] = inbox[e]
                 /\ [inbox EXCEPT ![f].status = "pending"][e] = inbox[e]
                 /\ [inbox EXCEPT ![f].status = "refused"][e] = inbox[e]
           /\ \A r \in Runs :
                 InHand(AddToInbox(r, r), e)
                   /\ (AddToInbox(r, r)[e].wait = None => inbox[e].wait = None)
           /\ \A rs, statuses :
                 /\ InHand(ReturnInbox(rs, statuses), e)
                 /\ ReturnInbox(rs, statuses)[e].wait = inbox[e].wait
           /\ \A r : /\ ConsumeInbox(r)[e].wait = inbox[e].wait
                     /\ \/ InHand(ConsumeInbox(r), e)
                        \/ ConsumeInbox(r)[e].status = "consumed" /\ inbox[e].run = r
<1>1. inbox \in [EventIds -> InboxRows] /\ inbox[e] \in InboxRows
  BY DEF TypeOK
<1>2. ASSUME NEW f \in Events, inbox[f].status \in {"none", "stored"}
      PROVE  /\ \A w : AddToInbox(f, w)[e] = inbox[e]
             /\ [inbox EXCEPT ![f].status = "pending"][e] = inbox[e]
             /\ [inbox EXCEPT ![f].status = "refused"][e] = inbox[e]
  BY <1>1, <1>2 DEF AddToInbox, InHand
<1>3. ASSUME NEW r \in Runs
      PROVE  /\ InHand(AddToInbox(r, r), e)
             /\ AddToInbox(r, r)[e].wait = None => inbox[e].wait = None
  <2>1. CASE e = r
    BY <1>1, <2>1, ConstantFacts DEF AddToInbox, InHand, None, Runs
  <2>2. CASE e # r
    BY <1>1, <2>2 DEF AddToInbox, InHand
  <2> QED BY <2>1, <2>2
<1>4. ASSUME NEW rs, NEW statuses
      PROVE  /\ InHand(ReturnInbox(rs, statuses), e)
             /\ ReturnInbox(rs, statuses)[e].wait = inbox[e].wait
  BY <1>1 DEF ReturnInbox, InHand, InboxRows
<1>5. ASSUME NEW r
      PROVE  /\ ConsumeInbox(r)[e].wait = inbox[e].wait
             /\ \/ InHand(ConsumeInbox(r), e)
                \/ ConsumeInbox(r)[e].status = "consumed" /\ inbox[e].run = r
  BY <1>1 DEF ConsumeInbox, InHand, InboxRows
<1> QED BY <1>2, <1>3, <1>4, <1>5

\* An entry in hand before a step.
LEMMA WorkStep ==
    ASSUME TypeOK, [Next]_vars, NEW e \in EventIds, InHand(inbox, e)
    PROVE  \/ StaysInHand(inbox, e)
           \/ inbox'[e].status = "consumed" /\ \E p \in published' : p[1] = inbox[e].run
<1>0. RowsOK
  BY RowsBefore
<1>1. ASSUME inbox'[e] = inbox[e] PROVE StaysInHand(inbox, e)
  BY <1>1 DEF InHand, StaysInHand
<1>2. ASSUME NEW st, NEW rn, NEW redrive, ScheduleAgent(st, rn, inbox, waits, redrive)
      PROVE  StaysInHand(inbox, e)
  BY <1>0, <1>2, CallerKeepsWork DEF RowsOK
<1>3. ASSUME NEW r \in Runs, NEW c \in Conditions, NEW how \in {"matched", "timed_out"},
             ResolveInternally(r, c, how)
      PROVE  StaysInHand(inbox, e)
  <2>1. AddToInbox(r, r) \in Inboxes
    BY InboxUpdateType, ConstantFacts
  <2>2. ResolveWait(waits, r, c, how) \in WaitTables
    BY <1>0, ResolveWaitType DEF RowsOK, WaitStatuses
  <2>3. InHand(AddToInbox(r, r), e) /\ (AddToInbox(r, r)[e].wait = None => inbox[e].wait = None)
    BY CallersKeepWork
  <2> QED BY <1>3, <2>1, <2>2, <2>3, CallerKeepsWork DEF ResolveInternally
<1>4. ASSUME NEW f \in Events, IngestEvent(f) PROVE StaysInHand(inbox, e)
  <2>0. inbox[f].status = "none" /\ f \in EventIds
    BY <1>4, ConstantFacts DEF IngestEvent
  <2>1. CASE IngestUnrouted(f)
    <3>1. f # e
      BY <2>0 DEF InHand
    <3>2. inbox'[e] = inbox[e]
      BY <2>1, <3>1 DEF IngestUnrouted, TypeOK
    <3> QED BY <1>1, <3>2
  <2>2. CASE IngestWake(f)
    <3>1. AddToInbox(f, None) \in Inboxes /\ AddToInbox(f, None)[e] = inbox[e]
      <4>1. AddToInbox(f, None) \in Inboxes
        BY <2>0, InboxUpdateType, ConstantFacts
      <4>2. \A w : AddToInbox(f, w)[e] = inbox[e]
        BY <2>0, CallersKeepWork
      <4> QED BY <4>1, <4>2
    <3> QED BY <1>0, <2>2, <3>1, CallerKeepsWork DEF IngestWake, RowsOK, InHand
  <2>3. CASE IngestWaitMatch(f)
    <3>1. PICK w \in MatchingWaits(f) :
            ScheduleAgent(state, run, AddToInbox(f, w[1]),
                          ResolveWait(waits, w[1], w[2], "matched"), FALSE)
      BY <2>3 DEF IngestWaitMatch
    <3>2. w[1] \in Runs /\ w[2] \in Conditions
      BY DEF MatchingWaits
    <3>3. AddToInbox(f, w[1]) \in Inboxes /\ AddToInbox(f, w[1])[e] = inbox[e]
      <4>1. AddToInbox(f, w[1]) \in Inboxes
        BY <2>0, <3>2, InboxUpdateType, ConstantFacts
      <4>2. \A v : AddToInbox(f, v)[e] = inbox[e]
        BY <2>0, CallersKeepWork
      <4> QED BY <4>1, <4>2
    <3>4. ResolveWait(waits, w[1], w[2], "matched") \in WaitTables
      BY <1>0, <3>2, ResolveWaitType DEF RowsOK, WaitStatuses
    <3> QED BY <3>1, <3>3, <3>4, CallerKeepsWork DEF InHand
  <2> QED BY <1>4, <2>1, <2>2, <2>3 DEF IngestEvent
<1>5. ASSUME NEW f \in Events, RouteGrantedMention(f) PROVE StaysInHand(inbox, e)
  <2>1. /\ [inbox EXCEPT ![f].status = "pending"][e] = inbox[e]
        /\ [inbox EXCEPT ![f].status = "refused"][e] = inbox[e]
    BY <1>5, CallersKeepWork DEF RouteGrantedMention
  <2>2. [inbox EXCEPT ![f].status = "pending"] \in Inboxes
    BY InboxUpdateType, ConstantFacts DEF InboxStatuses
  <2>3. CASE inbox' = [inbox EXCEPT ![f].status = "refused"]
    BY <1>1, <2>1, <2>3
  <2>4. CASE ScheduleAgent(state, run, [inbox EXCEPT ![f].status = "pending"], waits, FALSE)
    BY <1>0, <2>1, <2>2, <2>4, CallerKeepsWork DEF RowsOK, InHand
  <2> QED BY <1>5, <2>3, <2>4 DEF RouteGrantedMention
<1>6. CASE \/ \E f \in Events : IngestEvent(f) \/ RouteGrantedMention(f) \/ PostDeleted(f)
           \/ SweepSchedules \/ WakeScheduler
  BY <1>1, <1>2, <1>4, <1>5, <1>6 DEF PostDeleted, SweepSchedules, WakeScheduler
<1>7. CASE \E r \in Runs, c \in Conditions : WaitStep(r, c)
  BY <1>1, <1>3, <1>7 DEF WaitStep, WaitFallsDue, HandleWaitTimeout, LoseWaitJob
<1>8. CASE \E r \in Runs : ApprovalResolved(r) \/ ExtendApprovalWait(r) \/ DeadlinePasses(r)
  BY <1>1, <1>3, <1>8, ConstantFacts DEF ApprovalResolved, ExtendApprovalWait, DeadlinePasses
<1>9. CASE \E r \in Runs, a \in Attempts : WorkerStep(r, a) \/ JobFault(r, a)
  BY <1>1, <1>9, JobStepFacts DEF JobStep, dbVars
<1>10. ASSUME NEW rs, NEW statuses, inbox' = ReturnInbox(rs, statuses)
       PROVE  StaysInHand(inbox, e)
  BY <1>10, CallersKeepWork DEF InHand, StaysInHand
<1>11. ASSUME NEW r, NEW retryable, NEW tm, ApplyFailure(r, retryable, tm)
       PROVE  StaysInHand(inbox, e)
  BY <1>1, <1>10, <1>11 DEF ApplyFailure, RetryAttempt, DeferForBudget, FailRun
<1>12. ASSUME NEW m \in reports, HandleRunReport(m)
       PROVE  \/ StaysInHand(inbox, e)
              \/ inbox'[e].status = "consumed" /\ \E p \in published' : p[1] = inbox[e].run
  <2> DEFINE r == m[1]
             a == m[2]
  <2>1. r \in Runs
    BY DEF TypeOK
  <2> HIDE DEF r, a
  <2>2. CASE UNCHANGED dbVars \/ ApplyStarted(r)
    BY <1>1, <2>2 DEF dbVars, ApplyStarted
  <2>3. CASE \E retryable \in BOOLEAN : ApplyFailure(r, retryable, timers)
    BY <1>11, <2>3
  <2>4. ASSUME NEW status \in RunStatuses, NEW transition, NEW ws \in SUBSET Conditions,
               CompleteRun(r, a, status, transition, ws)
        PROVE  \/ StaysInHand(inbox, e)
               \/ inbox'[e].status = "consumed" /\ \E p \in published' : p[1] = inbox[e].run
    <3> DEFINE wt == [waits EXCEPT ![r] = [c \in Conditions |->
                         IF c \in ws THEN "active" ELSE waits[r][c]]]
    <3>1. PICK next : ScheduleAgent(next, [run EXCEPT ![r].status = status], ConsumeInbox(r), wt, FALSE)
      BY <2>4 DEF CompleteRun
    <3>2. wt \in WaitTables
      BY DEF TypeOK, WaitTables, WaitStatuses
    <3>3. ConsumeInbox(r) \in Inboxes
      BY InboxUpdateType
    <3>4. <<r, a>> \in published'
      BY <2>4 DEF CompleteRun
    <3> HIDE DEF wt
    <3>5. CASE InHand(ConsumeInbox(r), e)
      <4>1. ConsumeInbox(r)[e].wait = inbox[e].wait
        BY CallersKeepWork
      <4> QED BY <3>1, <3>2, <3>3, <3>5, <4>1, CallerKeepsWork
    <3>6. CASE ConsumeInbox(r)[e].status = "consumed" /\ inbox[e].run = r
      <4>1. inbox'[e].status = "consumed"
        BY <3>1, <3>2, <3>3, <3>6, ScheduleKeepsWork
      <4> QED BY <3>4, <3>6, <4>1
    <3> QED BY <3>5, <3>6, CallersKeepWork
  <2>5. CASE ApplyCompletion(r, a)
    <3>1. CASE RefuseResult(r, a)
      BY <1>11, <3>1 DEF RefuseResult
    <3>2. CASE \E ws \in SUBSET Conditions :
                 \/ CompleteRun(r, a, "succeeded", "complete_idle", ws)
                 \/ CompleteRun(r, a, "succeeded", "complete_waiting", ws)
                 \/ CompleteRun(r, a, "failed", "fail", ws)
      BY <2>4, <3>2 DEF RunStatuses
    <3> QED BY <2>5, <3>1, <3>2, ConstantFacts DEF ApplyCompletion
  <2> QED BY <1>12, <2>2, <2>3, <2>5 DEF HandleRunReport, r, a
<1>13. CASE \E m \in reports : HandleRunReport(m) \/ DeadLetterReport(m)
  BY <1>1, <1>12, <1>13 DEF DeadLetterReport, dbVars
<1>14. CASE \E t \in timers : HandleRunTimeout(t) \/ LoseTimer(t)
  BY <1>1, <1>11, <1>14 DEF HandleRunTimeout, LoseTimer, dbVars
<1>15. CASE Reconcile
  BY <1>1, <1>11, <1>15
     DEF Reconcile, ObserveRun, ProbeJob, ProbeReport, FailLostAttempt, ReconcileWaits, dbVars
<1>16. CASE Operator
  <2>1. CASE PauseAgent \/ KillAll
    BY <1>1, <1>10, <2>1 DEF PauseAgent, KillAll, PauseInTransaction
  <2>2. CASE ResumeAgent \/ EnableAgent
    BY <1>2, <2>2 DEF ResumeAgent, EnableAgent
  <2>3. CASE DisableAgent \/ ReleaseKillSwitch
    BY <1>1, <2>3 DEF DisableAgent, ReleaseKillSwitch, dbVars
  <2>4. CASE RedriveRun
    <3> DEFINE ib == ReturnInbox({nRuns}, {"claimed", "consumed"})
    <3>1. ib \in Inboxes /\ InHand(ib, e) /\ ib[e].wait = inbox[e].wait
      BY InboxUpdateType, CallersKeepWork
    <3>2. ScheduleAgent(state, run, ib, waits, TRUE)
      BY <2>4 DEF RedriveRun
    <3> HIDE DEF ib
    <3> QED BY <1>0, <3>1, <3>2, CallerKeepsWork DEF RowsOK
  <2> QED BY <1>16, <2>1, <2>2, <2>3, <2>4 DEF Operator
<1>17. CASE UNCHANGED vars
  BY <1>1, <1>17 DEF vars
<1> QED BY <1>6, <1>7, <1>8, <1>9, <1>13, <1>14, <1>15, <1>16, <1>17 DEF Next

\* Work that entered the inbox leaves it only in a published run, or because its post is gone
\* and it resumes nothing, whatever is cancelled, retried, deferred, failed or redriven.
THEOREM NoWorkIsLost == Spec => WorkIsNotLost
<1>1. TypeOK /\ [Next]_vars =>
        [\A e \in EventIds : inbox[e].status \in {"pending", "claimed"} =>
            \/ inbox'[e].status \in {"pending", "claimed"}
            \/ inbox'[e].status = "consumed" /\ \E p \in published' : p[1] = inbox[e].run
            \/ inbox'[e].status = "dead" /\ e \in gone /\ inbox[e].wait = None]_vars
  <2> SUFFICES ASSUME TypeOK, [Next]_vars, NEW e \in EventIds,
                      inbox[e].status \in {"pending", "claimed"}
               PROVE  \/ inbox'[e].status \in {"pending", "claimed"}
                      \/ /\ inbox'[e].status = "consumed"
                         /\ \E p \in published' : p[1] = inbox[e].run
                      \/ inbox'[e].status = "dead" /\ e \in gone /\ inbox[e].wait = None
    OBVIOUS
  <2> QED BY WorkStep DEF InHand, StaysInHand
<1> QED BY <1>1, InitType, TypeStep, PTL DEF Spec, WorkIsNotLost

(***************************************************************************)
(* One resumption.  The rows as a transaction has them: the agent's state  *)
(* st, its n runs rn, its inbox ib and its waits wt.                       *)
(***************************************************************************)
Settling == {"matched", "timed_out"}

\* Some wait is active, or due.
Opens(wt) == \E r \in Runs, c \in Conditions : ActiveWait(wt[r][c])

\* The entry resolved a wait and no run has taken it yet.
Resumes(ib, e) == ib[e].status = "pending" /\ ib[e].wait # None

\* Only a run that succeeded has waits.
WaitsOfEnded(rn, wt) ==
    \A r \in Runs, c \in Conditions : wt[r][c] # "none" => rn[r].status = "succeeded"

\* The first resolution of a run's waits is the only one and leaves none active.
SettledOnce(wt) ==
    \A r \in Runs, c \in Conditions, d \in Conditions :
        wt[r][c] \in Settling => ~ActiveWait(wt[r][d]) /\ (wt[r][d] \in Settling => d = c)

\* An entry that resolved a wait waits for a run, or is the trigger of the run that took it.
ResumptionsTrigger(n, rn, ib) ==
    \A e \in EventIds : ib[e].wait # None =>
        /\ ib[e].status \in {"pending", "claimed", "consumed"}
        /\ ib[e].status # "pending" => ib[e].run \in 1..n /\ rn[ib[e].run].trigger = e

\* The waits of one run are active, or one entry that resolved a wait is pending.
OneOpen(ib, wt) ==
    /\ \A r, q \in Runs, c, d \in Conditions :
          ActiveWait(wt[r][c]) /\ ActiveWait(wt[q][d]) => r = q
    /\ \A e, f \in EventIds : Resumes(ib, e) /\ Resumes(ib, f) => e = f
    /\ Opens(wt) => \A e \in EventIds : ~Resumes(ib, e)

\* While something is open, the agent is free and its latest run did not fail; a waiting agent
\* has something open.
OpenMeansFree(st, n, rn, ib, wt) ==
    /\ Opens(wt) \/ (\E e \in EventIds : Resumes(ib, e)) =>
         /\ n > 0 /\ rn[n].status \in {"succeeded", "cancelled"}
         /\ st \notin {"queued", "running", "failed"}
    /\ Opens(wt) => st \in {"waiting", "paused"}
    /\ st = "waiting" => Opens(wt) \/ \E e \in EventIds : Resumes(ib, e)

Records(n, rn, ib, wt) ==
    FutureIsBlank(n, rn) /\ WaitsOfEnded(rn, wt) /\ SettledOnce(wt) /\ ResumptionsTrigger(n, rn, ib)

Resuming(st, n, rn, ib, wt) ==
    Records(n, rn, ib, wt) /\ OneOpen(ib, wt) /\ OpenMeansFree(st, n, rn, ib, wt)

ResumeInv == TypeOK /\ RunMatchesState /\ Resuming(state, nRuns, run, inbox, waits)

\* Entries that resolve nothing may change freely.
LEMMA PlainEntries ==
    ASSUME NEW st, NEW n, NEW rn, NEW ib, NEW wt, NEW ib2,
           \A e \in EventIds : \/ ib2[e] = ib[e]
                               \/ ib2[e].wait = None /\ ib[e].wait = None
    PROVE  /\ Records(n, rn, ib, wt) => Records(n, rn, ib2, wt)
           /\ \A e \in EventIds : Resumes(ib2, e) <=> Resumes(ib, e)
           /\ Resuming(st, n, rn, ib, wt) => Resuming(st, n, rn, ib2, wt)
<1>1. \A e \in EventIds : Resumes(ib2, e) <=> Resumes(ib, e)
  BY DEF Resumes
<1>2. ResumptionsTrigger(n, rn, ib) => ResumptionsTrigger(n, rn, ib2)
  BY DEF ResumptionsTrigger
<1>3. OneOpen(ib, wt) => OneOpen(ib2, wt)
  BY <1>1 DEF OneOpen
<1>4. OpenMeansFree(st, n, rn, ib, wt) => OpenMeansFree(st, n, rn, ib2, wt)
  BY <1>1 DEF OpenMeansFree
<1> QED BY <1>1, <1>2, <1>3, <1>4 DEF Records, Resuming

\* resolveWait: the wait that ends is the only one of its run that did, and none is left active.
LEMMA ResolveMeans ==
    ASSUME NEW rn, NEW wt \in WaitTables, NEW ib, NEW r \in Runs, NEW c \in Conditions,
           NEW how \in Settling, ActiveWait(wt[r][c]), WaitsOfEnded(rn, wt), SettledOnce(wt),
           OneOpen(ib, wt)
    PROVE  LET wt2 == ResolveWait(wt, r, c, how)
           IN  WaitsOfEnded(rn, wt2) /\ SettledOnce(wt2) /\ ~Opens(wt2)
<1> DEFINE wt2 == ResolveWait(wt, r, c, how)
<1>1. /\ wt2[r][c] = how
      /\ \A d \in Conditions \ {c} :
            wt2[r][d] = IF ActiveWait(wt[r][d]) THEN "cancelled" ELSE wt[r][d]
      /\ \A q \in Runs \ {r} : wt2[q] = wt[q]
  BY DEF ResolveWait, WaitTables
<1>2. \A q \in Runs \ {r}, d \in Conditions : ~ActiveWait(wt[q][d])
  BY DEF OneOpen
<1> HIDE DEF wt2
<1>3. \A d \in Conditions : wt[r][d] \notin Settling
  BY DEF SettledOnce
<1>4. \A d \in Conditions \ {c} : ~ActiveWait(wt2[r][d]) /\ wt2[r][d] \notin Settling
  BY <1>1, <1>3 DEF ActiveWait, Settling
<1>5. ~ActiveWait(wt2[r][c])
  BY <1>1 DEF ActiveWait, Settling
<1>6. ~Opens(wt2)
  BY <1>1, <1>2, <1>4, <1>5 DEF Opens
<1>7. WaitsOfEnded(rn, wt2)
  <2> SUFFICES ASSUME NEW q \in Runs, NEW d \in Conditions, wt2[q][d] # "none"
               PROVE  rn[q].status = "succeeded"
    BY DEF WaitsOfEnded
  <2>1. CASE q = r
    BY <2>1 DEF WaitsOfEnded, ActiveWait
  <2>2. CASE q # r
    BY <1>1, <2>2 DEF WaitsOfEnded
  <2> QED BY <2>1, <2>2
<1>8. SettledOnce(wt2)
  <2> SUFFICES ASSUME NEW q \in Runs, NEW d \in Conditions, NEW x \in Conditions,
                      wt2[q][d] \in Settling
               PROVE  ~ActiveWait(wt2[q][x]) /\ (wt2[q][x] \in Settling => x = d)
    BY DEF SettledOnce
  <2>1. CASE q = r
    BY <1>4, <1>5, <2>1
  <2>2. CASE q # r
    BY <1>1, <2>2 DEF SettledOnce
  <2> QED BY <2>1, <2>2
<1> QED BY <1>6, <1>7, <1>8 DEF wt2

\* A wait is resolved by the entry of f, which then resumes the agent.
LEMMA AnswerResumes ==
    ASSUME NEW st, NEW n, NEW rn, NEW ib, NEW wt \in WaitTables, NEW ib2,
           Resuming(st, n, rn, ib, wt),
           NEW f \in EventIds, NEW r \in Runs, NEW c \in Conditions, NEW how \in Settling,
           ActiveWait(wt[r][c]), ib2[f].status = "pending", ib2[f].wait = r,
           \A e \in EventIds \ {f} : \/ ib2[e] = ib[e]
                                     \/ ib2[e].wait = None /\ ib[e].wait = None
    PROVE  Resuming(st, n, rn, ib2, ResolveWait(wt, r, c, how))
<1> DEFINE wt2 == ResolveWait(wt, r, c, how)
<1>1. WaitsOfEnded(rn, wt2) /\ SettledOnce(wt2) /\ ~Opens(wt2)
  BY ResolveMeans DEF Resuming, Records
<1> HIDE DEF wt2
<1>2. Opens(wt) /\ \A e \in EventIds : ~Resumes(ib, e)
  BY DEF Opens, Resuming, OneOpen
<1>3. \A e \in EventIds : Resumes(ib2, e) <=> e = f
  <2>1. Resumes(ib2, f)
    BY ConstantFacts DEF Resumes, None, Runs
  <2>2. \A e \in EventIds \ {f} : ~Resumes(ib2, e)
    BY <1>2 DEF Resumes
  <2> QED BY <2>1, <2>2
<1>4. ResumptionsTrigger(n, rn, ib2)
  BY DEF Resuming, Records, ResumptionsTrigger
<1>5. OneOpen(ib2, wt2)
  BY <1>1, <1>3 DEF OneOpen, Opens
<1>6. OpenMeansFree(st, n, rn, ib2, wt2)
  BY <1>1, <1>2, <1>3 DEF OpenMeansFree, Resuming
<1> QED BY <1>1, <1>4, <1>5, <1>6 DEF Resuming, Records, wt2

\* The scan for missed answers keeps the invariant.
LEMMA ScanResumes ==
    ASSUME NEW st, NEW n, NEW rn, NEW ib \in Inboxes, NEW wt \in WaitTables, NEW ib2, NEW wt2,
           Scanned(st, ib, wt, ib2, wt2), Resuming(st, n, rn, ib, wt)
    PROVE  Resuming(st, n, rn, ib2, wt2)
<1>1. ASSUME NEW e \in EventIds, EntryKept(ib, ib2, e)
      PROVE  ib2[e] = ib[e] \/ (ib2[e].wait = None /\ ib[e].wait = None)
  BY <1>1 DEF EntryKept, Resuming, Records, ResumptionsTrigger
<1>2. CASE wt2 = wt /\ \A e \in EventIds : EntryKept(ib, ib2, e)
  BY <1>1, <1>2, PlainEntries
<1>3. ASSUME NEW f \in Events, NEW r \in Runs, NEW c \in Conditions,
             AnswerFound(ib, wt, ib2, wt2, f, r, c)
      PROVE  Resuming(st, n, rn, ib2, wt2)
  <2>1. f \in EventIds /\ ActiveWait(wt[r][c]) /\ "matched" \in Settling
    BY <1>3, ConstantFacts DEF AnswerFound, ActiveWait, Settling
  <2>2. Resuming(st, n, rn, ib2, ResolveWait(wt, r, c, "matched"))
    BY <1>1, <1>3, <2>1, AnswerResumes DEF AnswerFound
  <2> QED BY <1>3, <2>2 DEF AnswerFound
<1> QED BY <1>2, <1>3, ScanMeans

\* The run that starts takes the one entry that resumes the agent as its trigger.
LEMMA StartResumes ==
    ASSUME TypeOK, NEW st, NEW rn \in RunTables, NEW ib \in Inboxes, NEW wt, NEW redrive,
           NEW t \in Triggers(st, rn, ib, redrive), NEW others \in Coalesced(ib, t),
           StartRun(st, rn, ib, wt, t, others, redrive),
           Records(nRuns, rn, ib, wt), ~Opens(wt), \A e \in EventIds : Resumes(ib, e) => e = t
    PROVE  Resuming(state', nRuns', run', inbox', waits')
<1> DEFINE n == nRuns + 1
           row == [status |-> "queued", attempt |-> 1, trigger |-> t, overdue |-> FALSE]
<1>1. PICK next \in NextAgentState(st, ScheduleTransition(st, redrive)) :
        state' = next /\ run' = [rn EXCEPT ![n] = row] /\ waits' = wt
  BY DEF StartRun, SetRows
<1>2. state' = "queued"
  <2>1. ScheduleTransition(st, redrive) \in {"schedule", "wait_resolved", "redrive", "none"}
    BY DEF ScheduleTransition
  <2> QED BY <1>1, <2>1, TransitionFacts
<1>3. n \in Runs /\ nRuns' = n /\ nRuns \in Nat
  <2>1. nRuns < MaxRuns /\ nRuns' = n
    BY DEF StartRun
  <2>2. nRuns \in 0..MaxRuns /\ MaxRuns \in Nat
    BY ConstantFacts DEF TypeOK
  <2> QED BY <2>1, <2>2 DEF Runs
<1>4. row.trigger = t /\ row.status = "queued"
  OBVIOUS
<1>5. run'[n] = row /\ \A r \in Runs \ {n} : run'[r] = rn[r]
  <2> HIDE DEF row, n
  <2> QED BY <1>1, <1>3 DEF RunTables
<1> HIDE DEF row
<1>6. FutureIsBlank(nRuns', run')
  BY <1>3, <1>5 DEF FutureIsBlank, Records, Runs
<1>7. rn[n].status = "none"
  BY <1>3 DEF FutureIsBlank, Records
<1>8. WaitsOfEnded(run', waits') /\ SettledOnce(waits')
  BY <1>1, <1>5, <1>7 DEF WaitsOfEnded, Records
<1>9. \A e \in EventIds :
         \/ e \notin {t} \cup others /\ inbox'[e] = ib[e]
         \/ /\ e \in {t} \cup others /\ ib[e].status = "pending"
            /\ inbox'[e].status = "claimed" /\ inbox'[e].run = n
            /\ inbox'[e].wait = ib[e].wait
  BY StartEntries
<1>10. \A e \in EventIds : ~Resumes(inbox', e)
  BY <1>9 DEF Resumes
<1>11. ResumptionsTrigger(nRuns', run', inbox')
  <2> SUFFICES ASSUME NEW e \in EventIds, inbox'[e].wait # None
               PROVE  /\ inbox'[e].status \in {"pending", "claimed", "consumed"}
                      /\ inbox'[e].status # "pending" =>
                           inbox'[e].run \in 1..n /\ run'[inbox'[e].run].trigger = e
    BY <1>3 DEF ResumptionsTrigger
  <2>1. CASE inbox'[e] = ib[e]
    <3>1. /\ ib[e].status \in {"pending", "claimed", "consumed"}
          /\ ib[e].status # "pending" => ib[e].run \in 1..nRuns /\ rn[ib[e].run].trigger = e
      BY <2>1 DEF ResumptionsTrigger, Records
    <3>2. ib[e].status # "pending" => ib[e].run \in 1..n /\ ib[e].run \in Runs \ {n}
      <4>1. \A k \in 1..nRuns : k \in 1..n /\ k \in Runs \ {n}
        BY <1>3, ConstantFacts DEF Runs
      <4> HIDE DEF n
      <4> QED BY <3>1, <4>1
    <3> QED BY <1>5, <2>1, <3>1, <3>2
  <2>2. CASE ib[e].status = "pending" /\ inbox'[e].status = "claimed" /\ inbox'[e].run = n
               /\ inbox'[e].wait = ib[e].wait
    <3>1. e = t
      BY <2>2 DEF Resumes
    <3>2. n \in 1..n
      BY <1>3
    <3> QED BY <1>4, <1>5, <2>2, <3>1, <3>2
  <2> QED BY <1>9, <2>1, <2>2
<1>12. OneOpen(inbox', waits')
  BY <1>1, <1>10 DEF OneOpen, Opens
<1>13. OpenMeansFree(state', nRuns', run', inbox', waits')
  BY <1>1, <1>2, <1>10 DEF OpenMeansFree
<1> QED BY <1>6, <1>8, <1>11, <1>12, <1>13 DEF Resuming, Records

\* scheduleAgent keeps the invariant of the rows its caller has.
LEMMA ScheduleResumes ==
    ASSUME TypeOK, NEW st, NEW rn \in RunTables, NEW ib \in Inboxes, NEW wt \in WaitTables,
           Resuming(st, nRuns, rn, ib, wt), ScheduleAgent(st, rn, ib, wt, FALSE)
    PROVE  Resuming(state', nRuns', run', inbox', waits')
<1>1. ASSUME NEW ib2, NEW wt2, Resuming(st, nRuns, rn, ib2, wt2), Skip(st, rn, ib2, wt2)
      PROVE  Resuming(state', nRuns', run', inbox', waits')
  BY <1>1 DEF Skip, SetRows
<1>2. ASSUME NEW ib2 \in Inboxes, NEW wt2 \in WaitTables, Scanned(st, ib, wt, ib2, wt2)
      PROVE  Resuming(st, nRuns, rn, ib2, wt2)
  BY <1>2, ScanResumes
<1>3. ASSUME NEW ib2 \in Inboxes, NEW wt2 \in WaitTables, Scanned(st, ib, wt, ib2, wt2),
             NEW t \in Triggers(st, rn, ib2, FALSE), NEW others \in Coalesced(ib2, t),
             StartRun(st, rn, ib2, wt2, t, others, FALSE)
      PROVE  Resuming(state', nRuns', run', inbox', waits')
  <2>1. Resuming(st, nRuns, rn, ib2, wt2)
    BY <1>2, <1>3
  <2>2. st \in {"idle", "waiting"}
    <3>1. \E next : next \in NextAgentState(st, ScheduleTransition(st, FALSE))
      BY <1>3 DEF StartRun
    <3>2. ScheduleTransition(st, FALSE) # "none"
      BY <3>1, TransitionFacts
    <3> QED BY <3>2 DEF ScheduleTransition
  <2>3. CASE \E e \in EventIds : Resumes(ib2, e)
    <3>1. Resumes(ib2, t) /\ t \in EventIds
      BY <1>3, <2>3 DEF Triggers, Resumes, Pending
    <3>2. ~Opens(wt2) /\ \A e \in EventIds : Resumes(ib2, e) => e = t
      BY <2>1, <3>1 DEF Resuming, OneOpen
    <3> QED BY <1>3, <2>1, <3>2, StartResumes DEF Resuming
  <2>4. CASE \A e \in EventIds : ~Resumes(ib2, e)
    <3>1. st = "idle"
      BY <1>3, <2>2, <2>4 DEF Triggers, Resumes, Pending
    <3>2. ~Opens(wt2)
      BY <2>1, <3>1 DEF Resuming, OpenMeansFree
    <3> QED BY <1>3, <2>1, <2>4, <3>2, StartResumes DEF Resuming
  <2> QED BY <2>3, <2>4
<1> QED BY <1>1, <1>2, <1>3, ScheduleMeans

\* The rows of the runs change, in a step that inserts none.
LEMMA RowsResume ==
    ASSUME ResumeInv, RowSteps, nRuns' = nRuns
    PROVE  Records(nRuns', run', inbox, waits)
<1> USE DEF ResumeInv, Resuming, Records
<1>1. ASSUME NEW r \in Runs
      PROVE  /\ run[r].status = "succeeded" => run'[r].status = "succeeded"
             /\ run'[r].trigger = run[r].trigger
  <2>1. RowStep(r) /\ ~Inserted(r)
    BY DEF RowSteps, Inserted, TypeOK
  <2> QED BY <2>1 DEF RowStep, SameRow, Retried, Started, Ended, InProgress
<1>2. WaitsOfEnded(run', waits)
  BY <1>1 DEF WaitsOfEnded
<1>3. ResumptionsTrigger(nRuns', run', inbox)
  <2>1. \A k \in 1..nRuns : k \in Runs
    BY ConstantFacts DEF Runs, TypeOK
  <2> QED BY <1>1, <2>1 DEF ResumptionsTrigger
<1> QED BY <1>2, <1>3 DEF RowSteps

\* While the agent is busy, or failed, nothing is open.
LEMMA NothingOpen ==
    ASSUME ResumeInv, \/ state \in {"queued", "running", "failed"}
                      \/ nRuns > 0 /\ run[nRuns].status \notin {"succeeded", "cancelled"}
    PROVE  ~Opens(waits) /\ \A e \in EventIds : ~Resumes(inbox, e)
  BY DEF ResumeInv, Resuming, OpenMeansFree

\* Entries of the latest run go back to the inbox: of those that resolved a wait, only its trigger.
LEMMA ReturnResumes ==
    ASSUME ResumeInv, NEW rn, NEW rs, NEW statuses, rs \subseteq {nRuns},
           statuses \subseteq {"claimed", "consumed"},
           \A e \in EventIds : ~Resumes(inbox, e),
           Records(nRuns, rn, inbox, waits)
    PROVE  LET ib == ReturnInbox(rs, statuses)
           IN  /\ Records(nRuns, rn, ib, waits)
               /\ \A e \in EventIds : Resumes(ib, e) => nRuns > 0 /\ e = rn[nRuns].trigger
<1> DEFINE ib == ReturnInbox(rs, statuses)
<1>1. ASSUME NEW e \in EventIds
      PROVE  \/ ib[e] = inbox[e]
             \/ /\ inbox[e].run = nRuns /\ inbox[e].status \in {"claimed", "consumed"}
                /\ ib[e].status = "pending" /\ ib[e].wait = inbox[e].wait
  <2>1. inbox[e] \in InboxRows
    BY DEF ResumeInv, TypeOK
  <2>2. /\ [inbox[e] EXCEPT !.status = "pending", !.run = None].status = "pending"
        /\ [inbox[e] EXCEPT !.status = "pending", !.run = None].wait = inbox[e].wait
    BY <2>1 DEF InboxRows
  <2> QED BY <2>2 DEF ReturnInbox
<1> HIDE DEF ib
<1>2. ResumptionsTrigger(nRuns, rn, ib)
  BY <1>1 DEF Records, ResumptionsTrigger
<1>3. ASSUME NEW e \in EventIds, Resumes(ib, e)
      PROVE  nRuns > 0 /\ e = rn[nRuns].trigger
  <2>1. inbox[e].run = nRuns /\ inbox[e].status \in {"claimed", "consumed"} /\ inbox[e].wait # None
    BY <1>1, <1>3 DEF Resumes
  <2>2. nRuns \in 1..nRuns /\ rn[nRuns].trigger = e
    BY <2>1 DEF Records, ResumptionsTrigger
  <2> QED BY <2>2
<1> QED BY <1>2, <1>3 DEF Records, ib

\* applyFailure of the run in progress keeps the invariant.
LEMMA FailureResumes ==
    ASSUME ResumeInv, NEW r \in Runs, InProgress(run[r]), NEW retryable \in BOOLEAN, NEW tm,
           ApplyFailure(r, retryable, tm)
    PROVE  Resuming(state', nRuns', run', inbox', waits')
<1> USE DEF ResumeInv
<1>1. nRuns' = nRuns /\ waits' = waits
  BY DEF ApplyFailure
<1>2. RowSteps
  BY FailureRows DEF Resuming, Records
<1>3. Records(nRuns', run', inbox, waits)
  BY <1>1, <1>2, RowsResume
<1>4. r = nRuns /\ nRuns > 0 /\ state \in {"queued", "running"}
  BY BusyRun DEF InProgress
<1>5. ~Opens(waits) /\ \A e \in EventIds : ~Resumes(inbox, e)
  BY <1>4, NothingOpen
<1>6. CASE inbox' = inbox /\ state' \in {"queued", "failed"}
  BY <1>1, <1>3, <1>5, <1>6 DEF Resuming, OneOpen, OpenMeansFree, Opens
<1>7. CASE DeferForBudget(r, tm)
  <2>1. state' = "idle" /\ inbox' = ReturnInbox({r}, {"claimed"})
    BY <1>7, TransitionFacts DEF DeferForBudget
  <2>2. /\ Records(nRuns, run', inbox', waits)
        /\ \A e \in EventIds : Resumes(inbox', e) => nRuns > 0 /\ e = run'[nRuns].trigger
    BY <1>1, <1>3, <1>4, <1>5, <2>1, ReturnResumes
  <2>3. run'[nRuns].status = "cancelled"
    BY <1>4, <1>7 DEF DeferForBudget, TypeOK, RunRows
  <2>4. OneOpen(inbox', waits')
    BY <1>1, <1>5, <2>2 DEF OneOpen, Opens
  <2>5. OpenMeansFree(state', nRuns', run', inbox', waits')
    BY <1>1, <1>4, <1>5, <2>1, <2>3 DEF OpenMeansFree
  <2> QED BY <1>1, <2>2, <2>4, <2>5 DEF Resuming
<1>8. CASE RetryAttempt(r, tm) \/ FailRun(r, tm)
  BY <1>6, <1>8, TransitionFacts DEF RetryAttempt, FailRun
<1> QED BY <1>7, <1>8 DEF ApplyFailure

\* The end of the run in progress opens its waits; the scheduler is called on rows that keep the
\* invariant.
LEMMA CompleteCalls ==
    ASSUME ResumeInv, NEW r \in Runs, InProgress(run[r]), NEW a, NEW status, NEW transition,
           NEW ws \in SUBSET Conditions,
           \/ status = "succeeded" /\ transition = "complete_idle" /\ ws = {}
           \/ status = "succeeded" /\ transition = "complete_waiting" /\ ws # {}
           \/ status = "failed" /\ transition = "fail" /\ ws = {},
           CompleteRun(r, a, status, transition, ws)
    PROVE  \E st \in {"idle", "waiting", "failed"} :
             \E rn \in RunTables, ib \in Inboxes, wt \in WaitTables :
               Resuming(st, nRuns, rn, ib, wt) /\ ScheduleAgent(st, rn, ib, wt, FALSE)
<1> USE DEF ResumeInv
<1> DEFINE rn == [run EXCEPT ![r].status = status]
           ib == ConsumeInbox(r)
           wt == [waits EXCEPT ![r] = [c \in Conditions |->
                     IF c \in ws THEN "active" ELSE waits[r][c]]]
<1>1. PICK next \in NextAgentState(state, transition) : ScheduleAgent(next, rn, ib, wt, FALSE)
  BY DEF CompleteRun
<1>2. /\ transition = "complete_idle" => next = "idle"
      /\ transition = "complete_waiting" => next = "waiting"
      /\ transition = "fail" => next = "failed"
  BY TransitionFacts
<1>3. rn \in RunTables /\ ib \in Inboxes
  BY RunUpdateType, InboxUpdateType DEF RunStatuses
<1>4. wt \in WaitTables
  BY DEF TypeOK, WaitTables, WaitStatuses
<1>5. r = nRuns /\ nRuns > 0 /\ state \in {"queued", "running"} /\ nRuns \in Nat
  BY BusyRun DEF InProgress, TypeOK
<1>6. ~Opens(waits) /\ \A e \in EventIds : ~Resumes(inbox, e)
  BY <1>5, NothingOpen
<1>7. /\ rn[r].status = status /\ rn[r].trigger = run[r].trigger
      /\ \A q \in Runs \ {r} : rn[q] = run[q]
  BY DEF TypeOK, RunRows
<1>8. ASSUME NEW e \in EventIds
      PROVE  \/ ib[e] = inbox[e]
             \/ /\ inbox[e].status = "claimed" /\ ib[e].status = "consumed"
                /\ ib[e].run = inbox[e].run /\ ib[e].wait = inbox[e].wait
  <2>1. inbox[e] \in InboxRows
    BY DEF TypeOK
  <2>2. /\ [inbox[e] EXCEPT !.status = "consumed"].status = "consumed"
        /\ [inbox[e] EXCEPT !.status = "consumed"].run = inbox[e].run
        /\ [inbox[e] EXCEPT !.status = "consumed"].wait = inbox[e].wait
    BY <2>1 DEF InboxRows
  <2> QED BY <2>2 DEF ConsumeInbox
<1>9. \A c \in Conditions : waits[r][c] = "none"
  BY DEF Resuming, Records, WaitsOfEnded, InProgress
<1>10. /\ \A c \in Conditions : wt[r][c] = IF c \in ws THEN "active" ELSE "none"
       /\ \A q \in Runs \ {r} : wt[q] = waits[q]
  BY <1>9 DEF TypeOK
<1> HIDE DEF rn, ib, wt
<1>11. FutureIsBlank(nRuns, rn)
  BY <1>5, <1>7 DEF Resuming, Records, FutureIsBlank
<1>12. WaitsOfEnded(rn, wt)
  BY <1>7, <1>10 DEF Resuming, Records, WaitsOfEnded
<1>13. SettledOnce(wt)
  <2> SUFFICES ASSUME NEW q \in Runs, NEW c \in Conditions, NEW d \in Conditions,
                      wt[q][c] \in Settling
               PROVE  ~ActiveWait(wt[q][d]) /\ (wt[q][d] \in Settling => d = c)
    BY DEF SettledOnce
  <2>1. q # r
    BY <1>10 DEF Settling
  <2> QED BY <1>10, <2>1 DEF Resuming, Records, SettledOnce
<1>14. ResumptionsTrigger(nRuns, rn, ib)
  <2> SUFFICES ASSUME NEW e \in EventIds, ib[e].wait # None
               PROVE  /\ ib[e].status \in {"pending", "claimed", "consumed"}
                      /\ ib[e].status # "pending" =>
                           ib[e].run \in 1..nRuns /\ rn[ib[e].run].trigger = e
    BY DEF ResumptionsTrigger
  <2>1. /\ inbox[e].status \in {"pending", "claimed", "consumed"}
        /\ inbox[e].status # "pending" =>
             inbox[e].run \in 1..nRuns /\ run[inbox[e].run].trigger = e
    BY <1>8 DEF Resuming, Records, ResumptionsTrigger
  <2>2. \A k \in 1..nRuns : k \in Runs /\ rn[k].trigger = run[k].trigger
    BY <1>5, <1>7, ConstantFacts DEF Runs, TypeOK
  <2> QED BY <1>8, <2>1, <2>2
<1>15. \A e \in EventIds : ~Resumes(ib, e)
  BY <1>6, <1>8 DEF Resumes
<1>16. \A q \in Runs, c \in Conditions : ActiveWait(wt[q][c]) => q = r /\ c \in ws
  BY <1>6, <1>10 DEF Opens, ActiveWait
<1>17. OneOpen(ib, wt)
  BY <1>15, <1>16 DEF OneOpen
<1>18. OpenMeansFree(next, nRuns, rn, ib, wt)
  <2>1. Opens(wt) => ws # {}
    BY <1>16 DEF Opens
  <2>2. ws # {} => Opens(wt)
    BY <1>10 DEF Opens, ActiveWait
  <2> QED BY <1>2, <1>5, <1>7, <1>15, <2>1, <2>2 DEF OpenMeansFree
<1>19. Resuming(next, nRuns, rn, ib, wt)
  BY <1>11, <1>12, <1>13, <1>14, <1>17, <1>18 DEF Resuming, Records
<1>20. next \in {"idle", "waiting", "failed"}
  BY <1>2
<1> QED BY <1>1, <1>3, <1>4, <1>19, <1>20

\* The end of the run in progress keeps the invariant.
LEMMA CompleteResumes ==
    ASSUME ResumeInv, NEW r \in Runs, InProgress(run[r]), NEW a, NEW status, NEW transition,
           NEW ws \in SUBSET Conditions,
           \/ status = "succeeded" /\ transition = "complete_idle" /\ ws = {}
           \/ status = "succeeded" /\ transition = "complete_waiting" /\ ws # {}
           \/ status = "failed" /\ transition = "fail" /\ ws = {},
           CompleteRun(r, a, status, transition, ws)
    PROVE  Resuming(state', nRuns', run', inbox', waits')
  BY CompleteCalls, ScheduleResumes DEF ResumeInv

\* Ingest, a granted mention and a deletion keep the invariant.
LEMMA EventResumes ==
    ASSUME ResumeInv, NEW e \in Events,
           IngestEvent(e) \/ RouteGrantedMention(e) \/ PostDeleted(e)
    PROVE  Resuming(state', nRuns', run', inbox', waits')
<1> USE DEF ResumeInv
<1>0. RowsOK /\ e \in EventIds /\ inbox \in [EventIds -> InboxRows]
  BY RowsBefore, ConstantFacts DEF TypeOK
<1>1. ASSUME UNCHANGED <<state, nRuns, run, inbox, waits>>
      PROVE  Resuming(state', nRuns', run', inbox', waits')
  BY <1>1
<1>2. ASSUME inbox[e].status \in {"none", "stored"}
      PROVE  inbox[e].wait = None
  BY <1>0, <1>2 DEF Resuming, Records, ResumptionsTrigger
<1>3. ASSUME NEW ib, inbox[e].wait = None, ib[e].wait = None,
             \A f \in EventIds \ {e} : ib[f] = inbox[f]
      PROVE  Resuming(state, nRuns, run, ib, waits)
  BY <1>0, <1>3, PlainEntries
<1>4. ASSUME NEW s, inbox[e].wait = None
      PROVE  Resuming(state, nRuns, run, [inbox EXCEPT ![e].status = s], waits)
  <2> DEFINE ib == [inbox EXCEPT ![e].status = s]
  <2>1. ib[e].wait = inbox[e].wait /\ \A f \in EventIds \ {e} : ib[f] = inbox[f]
    BY <1>0 DEF InboxRows
  <2> HIDE DEF ib
  <2>2. Resuming(state, nRuns, run, ib, waits)
    BY <1>3, <1>4, <2>1
  <2> QED BY <2>2 DEF ib
<1>5. CASE IngestEvent(e) /\ IngestUnrouted(e)
  <2>1. UNCHANGED <<state, nRuns, run, waits>> /\ inbox[e].wait = None
    BY <1>2, <1>5 DEF IngestUnrouted, IngestEvent
  <2>2. PICK d \in {"stored", "refused"} :
          inbox' = [inbox EXCEPT ![e].status = d, ![e].at = nRuns]
    BY <1>5 DEF IngestUnrouted
  <2>3. inbox'[e] = [inbox[e] EXCEPT !.status = d, !.at = nRuns]
        /\ \A f \in EventIds \ {e} : inbox'[f] = inbox[f]
    BY <1>0, <2>2
  <2>4. inbox'[e].wait = None
    BY <1>0, <2>1, <2>3 DEF InboxRows
  <2>5. Resuming(state, nRuns, run, inbox', waits)
    BY <1>3, <2>1, <2>3, <2>4
  <2> QED BY <2>1, <2>5
<1>6. ASSUME NEW w
      PROVE  /\ AddToInbox(e, w)[e].wait = w /\ AddToInbox(e, w)[e].status = "pending"
             /\ \A f \in EventIds \ {e} : AddToInbox(e, w)[f] = inbox[f]
  BY <1>0 DEF AddToInbox
<1>7. CASE IngestEvent(e) /\ IngestWake(e)
  <2>1. AddToInbox(e, None) \in Inboxes
    BY <1>0, InboxUpdateType, ConstantFacts
  <2>2. Resuming(state, nRuns, run, AddToInbox(e, None), waits)
    BY <1>2, <1>3, <1>6, <1>7 DEF IngestEvent
  <2> QED BY <1>0, <1>7, <2>1, <2>2, ScheduleResumes DEF IngestWake, RowsOK
<1>8. CASE IngestEvent(e) /\ IngestWaitMatch(e)
  <2>1. PICK w \in MatchingWaits(e) :
          ScheduleAgent(state, run, AddToInbox(e, w[1]),
                        ResolveWait(waits, w[1], w[2], "matched"), FALSE)
    BY <1>8 DEF IngestWaitMatch
  <2>2. w[1] \in Runs /\ w[2] \in Conditions /\ ActiveWait(waits[w[1]][w[2]])
    BY DEF MatchingWaits, ActiveWait
  <2>3. AddToInbox(e, w[1]) \in Inboxes
    BY <1>0, <2>2, InboxUpdateType, ConstantFacts
  <2>4. ResolveWait(waits, w[1], w[2], "matched") \in WaitTables
    BY <1>0, <2>2, ResolveWaitType DEF RowsOK, WaitStatuses
  <2>5. Resuming(state, nRuns, run, AddToInbox(e, w[1]), ResolveWait(waits, w[1], w[2], "matched"))
    <3>1. "matched" \in Settling
      BY DEF Settling
    <3> QED BY <1>0, <1>6, <2>2, <3>1, AnswerResumes DEF RowsOK
  <2> QED BY <1>0, <2>1, <2>3, <2>4, <2>5, ScheduleResumes DEF RowsOK
<1>9. CASE RouteGrantedMention(e)
  <2>1. inbox[e].wait = None
    BY <1>2, <1>9 DEF RouteGrantedMention
  <2>2. CASE inbox' = [inbox EXCEPT ![e].status = "refused"] /\ UNCHANGED <<state, nRuns, run, waits>>
    BY <1>4, <2>1, <2>2
  <2>3. CASE ScheduleAgent(state, run, [inbox EXCEPT ![e].status = "pending"], waits, FALSE)
    <3>1. [inbox EXCEPT ![e].status = "pending"] \in Inboxes
      BY <1>0, InboxUpdateType DEF InboxStatuses
    <3>2. Resuming(state, nRuns, run, [inbox EXCEPT ![e].status = "pending"], waits)
      BY <1>4, <2>1
    <3> QED BY <1>0, <2>3, <3>1, <3>2, ScheduleResumes DEF RowsOK
  <2> QED BY <1>9, <2>2, <2>3 DEF RouteGrantedMention
<1>10. CASE PostDeleted(e)
  BY <1>1, <1>10 DEF PostDeleted
<1> QED BY <1>5, <1>7, <1>8, <1>9, <1>10 DEF IngestEvent

\* Wait timeouts, approvals and the jobs of waits keep the invariant.
LEMMA WaitResumes ==
    ASSUME ResumeInv, NEW r \in Runs, NEW c \in Conditions,
           WaitStep(r, c) \/ ApprovalResolved(r) \/ ExtendApprovalWait(r)
    PROVE  Resuming(state', nRuns', run', inbox', waits')
<1> USE DEF ResumeInv
<1>0. RowsOK /\ r \in EventIds /\ Approval \in Conditions
  BY RowsBefore, ConstantFacts
<1>1. ASSUME UNCHANGED <<state, nRuns, run, inbox, waits>>
      PROVE  Resuming(state', nRuns', run', inbox', waits')
  BY <1>1
<1>2. ASSUME NEW d \in Conditions, NEW how \in Settling, ActiveWait(waits[r][d]),
             ResolveInternally(r, d, how)
      PROVE  Resuming(state', nRuns', run', inbox', waits')
  <2>1. AddToInbox(r, r) \in Inboxes
    BY <1>0, InboxUpdateType, ConstantFacts
  <2>2. ResolveWait(waits, r, d, how) \in WaitTables
    BY <1>0, ResolveWaitType DEF RowsOK, WaitStatuses, Settling
  <2>3. /\ AddToInbox(r, r)[r].wait = r /\ AddToInbox(r, r)[r].status = "pending"
        /\ \A f \in EventIds \ {r} : AddToInbox(r, r)[f] = inbox[f]
    BY <1>0 DEF AddToInbox, RowsOK, Inboxes
  <2>4. Resuming(state, nRuns, run, AddToInbox(r, r), ResolveWait(waits, r, d, how))
    BY <1>0, <1>2, <2>3, AnswerResumes DEF RowsOK
  <2> QED BY <1>0, <1>2, <2>1, <2>2, <2>4, ScheduleResumes DEF ResolveInternally, RowsOK
<1>3. CASE WaitFallsDue(r, c)
  <2>1. /\ waits[r][c] = "active" /\ waits' = [waits EXCEPT ![r][c] = "due"]
        /\ UNCHANGED <<state, nRuns, run, inbox>>
    BY <1>3 DEF WaitFallsDue
  <2>2. \A q \in Runs, d \in Conditions :
           waits'[q][d] = waits[q][d] \/ (waits[q][d] = "active" /\ waits'[q][d] = "due")
    BY <2>1 DEF TypeOK
  <2>3. \A q \in Runs, d \in Conditions :
           /\ ActiveWait(waits'[q][d]) <=> ActiveWait(waits[q][d])
           /\ waits'[q][d] \in Settling <=> waits[q][d] \in Settling
           /\ waits'[q][d] = "none" <=> waits[q][d] = "none"
    BY <2>2 DEF ActiveWait, Settling
  <2>4. Opens(waits') <=> Opens(waits)
    BY <2>3 DEF Opens
  <2>5. WaitsOfEnded(run, waits') /\ SettledOnce(waits')
    BY <2>3 DEF Resuming, Records, WaitsOfEnded, SettledOnce
  <2>6. OneOpen(inbox, waits')
    BY <2>3, <2>4 DEF Resuming, OneOpen
  <2>7. OpenMeansFree(state, nRuns, run, inbox, waits')
    BY <2>4 DEF Resuming, OpenMeansFree
  <2> QED BY <2>1, <2>5, <2>6, <2>7 DEF Resuming, Records
<1>4. CASE HandleWaitTimeout(r, c)
  <2>1. CASE waits[r][c] = "due"
    BY <1>2, <1>4, <2>1 DEF HandleWaitTimeout, Settling, ActiveWait
  <2>2. CASE waits[r][c] # "due"
    BY <1>1, <1>4, <2>2 DEF HandleWaitTimeout
  <2> QED BY <2>1, <2>2
<1>5. CASE LoseWaitJob(<<r, c>>) \/ ExtendApprovalWait(r)
  BY <1>1, <1>5 DEF LoseWaitJob, ExtendApprovalWait
<1>6. CASE ApprovalResolved(r)
  BY <1>0, <1>2, <1>6 DEF ApprovalResolved, Settling
<1> QED BY <1>3, <1>4, <1>5, <1>6 DEF WaitStep

\* A report keeps the invariant.
LEMMA ReportResumes ==
    ASSUME ResumeInv, NEW m \in reports, HandleRunReport(m)
    PROVE  Resuming(state', nRuns', run', inbox', waits')
<1> USE DEF ResumeInv
<1> DEFINE r == m[1]
           a == m[2]
<1>1. r \in Runs
  BY DEF TypeOK
<1>0. RowSteps
  BY ReportRows DEF Resuming, Records
<1> HIDE DEF r, a
<1>2. CASE UNCHANGED dbVars
  BY <1>2 DEF dbVars
<1>3. CASE ~Stale(r, a)
  <2>1. InProgress(run[r])
    BY <1>3 DEF Stale
  <2>2. CASE ApplyStarted(r)
    <3>1. UNCHANGED <<nRuns, inbox, waits>> /\ state \in {"queued", "running"}
      BY <1>1, <2>1, <2>2, BusyRun DEF ApplyStarted, InProgress
    <3>2. state' \in {"queued", "running"}
      BY <2>2, <3>1 DEF ApplyStarted
    <3>3. ~Opens(waits) /\ \A e \in EventIds : ~Resumes(inbox, e)
      BY <3>1, NothingOpen
    <3>4. Records(nRuns', run', inbox, waits)
      BY <1>0, <3>1, RowsResume
    <3> QED BY <3>1, <3>2, <3>3, <3>4 DEF Resuming, OneOpen, OpenMeansFree, Opens
  <2>3. CASE \E retryable \in BOOLEAN : ApplyFailure(r, retryable, timers)
    BY <1>1, <2>1, <2>3, FailureResumes
  <2>4. CASE RefuseResult(r, a)
    BY <1>1, <2>1, <2>4, FailureResumes DEF RefuseResult
  <2>5. CASE ApplyCompletion(r, a)
    <3>1. CASE \E ws \in SUBSET Conditions :
                 ws # {} /\ CompleteRun(r, a, "succeeded", "complete_waiting", ws)
      BY <1>1, <2>1, <3>1, CompleteResumes
    <3>2. CASE CompleteRun(r, a, "succeeded", "complete_idle", {})
      BY <1>1, <2>1, <3>2, CompleteResumes
    <3>3. CASE CompleteRun(r, a, "failed", "fail", {})
      BY <1>1, <2>1, <3>3, CompleteResumes
    <3> QED BY <2>4, <2>5, <3>1, <3>2, <3>3, ConstantFacts DEF ApplyCompletion
  <2> QED BY <1>3, <2>2, <2>3, <2>5 DEF HandleRunReport, r, a
<1> QED BY <1>2, <1>3 DEF HandleRunReport, r, a

\* Pausing returns what the run in progress had taken, and keeps the invariant.
LEMMA PauseResumes ==
    ASSUME ResumeInv, RowSteps, PauseInTransaction
    PROVE  Resuming(state', nRuns', run', inbox', waits')
<1> USE DEF ResumeInv
<1>1. nRuns' = nRuns /\ waits' = waits
  BY DEF PauseInTransaction
<1>2. CASE state \in {"paused", "disabled", "failed"}
  BY <1>1, <1>2 DEF PauseInTransaction
<1>3. CASE state \notin {"paused", "disabled", "failed"}
  <2> DEFINE rs == {r \in Runs : InProgress(run[r])}
  <2>1. /\ state' = "paused" /\ inbox' = ReturnInbox(rs, {"claimed"})
        /\ run' = [r \in Runs |-> IF InProgress(run[r])
                                  THEN [run[r] EXCEPT !.status = "cancelled"] ELSE run[r]]
    BY <1>3, TransitionFacts DEF PauseInTransaction
  <2>2. Records(nRuns', run', inbox, waits)
    BY <1>1, RowsResume
  <2>3. CASE rs = {}
    <3>1. run' = run
      BY <2>1, <2>3 DEF TypeOK
    <3>2. \A e \in EventIds : inbox'[e] = inbox[e]
      BY <2>1, <2>3 DEF ReturnInbox
    <3>3. Resuming("paused", nRuns, run, inbox, waits)
      BY DEF Resuming, OpenMeansFree
    <3>4. Resuming("paused", nRuns, run, inbox', waits)
      BY <3>2, <3>3, PlainEntries
    <3> QED BY <1>1, <2>1, <3>1, <3>4
  <2>4. CASE rs # {}
    <3>1. PICK r \in Runs : InProgress(run[r])
      BY <2>4
    <3>2. r = nRuns /\ nRuns > 0 /\ state \in {"queued", "running"} /\ rs = {nRuns}
      BY <3>1, BusyRun DEF InProgress
    <3>3. ~Opens(waits) /\ \A e \in EventIds : ~Resumes(inbox, e)
      BY <3>2, NothingOpen
    <3>4. /\ Records(nRuns, run', inbox', waits)
          /\ \A e \in EventIds : Resumes(inbox', e) => nRuns > 0 /\ e = run'[nRuns].trigger
      <4>1. inbox' = ReturnInbox({nRuns}, {"claimed"})
        BY <2>1, <3>2
      <4> QED BY <1>1, <2>2, <3>3, <4>1, ReturnResumes
    <3>5. run'[nRuns].status = "cancelled"
      BY <2>1, <3>1, <3>2 DEF TypeOK, RunRows
    <3>6. OneOpen(inbox', waits')
      BY <1>1, <3>3, <3>4 DEF OneOpen, Opens
    <3>7. OpenMeansFree(state', nRuns', run', inbox', waits')
      BY <1>1, <2>1, <3>2, <3>3, <3>5 DEF OpenMeansFree
    <3> QED BY <1>1, <3>4, <3>6, <3>7 DEF Resuming
  <2> QED BY <2>3, <2>4
<1> QED BY <1>2, <1>3

\* A redrive starts the failed run's trigger again, which is the entry that resumed it, if any.
LEMMA RedriveResumes ==
    ASSUME ResumeInv, RedriveRun
    PROVE  Resuming(state', nRuns', run', inbox', waits')
<1> USE DEF ResumeInv
<1> DEFINE ib == ReturnInbox({nRuns}, {"claimed", "consumed"})
<1>0. RowsOK
  BY RowsBefore
<1>1. /\ state = "failed" /\ nRuns > 0 /\ nRuns' = nRuns + 1
      /\ ScheduleAgent("failed", run, ib, waits, TRUE)
  BY DEF RedriveRun
<1>2. ~Opens(waits) /\ \A e \in EventIds : ~Resumes(inbox, e)
  BY <1>1, NothingOpen
<1>3. /\ Records(nRuns, run, ib, waits)
      /\ \A e \in EventIds : Resumes(ib, e) => nRuns > 0 /\ e = run[nRuns].trigger
  BY <1>2, ReturnResumes DEF Resuming
<1>4. ib \in Inboxes
  BY InboxUpdateType
<1> HIDE DEF ib
<1>5. ASSUME NEW ib2, NEW wt2 PROVE ~Skip("failed", run, ib2, wt2)
  BY <1>1 DEF Skip, TypeOK
<1>6. PICK ib2 \in Inboxes, wt2 \in WaitTables :
        /\ Scanned("failed", ib, waits, ib2, wt2)
        /\ \E t \in Triggers("failed", run, ib2, TRUE) : \E others \in Coalesced(ib2, t) :
              StartRun("failed", run, ib2, wt2, t, others, TRUE)
  BY <1>0, <1>1, <1>4, <1>5, ScheduleMeans DEF RowsOK
<1>7. PICK t \in Triggers("failed", run, ib2, TRUE) : \E others \in Coalesced(ib2, t) :
        StartRun("failed", run, ib2, wt2, t, others, TRUE)
  BY <1>6
<1>8. PICK others \in Coalesced(ib2, t) : StartRun("failed", run, ib2, wt2, t, others, TRUE)
  BY <1>7
<1>9. wt2 = waits /\ \A e \in EventIds : EntryKept(ib, ib2, e)
  BY <1>0, <1>4, <1>6, ScanMeans DEF RowsOK
<1>10. \A e \in EventIds : ib2[e] = ib[e] \/ (ib2[e].wait = None /\ ib[e].wait = None)
  BY <1>3, <1>9 DEF EntryKept, Records, ResumptionsTrigger
<1>11. /\ Records(nRuns, run, ib2, waits)
       /\ \A e \in EventIds : Resumes(ib2, e) <=> Resumes(ib, e)
  BY <1>3, <1>10, PlainEntries
<1>12. t = run[nRuns].trigger
  BY <1>7 DEF Triggers
<1> QED BY <1>0, <1>2, <1>3, <1>6, <1>8, <1>9, <1>11, <1>12, StartResumes DEF RowsOK

\* The operator's commands keep the invariant.
LEMMA OperatorResumes ==
    ASSUME ResumeInv, RowSteps, Operator
    PROVE  Resuming(state', nRuns', run', inbox', waits')
<1> USE DEF ResumeInv
<1>0. RowsOK
  BY RowsBefore
<1>1. CASE PauseAgent \/ KillAll
  BY <1>1, PauseResumes DEF PauseAgent, KillAll
<1>2. CASE ResumeAgent
  <2>1. PICK next : /\ next = IF Opens(waits) THEN "waiting" ELSE "idle"
                    /\ ScheduleAgent(next, run, inbox, waits, FALSE)
    BY <1>2, TransitionFacts DEF ResumeAgent, Opens
  <2>2. Resuming(next, nRuns, run, inbox, waits)
    BY <2>1 DEF Resuming, OpenMeansFree
  <2> QED BY <1>0, <2>1, <2>2, ScheduleResumes DEF RowsOK
<1>3. CASE DisableAgent
  <2>1. /\ state' = "disabled" /\ waits' = CancelActiveWaits(waits)
        /\ UNCHANGED <<nRuns, run, inbox>>
    BY <1>3, TransitionFacts DEF DisableAgent
  <2>2. \A r \in Runs, c \in Conditions :
           waits'[r][c] = IF ActiveWait(waits[r][c]) THEN "cancelled" ELSE waits[r][c]
    BY <2>1 DEF CancelActiveWaits
  <2>3. ~Opens(waits') /\ \A r \in Runs, c \in Conditions :
           /\ waits'[r][c] \in Settling => waits[r][c] \in Settling
           /\ waits'[r][c] # "none" => waits[r][c] # "none"
           /\ ~ActiveWait(waits'[r][c])
    BY <2>2 DEF Opens, ActiveWait, Settling
  <2>4. WaitsOfEnded(run, waits') /\ SettledOnce(waits')
    BY <2>3 DEF Resuming, Records, WaitsOfEnded, SettledOnce
  <2>5. OneOpen(inbox, waits')
    BY <2>3 DEF Resuming, OneOpen
  <2>6. state \notin {"queued", "running"}
    BY <1>3, TransitionFacts DEF DisableAgent
  <2>7. OpenMeansFree("disabled", nRuns, run, inbox, waits')
    BY <2>3 DEF Resuming, OpenMeansFree
  <2> QED BY <2>1, <2>4, <2>5, <2>7 DEF Resuming, Records
<1>4. CASE EnableAgent
  <2>1. PICK next : /\ ScheduleAgent(next, run, inbox, waits, FALSE)
                    /\ \/ next = "idle"
                       \/ next = "failed" /\ nRuns > 0 /\ run[nRuns].status = "failed"
    BY <1>4, TransitionFacts DEF EnableAgent, EnableTransition
  <2>2. ~Opens(waits)
    BY <1>4 DEF EnableAgent, Resuming, OpenMeansFree
  <2>3. Resuming(next, nRuns, run, inbox, waits)
    BY <2>1, <2>2 DEF Resuming, OpenMeansFree
  <2> QED BY <1>0, <2>1, <2>3, ScheduleResumes DEF RowsOK
<1>5. CASE RedriveRun
  BY <1>5, RedriveResumes
<1>6. CASE ReleaseKillSwitch
  BY <1>6 DEF ReleaseKillSwitch, dbVars
<1> QED BY <1>1, <1>2, <1>3, <1>4, <1>5, <1>6 DEF Operator

\* Every step of the protocol keeps the invariant.
LEMMA ResumeStep == ResumeInv /\ [Next]_vars => ResumeInv'
<1> SUFFICES ASSUME ResumeInv, [Next]_vars PROVE ResumeInv'
  OBVIOUS
<1>0. TypeOK' /\ RunMatchesState' /\ RowSteps /\ RowsOK
  BY TypeStep, MatchStep, RunRowsStep, RowsBefore DEF ResumeInv, Resuming, Records
<1> DEFINE Goal == Resuming(state', nRuns', run', inbox', waits')
<1>1. CASE UNCHANGED dbVars
  <2>1. UNCHANGED <<state, nRuns, run, inbox, waits>>
    BY <1>1 DEF dbVars
  <2>2. Goal
    BY <2>1 DEF ResumeInv
  <2> QED BY <1>0, <2>2 DEF ResumeInv
<1>2. CASE \E e \in Events : IngestEvent(e) \/ RouteGrantedMention(e) \/ PostDeleted(e)
  <2>1. Goal
    BY <1>2, EventResumes
  <2> QED BY <1>0, <2>1 DEF ResumeInv
<1>3. CASE SweepSchedules \/ WakeScheduler
  <2>1. Goal
    BY <1>0, <1>3, ScheduleResumes DEF SweepSchedules, WakeScheduler, RowsOK, ResumeInv
  <2> QED BY <1>0, <2>1 DEF ResumeInv
<1>4. CASE \/ \E r \in Runs, c \in Conditions : WaitStep(r, c)
           \/ \E r \in Runs : ApprovalResolved(r) \/ ExtendApprovalWait(r)
  <2>1. Goal
    BY <1>4, WaitResumes, ConstantFacts
  <2> QED BY <1>0, <2>1 DEF ResumeInv
<1>5. CASE \E r \in Runs, a \in Attempts : WorkerStep(r, a) \/ JobFault(r, a)
  BY <1>1, <1>5, JobStepFacts DEF JobStep, ResumeInv
<1>6. CASE \E m \in reports : HandleRunReport(m) \/ DeadLetterReport(m)
  <2>1. CASE \E m \in reports : HandleRunReport(m)
    <3>1. Goal
      BY <2>1, ReportResumes
    <3> QED BY <1>0, <3>1 DEF ResumeInv
  <2> QED BY <1>1, <1>6, <2>1 DEF DeadLetterReport
<1>7. CASE \E r \in Runs : DeadlinePasses(r)
  <2>1. UNCHANGED <<state, nRuns, inbox, waits>>
    BY <1>7 DEF DeadlinePasses
  <2>2. Records(nRuns', run', inbox, waits)
    BY <1>0, <2>1, RowsResume
  <2>3. \A r \in Runs : run'[r].status = run[r].status
    BY <1>7 DEF DeadlinePasses, ResumeInv, TypeOK, RunRows
  <2>4. nRuns > 0 => nRuns \in Runs
    BY ConstantFacts DEF ResumeInv, TypeOK, Runs
  <2>5. OpenMeansFree(state, nRuns, run', inbox, waits)
    BY <2>3, <2>4 DEF ResumeInv, Resuming, OpenMeansFree
  <2>6. Goal
    BY <2>1, <2>2, <2>5 DEF ResumeInv, Resuming
  <2> QED BY <1>0, <2>6 DEF ResumeInv
<1>8. ASSUME NEW t \in timers, HandleRunTimeout(t) PROVE ResumeInv'
  <2>1. t[1] \in Runs
    BY DEF ResumeInv, TypeOK
  <2>2. CASE ~Stale(t[1], t[2]) /\ ApplyFailure(t[1], TRUE, timers \ {t})
    <3>1. InProgress(run[t[1]])
      BY <2>2 DEF Stale
    <3>2. Goal
      BY <2>1, <2>2, <3>1, FailureResumes
    <3> QED BY <1>0, <3>2 DEF ResumeInv
  <2> QED BY <1>1, <1>8, <2>2 DEF HandleRunTimeout
<1>9. CASE FailLostAttempt
  <2>1. probe.run \in Runs /\ probe.status \in {"queued", "running"}
    BY <1>9 DEF FailLostAttempt, ResumeInv, TypeOK, Probes, NoProbe
  <2>2. CASE run[probe.run].status = probe.status /\ ApplyFailure(probe.run, TRUE, timers)
    <3>1. InProgress(run[probe.run])
      BY <2>1, <2>2 DEF InProgress
    <3>2. Goal
      BY <2>1, <2>2, <3>1, FailureResumes
    <3> QED BY <1>0, <3>2 DEF ResumeInv
  <2> QED BY <1>1, <1>9, <2>2 DEF FailLostAttempt
<1>10. CASE Reconcile
  <2>1. CASE \/ \E r \in Runs : ObserveRun(r)
             \/ ProbeJob \/ ProbeReport \/ ReconcileWaits
    BY <1>1, <2>1 DEF ObserveRun, ProbeJob, ProbeReport, ReconcileWaits, dbVars
  <2> QED BY <1>9, <1>10, <2>1 DEF Reconcile
<1>11. CASE Operator
  <2>1. Goal
    BY <1>0, <1>11, OperatorResumes
  <2> QED BY <1>0, <2>1 DEF ResumeInv
<1>12. CASE \E t \in timers : HandleRunTimeout(t) \/ LoseTimer(t)
  BY <1>1, <1>8, <1>12 DEF LoseTimer
<1>13. CASE UNCHANGED vars
  BY <1>1, <1>13 DEF vars, dbVars
<1> QED BY <1>2, <1>3, <1>4, <1>5, <1>6, <1>7, <1>10, <1>11, <1>12, <1>13 DEF Next

\* A fresh agent waits for nothing.
LEMMA ResumeInit == Init => ResumeInv
<1> SUFFICES ASSUME Init PROVE ResumeInv
  OBVIOUS
<1>1. TypeOK /\ RunMatchesState /\ FutureIsBlank(nRuns, run)
  BY RunsInvInit DEF RunsInv
<1>2. /\ \A r \in Runs, c \in Conditions : waits[r][c] = "none"
      /\ \A e \in EventIds : inbox[e].wait = None
      /\ state # "waiting"
  BY DEF Init
<1>3. ~Opens(waits) /\ \A e \in EventIds : ~Resumes(inbox, e)
  BY <1>2 DEF Opens, ActiveWait, Resumes
<1>4. WaitsOfEnded(run, waits) /\ SettledOnce(waits) /\ ResumptionsTrigger(nRuns, run, inbox)
  BY <1>2 DEF WaitsOfEnded, SettledOnce, ResumptionsTrigger, Settling
<1>5. OneOpen(inbox, waits) /\ OpenMeansFree(state, nRuns, run, inbox, waits)
  BY <1>2, <1>3 DEF OneOpen, OpenMeansFree, Opens
<1> QED BY <1>1, <1>4, <1>5 DEF ResumeInv, Resuming, Records

\* A waiting agent always has an active wait, or the pending entry that resolved one: it cannot
\* wait for ever for nothing, whatever is paused, disabled, cancelled or redriven.
THEOREM WaitersCanResume == Spec => []WaitingCanResume
<1>1. ResumeInv => WaitingCanResume
  BY DEF ResumeInv, Resuming, OpenMeansFree, WaitingCanResume, Opens, Resumes, ActiveRuns,
         Resumptions, Pending
<1> QED BY <1>1, ResumeInit, ResumeStep, PTL DEF Spec

\* A set without two different members has at most one.
LEMMA AtMostOne ==
    ASSUME NEW S, \A x, y \in S : x = y
    PROVE  Cardinality(S) \in 0..1 /\ (S # {} => Cardinality(S) = 1)
<1>1. CASE S = {}
  BY <1>1, FS_EmptySet
<1>2. CASE S # {}
  <2>1. PICK x \in S : S = {x}
    BY <1>2
  <2> QED BY <2>1, FS_Singleton
<1> QED BY <1>1, <1>2

\* An answer, a late answer found by the scan, a timeout and an approval that race for a run's
\* waits resume the agent once, for every number of runs, conditions and events.
THEOREM ResumesOnce == Spec => []OneResumption
<1>1. ResumeInv => OneResumption
  <2> SUFFICES ASSUME ResumeInv PROVE OneResumption
    OBVIOUS
  <2>1. ASSUME NEW r \in Runs
        PROVE  Cardinality({c \in Conditions : waits[r][c] \in {"matched", "timed_out"}}) <= 1
    <3> DEFINE S == {c \in Conditions : waits[r][c] \in {"matched", "timed_out"}}
    <3>1. \A c, d \in S : c = d
      BY DEF ResumeInv, Resuming, Records, SettledOnce, Settling
    <3> HIDE DEF S
    <3>2. Cardinality(S) \in 0..1
      BY <3>1, AtMostOne
    <3> QED BY <3>2 DEF S
  <2>2. \A r, q \in ActiveRuns : r = q
    BY DEF ResumeInv, Resuming, OneOpen, ActiveRuns
  <2>3. \A e, f \in Resumptions : e = f
    BY DEF ResumeInv, Resuming, OneOpen, Resumptions, Resumes, Pending
  <2>4. ActiveRuns = {} \/ Resumptions = {}
    BY DEF ResumeInv, Resuming, OneOpen, Opens, ActiveRuns, Resumptions, Resumes, Pending
  <2>5. Cardinality(ActiveRuns) \in 0..1 /\ Cardinality(Resumptions) \in 0..1
    BY <2>2, <2>3, AtMostOne
  <2>6. Cardinality(ActiveRuns) = 0 \/ Cardinality(Resumptions) = 0
    BY <2>4, FS_EmptySet
  <2>7. Cardinality(ActiveRuns) + Cardinality(Resumptions) <= 1
    BY <2>5, <2>6
  <2> QED BY <2>1, <2>7 DEF OneResumption
<1> QED BY <1>1, ResumeInit, ResumeStep, PTL DEF Spec

(***************************************************************************)
(* Missed answers.                                                         *)
(***************************************************************************)
\* The event e answers the wait of run r on c and nobody took it as an answer.
Unseen(ib, wt, e, r, c) ==
    /\ wt[r][c] = "active" /\ <<c, e>> \in Answers /\ e \notin gone
    /\ ib[e].status = "pending" \/ (ib[e].status = "stored" /\ ib[e].at >= r)

NoneMissed(ib, wt) == \A e \in Events, r \in Runs, c \in Conditions : ~Unseen(ib, wt, e, r, c)

\* Nothing is missed while the agent waits; nor while it is paused, unless a granted mention
\* may have been routed to it in the meantime.
Seen(st, ib, wt) == st = "waiting" \/ "grant" \notin Activities => NoneMissed(ib, wt)

\* A busy agent is not under the kill switch, so that the end of its run is followed by a scan.
KillHolds ==
    /\ killSwitch => state \notin {"queued", "running"}
    /\ "kill" \notin Activities => ~killSwitch

SeenInv == ResumeInv /\ KillHolds /\ Seen(state, inbox, waits)

\* The scan's candidates are what is unseen.
LEMMA MissedMeans ==
    ASSUME NEW ib, NEW wt
    PROVE  /\ \A e \in Events, r \in Runs, c \in Conditions :
                 <<e, r, c>> \in MissedAnswers(ib, wt) <=> Unseen(ib, wt, e, r, c)
           /\ NoneMissed(ib, wt) <=> MissedAnswers(ib, wt) = {}
<1>1. ASSUME NEW e \in Events, NEW r \in Runs, NEW c \in Conditions
      PROVE  <<e, r, c>> \in MissedAnswers(ib, wt) <=> Unseen(ib, wt, e, r, c)
  BY DEF MissedAnswers, Unseen
<1>2. ASSUME NEW m \in MissedAnswers(ib, wt)
      PROVE  \E e \in Events, r \in Runs, c \in Conditions : Unseen(ib, wt, e, r, c)
  <2>1. m[1] \in Events /\ m[2] \in Runs /\ m[3] \in Conditions
    BY DEF MissedAnswers
  <2>2. Unseen(ib, wt, m[1], m[2], m[3])
    BY DEF MissedAnswers, Unseen
  <2> QED BY <2>1, <2>2
<1> QED BY <1>1, <1>2 DEF NoneMissed

\* Without an active wait nothing is missed.
LEMMA ClosedMissNothing ==
    ASSUME NEW ib, NEW wt, ~Opens(wt)
    PROVE  NoneMissed(ib, wt)
  BY DEF NoneMissed, Unseen, Opens, ActiveWait

\* No wait becomes active and no entry becomes a candidate.
LEMMA FewerCandidates ==
    ASSUME NEW ib, NEW wt, NEW ib2, NEW wt2, NoneMissed(ib, wt),
           \A r \in Runs, c \in Conditions : wt2[r][c] = "active" => wt[r][c] = "active",
           \A e \in Events : ib2[e] = ib[e] \/ ib2[e].status \notin {"pending", "stored"}
    PROVE  NoneMissed(ib2, wt2)
  BY DEF NoneMissed, Unseen

\* The scan of a waiting agent resolves its waits or turns every candidate away; no scan adds one.
LEMMA ScanSees ==
    ASSUME NEW st, NEW n, NEW rn, NEW ib \in Inboxes, NEW wt \in WaitTables, NEW ib2, NEW wt2,
           Scanned(st, ib, wt, ib2, wt2), Resuming(st, n, rn, ib, wt),
           st = "waiting" \/ NoneMissed(ib, wt)
    PROVE  NoneMissed(ib2, wt2)
<1>1. CASE st # "waiting"
  <2>1. wt2 = wt /\ \A e \in EventIds : EntryKept(ib, ib2, e)
    BY <1>1, ScanMeans
  <2>2. \A e \in Events : ib2[e] = ib[e] \/ ib2[e].status \notin {"pending", "stored"}
    BY <2>1, ConstantFacts DEF EntryKept
  <2> QED BY <1>1, <2>1, <2>2, FewerCandidates
<1>2. CASE st = "waiting"
  <2> DEFINE kept == RetireInbox(ib)
             found == MissedAnswers(kept, wt)
  <2>1. PICK refused \in SUBSET {a[1] : a \in found}, m \in found \cup {NoMatch} :
           /\ ScanResult(kept, found, refused, m)
           /\ ib2 = InboxAfterScan(kept, refused, m)
           /\ wt2 = WaitsAfterScan(wt, m)
    BY <1>2 DEF Scanned, ScanCandidates
  <2>2. CASE m = NoMatch
    <3>1. wt2 = wt
      BY <2>1, <2>2 DEF WaitsAfterScan
    <3>2. \A a \in found : a[1] \in refused
      BY <2>1, <2>2 DEF ScanResult
    <3>3. \A e \in Events : (e \in refused /\ ib2[e].status = "refused")
                            \/ (e \notin refused /\ ib2[e] = kept[e])
      <4> SUFFICES ASSUME NEW e \in Events
                   PROVE  (e \in refused /\ ib2[e].status = "refused")
                          \/ (e \notin refused /\ ib2[e] = kept[e])
        OBVIOUS
      <4>1. e \in EventIds /\ kept \in Inboxes
        BY ConstantFacts, RetireInboxType DEF Inboxes
      <4>2. kept[e] \in InboxRows
        BY <4>1 DEF Inboxes
      <4> HIDE DEF kept, found
      <4>3. [kept[e] EXCEPT !.status = "refused"].status = "refused"
        BY <4>2 DEF InboxRows
      <4> QED BY <2>1, <2>2, <4>1, <4>3 DEF InboxAfterScan
    <3> HIDE DEF kept
    <3>4. ASSUME NEW e \in Events, NEW r \in Runs, NEW c \in Conditions,
                 Unseen(ib2, wt, e, r, c)
          PROVE  FALSE
      <4>1. e \notin refused /\ ib2[e] = kept[e]
        BY <3>3, <3>4 DEF Unseen
      <4>2. Unseen(kept, wt, e, r, c)
        BY <3>4, <4>1 DEF Unseen
      <4>3. <<e, r, c>> \in found
        BY <4>2, MissedMeans
      <4>4. <<e, r, c>>[1] \in refused
        BY <3>2, <4>3
      <4> QED BY <4>1, <4>4
    <3> QED BY <3>1, <3>4 DEF NoneMissed
  <2>3. CASE m # NoMatch
    <3>1. m \in found /\ wt2 = ResolveWait(wt, m[2], m[3], "matched")
      BY <2>1, <2>3 DEF WaitsAfterScan
    <3>2. m[2] \in Runs /\ m[3] \in Conditions /\ ActiveWait(wt[m[2]][m[3]])
      BY <3>1 DEF MissedAnswers, ActiveWait
    <3>3. "matched" \in Settling
      BY DEF Settling
    <3>4. ~Opens(wt2)
      BY <3>1, <3>2, <3>3, ResolveMeans DEF Resuming, Records
    <3> QED BY <3>4, ClosedMissNothing
  <2> QED BY <2>2, <2>3
<1> QED BY <1>1, <1>2

\* A call of the scheduler leaves the state, or starts a run, which the kill switch prevents.
LEMMA ScheduleStates ==
    ASSUME NEW st, NEW rn, NEW ib \in Inboxes, NEW wt \in WaitTables, NEW redrive,
           ScheduleAgent(st, rn, ib, wt, redrive)
    PROVE  state' = st \/ (state' = "queued" /\ ~killSwitch)
<1>1. ASSUME NEW ib2, NEW wt2, Skip(st, rn, ib2, wt2) PROVE state' = st
  BY <1>1 DEF Skip, SetRows
<1>2. ASSUME NEW ib2, NEW wt2, NEW t, NEW others, StartRun(st, rn, ib2, wt2, t, others, redrive)
      PROVE  state' = "queued"
  <2>1. ScheduleTransition(st, redrive) \in {"schedule", "wait_resolved", "redrive", "none"}
    BY DEF ScheduleTransition
  <2>2. state' \in NextAgentState(st, ScheduleTransition(st, redrive))
    BY <1>2 DEF StartRun, SetRows
  <2> QED BY <2>1, <2>2, TransitionFacts
<1> QED BY <1>1, <1>2, ScheduleMeans

\* What a call of the scheduler leaves unseen: nothing, if the agent waits and the scan takes
\* place, or if nothing was.
LEMMA ScheduleSees ==
    ASSUME Holds \cap {"lifecycle", "unresolved"} = {},
           NEW st, NEW rn, NEW ib \in Inboxes, NEW wt \in WaitTables, NEW redrive,
           Resuming(st, nRuns, rn, ib, wt), ScheduleAgent(st, rn, ib, wt, redrive),
           NoneMissed(ib, wt) \/ (st = "waiting" /\ ~killSwitch)
    PROVE  NoneMissed(inbox', waits')
<1>1. ASSUME NEW ib2, NEW wt2, NoneMissed(ib2, wt2), Skip(st, rn, ib2, wt2)
      PROVE  NoneMissed(inbox', waits')
  BY <1>1 DEF Skip, SetRows
<1>2. ASSUME NEW ib2 \in Inboxes, NEW wt2 \in WaitTables, Scanned(st, ib, wt, ib2, wt2)
      PROVE  NoneMissed(ib2, wt2)
  BY <1>2, ScanSees
<1>3. ASSUME NEW ib2 \in Inboxes, NEW wt2 \in WaitTables, NoneMissed(ib2, wt2),
             NEW t \in Triggers(st, rn, ib2, redrive), NEW others \in Coalesced(ib2, t),
             StartRun(st, rn, ib2, wt2, t, others, redrive)
      PROVE  NoneMissed(inbox', waits')
  <2>1. waits' = wt2
    BY <1>3 DEF StartRun, SetRows
  <2>2. \A e \in EventIds : inbox'[e] = ib2[e] \/ inbox'[e].status = "claimed"
    BY <1>3, StartEntries
  <2>3. \A e \in Events : inbox'[e] = ib2[e] \/ inbox'[e].status \notin {"pending", "stored"}
    BY <2>2, ConstantFacts
  <2> QED BY <1>3, <2>1, <2>3, FewerCandidates
<1>4. ASSUME NEW hold \in Holds, SkipsEarly(hold, st, redrive) PROVE NoneMissed(ib, wt)
  BY <1>4 DEF SkipsEarly, ScheduleTransition
<1> QED BY <1>1, <1>2, <1>3, <1>4, ScheduleMeans

\* Who moves the kill switch; a post that is gone stays so.
LEMMA KillAndGone ==
    ASSUME [Next]_vars
    PROVE  /\ killSwitch' = killSwitch \/ KillAll \/ ReleaseKillSwitch
           /\ gone \subseteq gone'
<1>1. CASE \/ \E e \in Events : IngestEvent(e) \/ RouteGrantedMention(e) \/ PostDeleted(e)
           \/ SweepSchedules \/ WakeScheduler
  BY <1>1 DEF IngestEvent, RouteGrantedMention, PostDeleted, SweepSchedules, WakeScheduler
<1>2. CASE \E r \in Runs, c \in Conditions : WaitStep(r, c)
  BY <1>2 DEF WaitStep, WaitFallsDue, HandleWaitTimeout, LoseWaitJob
<1>3. CASE \E r \in Runs : ApprovalResolved(r) \/ ExtendApprovalWait(r) \/ DeadlinePasses(r)
  BY <1>3 DEF ApprovalResolved, ExtendApprovalWait, DeadlinePasses
<1>4. CASE \E r \in Runs, a \in Attempts : WorkerStep(r, a) \/ JobFault(r, a)
  BY <1>4 DEF WorkerStep, JobFault, StartJob, SendResult, CompleteJob, WorkerCrash,
              ExpireJob, LoseJob, CancelJob
<1>5. CASE \E m \in reports : HandleRunReport(m) \/ DeadLetterReport(m)
  BY <1>5 DEF HandleRunReport, DeadLetterReport
<1>6. CASE \E t \in timers : HandleRunTimeout(t) \/ LoseTimer(t)
  BY <1>6 DEF HandleRunTimeout, LoseTimer
<1>7. CASE Reconcile
  BY <1>7 DEF Reconcile, ObserveRun, ProbeJob, ProbeReport, FailLostAttempt, ReconcileWaits
<1>8. CASE Operator
  BY <1>8 DEF Operator, PauseAgent, ResumeAgent, DisableAgent, EnableAgent, RedriveRun, KillAll,
              ReleaseKillSwitch, PauseInTransaction
<1>9. CASE UNCHANGED vars
  BY <1>9 DEF vars
<1> QED BY <1>1, <1>2, <1>3, <1>4, <1>5, <1>6, <1>7, <1>8, <1>9 DEF Next

\* The rows on which the scheduler is called: nothing is missed in them, or the agent is not
\* scanned yet, or it waits since its run ended or since a grant routed a stored post.
SeesStep(st, ib, wt) ==
    \/ NoneMissed(ib, wt)
    \/ "grant" \in Activities /\ st # "waiting"
    \/ st = "waiting" /\ (\/ state \in {"queued", "running"}
                          \/ "grant" \in Activities)

\* Such a call keeps Seen.
LEMMA CallSees ==
    ASSUME SeenInv, Holds \cap {"lifecycle", "unresolved"} = {},
           ~({"grant", "kill"} \subseteq Activities),
           NEW st, NEW rn, NEW ib \in Inboxes, NEW wt \in WaitTables, NEW redrive,
           Resuming(st, nRuns, rn, ib, wt), ScheduleAgent(st, rn, ib, wt, redrive),
           SeesStep(st, ib, wt)
    PROVE  Seen(state', inbox', waits')
<1>1. CASE NoneMissed(ib, wt) \/ (st = "waiting" /\ ~killSwitch)
  BY <1>1, ScheduleSees DEF Seen
<1>2. CASE "grant" \in Activities /\ st # "waiting"
  BY <1>2, ScheduleStates DEF Seen
<1>3. CASE st = "waiting" /\ killSwitch
  BY <1>1, <1>3 DEF SeesStep, SeenInv, KillHolds
<1> QED BY <1>1, <1>2, <1>3 DEF SeesStep

\* Ingest and granted mentions: a new post that answers an active wait ends it.
LEMMA EventSees ==
    ASSUME SeenInv, Holds \cap {"lifecycle", "unresolved"} = {},
           ~({"grant", "kill"} \subseteq Activities), NEW e \in Events,
           IngestEvent(e) \/ RouteGrantedMention(e) \/ PostDeleted(e)
    PROVE  Seen(state', inbox', waits')
<1> USE DEF SeenInv, ResumeInv
<1>0. RowsOK /\ e \in EventIds /\ inbox \in [EventIds -> InboxRows]
  BY RowsBefore, ConstantFacts DEF TypeOK
<1>1. ASSUME UNCHANGED <<state, waits>>,
             \A f \in Events : inbox'[f] = inbox[f] \/ inbox'[f].status \notin {"pending", "stored"}
      PROVE  Seen(state', inbox', waits')
  BY <1>1, FewerCandidates DEF Seen
<1>2. ASSUME NEW ib, NoneMissed(inbox, waits), MatchingWaits(e) = {},
             \A f \in Events \ {e} : ib[f] = inbox[f]
      PROVE  NoneMissed(ib, waits)
  <2>1. \A r \in Runs, c \in Conditions : ~(waits[r][c] = "active" /\ <<c, e>> \in Answers)
    <3> SUFFICES ASSUME NEW r \in Runs, NEW c \in Conditions, waits[r][c] = "active",
                        <<c, e>> \in Answers
                 PROVE  FALSE
      OBVIOUS
    <3>1. <<r, c>> \in MatchingWaits(e)
      BY DEF MatchingWaits
    <3> QED BY <1>2, <3>1
  <2> QED BY <1>2, <2>1 DEF NoneMissed, Unseen
<1>3. CASE IngestEvent(e) /\ IngestUnrouted(e)
  <2>1. UNCHANGED <<state, waits>>
    BY <1>3 DEF IngestUnrouted
  <2>2. PICK d \in {"stored", "refused"} :
          /\ d = "stored" => MatchingWaits(e) = {}
          /\ inbox' = [inbox EXCEPT ![e].status = d, ![e].at = nRuns]
    BY <1>3 DEF IngestUnrouted
  <2>3. inbox'[e] = [inbox[e] EXCEPT !.status = d, !.at = nRuns]
        /\ \A f \in EventIds \ {e} : inbox'[f] = inbox[f]
    BY <1>0, <2>2
  <2>4. inbox'[e].status = d
    BY <1>0, <2>3 DEF InboxRows
  <2>5. \A f \in Events \ {e} : inbox'[f] = inbox[f]
    BY <2>3, ConstantFacts
  <2>6. CASE d = "refused"
    BY <1>1, <2>1, <2>4, <2>5, <2>6
  <2>7. CASE d = "stored"
    <3>1. NoneMissed(inbox, waits) => NoneMissed(inbox', waits)
      BY <1>2, <2>2, <2>5, <2>7
    <3> QED BY <2>1, <3>1 DEF Seen
  <2> QED BY <2>6, <2>7
<1>4. ASSUME NEW w
      PROVE  /\ AddToInbox(e, w)[e].wait = w /\ AddToInbox(e, w)[e].status = "pending"
             /\ \A f \in EventIds \ {e} : AddToInbox(e, w)[f] = inbox[f]
  BY <1>0 DEF AddToInbox
<1>5. CASE IngestEvent(e) /\ IngestWake(e)
  <2>1. AddToInbox(e, None) \in Inboxes
    BY <1>0, InboxUpdateType, ConstantFacts
  <2>2. inbox[e].wait = None
    BY <1>0, <1>5 DEF IngestEvent, Resuming, Records, ResumptionsTrigger
  <2>3. Resuming(state, nRuns, run, AddToInbox(e, None), waits)
    BY <1>4, <2>2, PlainEntries
  <2>4. NoneMissed(inbox, waits) => NoneMissed(AddToInbox(e, None), waits)
    BY <1>2, <1>4, <1>5, ConstantFacts DEF IngestWake
  <2>5. SeesStep(state, AddToInbox(e, None), waits)
    BY <2>4 DEF SeesStep, Seen
  <2>6. ScheduleAgent(state, run, AddToInbox(e, None), waits, FALSE)
    BY <1>5 DEF IngestWake
  <2> QED BY <1>0, <2>1, <2>3, <2>5, <2>6, CallSees DEF RowsOK
<1>6. CASE IngestEvent(e) /\ IngestWaitMatch(e)
  <2>1. PICK w \in MatchingWaits(e) :
          ScheduleAgent(state, run, AddToInbox(e, w[1]),
                        ResolveWait(waits, w[1], w[2], "matched"), FALSE)
    BY <1>6 DEF IngestWaitMatch
  <2>2. w[1] \in Runs /\ w[2] \in Conditions /\ ActiveWait(waits[w[1]][w[2]])
    BY DEF MatchingWaits, ActiveWait
  <2>3. AddToInbox(e, w[1]) \in Inboxes
    BY <1>0, <2>2, InboxUpdateType, ConstantFacts
  <2>4. ResolveWait(waits, w[1], w[2], "matched") \in WaitTables
    BY <1>0, <2>2, ResolveWaitType DEF RowsOK, WaitStatuses
  <2>5. "matched" \in Settling
    BY DEF Settling
  <2>6. Resuming(state, nRuns, run, AddToInbox(e, w[1]), ResolveWait(waits, w[1], w[2], "matched"))
    BY <1>0, <1>4, <2>2, <2>5, AnswerResumes DEF RowsOK
  <2>7. ~Opens(ResolveWait(waits, w[1], w[2], "matched"))
    BY <1>0, <2>2, <2>5, ResolveMeans DEF RowsOK, Resuming, Records
  <2>8. SeesStep(state, AddToInbox(e, w[1]), ResolveWait(waits, w[1], w[2], "matched"))
    BY <2>7, ClosedMissNothing DEF SeesStep
  <2> QED BY <2>1, <2>3, <2>4, <2>6, <2>8, CallSees
<1>7. CASE RouteGrantedMention(e)
  <2>1. inbox[e].wait = None
    BY <1>0, <1>7 DEF RouteGrantedMention, Resuming, Records, ResumptionsTrigger
  <2>2. ASSUME NEW s
        PROVE  /\ [inbox EXCEPT ![e].status = s][e].status = s
               /\ [inbox EXCEPT ![e].status = s][e].wait = inbox[e].wait
               /\ \A f \in EventIds \ {e} : [inbox EXCEPT ![e].status = s][f] = inbox[f]
    BY <1>0 DEF InboxRows
  <2>3. CASE inbox' = [inbox EXCEPT ![e].status = "refused"] /\ UNCHANGED <<state, nRuns, run, waits>>
    <3>1. \A f \in Events : inbox'[f] = inbox[f] \/ inbox'[f].status \notin {"pending", "stored"}
      BY <2>2, <2>3, ConstantFacts
    <3> QED BY <1>1, <2>3, <3>1
  <2>4. CASE ScheduleAgent(state, run, [inbox EXCEPT ![e].status = "pending"], waits, FALSE)
    <3> DEFINE ib == [inbox EXCEPT ![e].status = "pending"]
    <3>1. ib \in Inboxes
      BY <1>0, InboxUpdateType DEF InboxStatuses
    <3>2. \A f \in EventIds : ib[f] = inbox[f] \/ (ib[f].wait = None /\ inbox[f].wait = None)
      BY <2>1, <2>2
    <3>3. ScheduleAgent(state, run, ib, waits, FALSE)
      BY <2>4
    <3> HIDE DEF ib
    <3>4. Resuming(state, nRuns, run, ib, waits)
      BY <3>2, PlainEntries
    <3>5. SeesStep(state, ib, waits)
      BY <1>7 DEF RouteGrantedMention, SeesStep
    <3> QED BY <1>0, <3>1, <3>3, <3>4, <3>5, CallSees DEF RowsOK
  <2> QED BY <1>7, <2>3, <2>4 DEF RouteGrantedMention
<1>8. CASE PostDeleted(e)
  BY <1>1, <1>8 DEF PostDeleted
<1> QED BY <1>3, <1>5, <1>6, <1>7, <1>8 DEF IngestEvent

\* Timeouts and approvals end the waits they are about.
LEMMA WaitSees ==
    ASSUME SeenInv, Holds \cap {"lifecycle", "unresolved"} = {},
           ~({"grant", "kill"} \subseteq Activities), NEW r \in Runs, NEW c \in Conditions,
           WaitStep(r, c) \/ ApprovalResolved(r) \/ ExtendApprovalWait(r)
    PROVE  Seen(state', inbox', waits')
<1> USE DEF SeenInv, ResumeInv
<1>0. RowsOK /\ r \in EventIds /\ Approval \in Conditions
  BY RowsBefore, ConstantFacts
<1>1. ASSUME UNCHANGED <<state, inbox, waits>>
      PROVE  Seen(state', inbox', waits')
  BY <1>1
<1>2. ASSUME NEW d \in Conditions, NEW how \in Settling, ActiveWait(waits[r][d]),
             ResolveInternally(r, d, how)
      PROVE  Seen(state', inbox', waits')
  <2>1. AddToInbox(r, r) \in Inboxes
    BY <1>0, InboxUpdateType, ConstantFacts
  <2>2. ResolveWait(waits, r, d, how) \in WaitTables
    BY <1>0, ResolveWaitType DEF RowsOK, WaitStatuses, Settling
  <2>3. /\ AddToInbox(r, r)[r].wait = r /\ AddToInbox(r, r)[r].status = "pending"
        /\ \A f \in EventIds \ {r} : AddToInbox(r, r)[f] = inbox[f]
    BY <1>0 DEF AddToInbox, RowsOK, Inboxes
  <2>4. Resuming(state, nRuns, run, AddToInbox(r, r), ResolveWait(waits, r, d, how))
    BY <1>0, <1>2, <2>3, AnswerResumes DEF RowsOK
  <2>5. ~Opens(ResolveWait(waits, r, d, how))
    BY <1>0, <1>2, ResolveMeans DEF RowsOK, Resuming, Records
  <2>6. SeesStep(state, AddToInbox(r, r), ResolveWait(waits, r, d, how))
    BY <2>5, ClosedMissNothing DEF SeesStep
  <2> QED BY <1>2, <2>1, <2>2, <2>4, <2>6, CallSees DEF ResolveInternally
<1>3. CASE WaitFallsDue(r, c)
  <2>1. /\ waits' = [waits EXCEPT ![r][c] = "due"]
        /\ UNCHANGED <<state, nRuns, run, inbox>>
    BY <1>3 DEF WaitFallsDue
  <2>2. \A q \in Runs, d \in Conditions : waits'[q][d] = "active" => waits[q][d] = "active"
    BY <2>1 DEF TypeOK
  <2>3. NoneMissed(inbox, waits) => NoneMissed(inbox, waits')
    BY <2>2, FewerCandidates
  <2> QED BY <2>1, <2>3 DEF Seen
<1>4. CASE HandleWaitTimeout(r, c)
  <2>1. CASE waits[r][c] = "due"
    BY <1>2, <1>4, <2>1 DEF HandleWaitTimeout, Settling, ActiveWait
  <2>2. CASE waits[r][c] # "due"
    BY <1>1, <1>4, <2>2 DEF HandleWaitTimeout
  <2> QED BY <2>1, <2>2
<1>5. CASE LoseWaitJob(<<r, c>>) \/ ExtendApprovalWait(r)
  BY <1>1, <1>5 DEF LoseWaitJob, ExtendApprovalWait
<1>6. CASE ApprovalResolved(r)
  BY <1>0, <1>2, <1>6 DEF ApprovalResolved, Settling
<1> QED BY <1>3, <1>4, <1>5, <1>6 DEF WaitStep

\* An agent that neither waits nor is paused has no open wait.
LEMMA FreeSees ==
    ASSUME Resuming(state', nRuns', run', inbox', waits'), state' \notin {"waiting", "paused"}
    PROVE  Seen(state', inbox', waits')
<1>1. ~Opens(waits')
  BY DEF Resuming, OpenMeansFree
<1> QED BY <1>1, ClosedMissNothing DEF Seen

\* A report: the waits that the end of a run opens are scanned for in the same transaction.
LEMMA ReportSees ==
    ASSUME SeenInv, Holds \cap {"lifecycle", "unresolved"} = {},
           ~({"grant", "kill"} \subseteq Activities), NEW m \in reports, HandleRunReport(m)
    PROVE  Seen(state', inbox', waits')
<1> USE DEF SeenInv, ResumeInv
<1> DEFINE r == m[1]
           a == m[2]
<1>1. r \in Runs
  BY DEF TypeOK
<1>0. Resuming(state', nRuns', run', inbox', waits')
  BY ReportResumes
<1> HIDE DEF r, a
<1>2. CASE UNCHANGED dbVars
  BY <1>2 DEF dbVars
<1>3. CASE ~Stale(r, a)
  <2>1. InProgress(run[r])
    BY <1>3 DEF Stale
  <2>2. state \in {"queued", "running"}
    BY <1>1, <2>1, BusyRun DEF InProgress
  <2>3. CASE ApplyStarted(r)
    <3>1. state' \in {"queued", "running"}
      BY <2>2, <2>3 DEF ApplyStarted
    <3> QED BY <1>0, <3>1, FreeSees
  <2>4. CASE \E retryable \in BOOLEAN : ApplyFailure(r, retryable, timers)
    <3>1. state' \in {"queued", "idle", "failed"}
      BY <2>4, TransitionFacts DEF ApplyFailure, RetryAttempt, DeferForBudget, FailRun
    <3> QED BY <1>0, <3>1, FreeSees
  <2>5. ASSUME NEW status, NEW transition, NEW ws \in SUBSET Conditions,
               \/ status = "succeeded" /\ transition = "complete_idle" /\ ws = {}
               \/ status = "succeeded" /\ transition = "complete_waiting" /\ ws # {}
               \/ status = "failed" /\ transition = "fail" /\ ws = {},
               CompleteRun(r, a, status, transition, ws)
        PROVE  Seen(state', inbox', waits')
    <3>1. PICK st \in {"idle", "waiting", "failed"} :
             \E rn \in RunTables, ib \in Inboxes, wt \in WaitTables :
               Resuming(st, nRuns, rn, ib, wt) /\ ScheduleAgent(st, rn, ib, wt, FALSE)
      BY <1>1, <2>1, <2>5, CompleteCalls
    <3>2. PICK rn \in RunTables, ib \in Inboxes, wt \in WaitTables :
             Resuming(st, nRuns, rn, ib, wt) /\ ScheduleAgent(st, rn, ib, wt, FALSE)
      BY <3>1
    <3>3. st # "waiting" => ~Opens(wt)
      BY <3>1, <3>2 DEF Resuming, OpenMeansFree
    <3>4. SeesStep(st, ib, wt)
      BY <2>2, <3>3, ClosedMissNothing DEF SeesStep
    <3> QED BY <3>2, <3>4, CallSees
  <2>6. CASE ApplyCompletion(r, a)
    <3>1. CASE \E ws \in SUBSET Conditions :
                 ws # {} /\ CompleteRun(r, a, "succeeded", "complete_waiting", ws)
      BY <2>5, <3>1
    <3>2. CASE CompleteRun(r, a, "succeeded", "complete_idle", {})
      BY <2>5, <3>2
    <3>3. CASE CompleteRun(r, a, "failed", "fail", {})
      BY <2>5, <3>3
    <3>4. CASE RefuseResult(r, a)
      BY <2>4, <3>4 DEF RefuseResult
    <3> QED BY <2>6, <3>1, <3>2, <3>3, <3>4, ConstantFacts DEF ApplyCompletion
  <2> QED BY <1>3, <2>3, <2>4, <2>6 DEF HandleRunReport, r, a
<1> QED BY <1>2, <1>3 DEF HandleRunReport, r, a

\* The operator: a pause returns entries only of a run in progress, when no wait is open.
LEMMA OperatorSees ==
    ASSUME SeenInv, Holds \cap {"lifecycle", "unresolved"} = {},
           ~({"grant", "kill"} \subseteq Activities), Operator,
           Resuming(state', nRuns', run', inbox', waits')
    PROVE  Seen(state', inbox', waits')
<1> USE DEF SeenInv, ResumeInv
<1>0. RowsOK
  BY RowsBefore
<1>1. CASE PauseAgent \/ KillAll
  <2>1. PauseInTransaction /\ waits' = waits
    BY <1>1 DEF PauseAgent, KillAll, PauseInTransaction
  <2>2. CASE state \in {"paused", "disabled", "failed"}
    BY <2>1, <2>2 DEF PauseInTransaction
  <2>3. CASE state \notin {"paused", "disabled", "failed"}
    <3> DEFINE rs == {r \in Runs : InProgress(run[r])}
    <3>1. state' = "paused" /\ inbox' = ReturnInbox(rs, {"claimed"})
      BY <2>1, <2>3, TransitionFacts DEF PauseInTransaction
    <3>2. CASE rs = {}
      <4>1. \A e \in Events : inbox'[e] = inbox[e]
        BY <3>1, <3>2, ConstantFacts DEF ReturnInbox
      <4>2. NoneMissed(inbox, waits) => NoneMissed(inbox', waits)
        BY <4>1, FewerCandidates
      <4> QED BY <2>1, <3>1, <4>2 DEF Seen
    <3>3. CASE rs # {}
      <4>1. state \in {"queued", "running"}
        BY <3>3, BusyRun DEF InProgress
      <4>2. ~Opens(waits')
        BY <2>1, <4>1, NothingOpen
      <4> QED BY <4>2, ClosedMissNothing DEF Seen
    <3> QED BY <3>2, <3>3
  <2> QED BY <2>2, <2>3
<1>2. CASE ResumeAgent
  <2>1. PICK next : /\ next = IF Opens(waits) THEN "waiting" ELSE "idle"
                    /\ ScheduleAgent(next, run, inbox, waits, FALSE)
    BY <1>2, TransitionFacts DEF ResumeAgent, Opens
  <2>2. Resuming(next, nRuns, run, inbox, waits)
    <3>1. state = "paused"
      BY <1>2 DEF ResumeAgent
    <3> QED BY <2>1, <3>1 DEF Resuming, OpenMeansFree
  <2>3. SeesStep(next, inbox, waits)
    BY DEF SeesStep, Seen
  <2> QED BY <1>0, <2>1, <2>2, <2>3, CallSees DEF RowsOK
<1>3. CASE DisableAgent
  <2>1. state' = "disabled"
    BY <1>3, TransitionFacts DEF DisableAgent
  <2> QED BY <2>1, FreeSees
<1>4. CASE EnableAgent
  <2>1. PICK next \in {"idle", "failed"} : ScheduleAgent(next, run, inbox, waits, FALSE)
    BY <1>4, TransitionFacts DEF EnableAgent, EnableTransition
  <2>2. state' \in {"idle", "failed", "queued"}
    BY <1>0, <2>1, ScheduleStates DEF RowsOK
  <2> QED BY <2>2, FreeSees
<1>5. CASE RedriveRun
  <2>1. ReturnInbox({nRuns}, {"claimed", "consumed"}) \in Inboxes
    BY InboxUpdateType
  <2>2. ScheduleAgent("failed", run, ReturnInbox({nRuns}, {"claimed", "consumed"}), waits, TRUE)
    BY <1>5 DEF RedriveRun
  <2>3. state' \in {"failed", "queued"}
    BY <1>0, <2>1, <2>2, ScheduleStates DEF RowsOK
  <2> QED BY <2>3, FreeSees
<1>6. CASE ReleaseKillSwitch
  BY <1>6 DEF ReleaseKillSwitch, dbVars
<1> QED BY <1>1, <1>2, <1>3, <1>4, <1>5, <1>6 DEF Operator

\* Every step keeps Seen, of the posts that are not gone yet.
LEMMA SeenStep ==
    ASSUME SeenInv, Holds \cap {"lifecycle", "unresolved"} = {},
           ~({"grant", "kill"} \subseteq Activities), [Next]_vars
    PROVE  Seen(state', inbox', waits')
<1> USE DEF SeenInv
<1>0. ResumeInv' /\ RowsOK /\ TypeOK
  BY ResumeStep, RowsBefore DEF ResumeInv
<1>00. Resuming(state', nRuns', run', inbox', waits')
  BY <1>0 DEF ResumeInv
<1>1. CASE UNCHANGED <<state, inbox, waits>>
  BY <1>1
<1>2. CASE \E e \in Events : IngestEvent(e) \/ RouteGrantedMention(e) \/ PostDeleted(e)
  BY <1>2, EventSees
<1>3. CASE SweepSchedules \/ WakeScheduler
  <2>1. ScheduleAgent(state, run, inbox, waits, FALSE)
    BY <1>3 DEF SweepSchedules, WakeScheduler
  <2>2. SeesStep(state, inbox, waits)
    BY DEF SeesStep, Seen
  <2> QED BY <1>0, <2>1, <2>2, CallSees DEF RowsOK, ResumeInv
<1>4. CASE \/ \E r \in Runs, c \in Conditions : WaitStep(r, c)
           \/ \E r \in Runs : ApprovalResolved(r) \/ ExtendApprovalWait(r)
  BY <1>4, WaitSees, ConstantFacts
<1>5. CASE \E r \in Runs, a \in Attempts : WorkerStep(r, a) \/ JobFault(r, a)
  <2>1. UNCHANGED dbVars
    BY <1>0, <1>5, JobStepFacts DEF JobStep
  <2> QED BY <1>1, <2>1 DEF dbVars
<1>6. CASE \E m \in reports : HandleRunReport(m) \/ DeadLetterReport(m)
  BY <1>1, <1>6, ReportSees DEF DeadLetterReport, dbVars
<1>7. CASE \E r \in Runs : DeadlinePasses(r)
  BY <1>1, <1>7 DEF DeadlinePasses
<1>8. ASSUME NEW r, NEW retryable, NEW tm, ApplyFailure(r, retryable, tm)
      PROVE  Seen(state', inbox', waits')
  <2>1. state' \in {"queued", "idle", "failed"}
    BY <1>8, TransitionFacts DEF ApplyFailure, RetryAttempt, DeferForBudget, FailRun
  <2> QED BY <1>00, <2>1, FreeSees
<1>9. CASE \E t \in timers : HandleRunTimeout(t) \/ LoseTimer(t)
  BY <1>1, <1>8, <1>9 DEF HandleRunTimeout, LoseTimer, dbVars
<1>10. CASE Reconcile
  BY <1>1, <1>8, <1>10 DEF Reconcile, ObserveRun, ProbeJob, ProbeReport, FailLostAttempt,
                           ReconcileWaits, dbVars
<1>11. CASE Operator
  BY <1>00, <1>11, OperatorSees
<1>12. CASE UNCHANGED vars
  BY <1>1, <1>12 DEF vars
<1> QED BY <1>2, <1>3, <1>4, <1>5, <1>6, <1>7, <1>9, <1>10, <1>11, <1>12 DEF Next

\* No run starts under the kill switch, and engaging it ends the run in progress.
LEMMA KillStep ==
    ASSUME ResumeInv, KillHolds, [Next]_vars
    PROVE  KillHolds'
<1> USE DEF ResumeInv
<1>0. RowsOK
  BY RowsBefore
<1>1. "kill" \notin Activities => ~killSwitch'
  BY KillAndGone DEF KillHolds, KillAll, ReleaseKillSwitch
<1>2. SUFFICES ASSUME killSwitch' PROVE state' \notin {"queued", "running"}
  BY <1>1 DEF KillHolds
<1>3. CASE KillAll
  BY <1>3, TransitionFacts DEF KillAll, PauseInTransaction
<1>4. CASE ReleaseKillSwitch
  BY <1>2, <1>4 DEF ReleaseKillSwitch
<1>5. CASE killSwitch' = killSwitch
  <2>1. killSwitch /\ state \notin {"queued", "running"}
    BY <1>2, <1>5 DEF KillHolds
  <2>2. \A r \in Runs : ~InProgress(run[r])
    BY <2>1, BusyRun DEF InProgress
  <2>3. CASE state' = state
    BY <2>1, <2>3
  <2>4. ASSUME NEW st, st \notin {"queued", "running"}, NEW redrive, NEW ib \in Inboxes,
               NEW wt \in WaitTables, ScheduleAgent(st, run, ib, wt, redrive)
        PROVE  state' \notin {"queued", "running"}
    BY <2>1, <2>4, ScheduleStates
  <2>5. ASSUME NEW r \in Runs, NEW c \in Conditions, NEW how \in {"matched", "timed_out"},
               ResolveInternally(r, c, how)
        PROVE  state' \notin {"queued", "running"}
    <3>1. AddToInbox(r, r) \in Inboxes
      BY InboxUpdateType, ConstantFacts
    <3>2. ResolveWait(waits, r, c, how) \in WaitTables
      BY <1>0, ResolveWaitType DEF RowsOK, WaitStatuses
    <3> QED BY <2>1, <2>4, <2>5, <3>1, <3>2 DEF ResolveInternally
  <2>6. ASSUME NEW e \in Events, IngestEvent(e) \/ RouteGrantedMention(e) \/ PostDeleted(e)
        PROVE  state' \notin {"queued", "running"}
    <3>1. CASE IngestWake(e)
      <4>1. AddToInbox(e, None) \in Inboxes
        BY InboxUpdateType, ConstantFacts
      <4> QED BY <1>0, <2>1, <2>4, <3>1, <4>1 DEF IngestWake, RowsOK
    <3>2. CASE IngestWaitMatch(e)
      <4>1. PICK w \in MatchingWaits(e) :
              ScheduleAgent(state, run, AddToInbox(e, w[1]),
                            ResolveWait(waits, w[1], w[2], "matched"), FALSE)
        BY <3>2 DEF IngestWaitMatch
      <4>2. w[1] \in Runs /\ w[2] \in Conditions
        BY DEF MatchingWaits
      <4>3. AddToInbox(e, w[1]) \in Inboxes
        BY <4>2, InboxUpdateType, ConstantFacts
      <4>4. ResolveWait(waits, w[1], w[2], "matched") \in WaitTables
        BY <1>0, <4>2, ResolveWaitType DEF RowsOK, WaitStatuses
      <4> QED BY <2>1, <2>4, <4>1, <4>3, <4>4
    <3>3. CASE RouteGrantedMention(e)
      <4>1. [inbox EXCEPT ![e].status = "pending"] \in Inboxes
        BY InboxUpdateType, ConstantFacts DEF InboxStatuses
      <4> QED BY <1>0, <2>1, <2>3, <2>4, <3>3, <4>1 DEF RouteGrantedMention, RowsOK
    <3>4. CASE IngestUnrouted(e) \/ PostDeleted(e)
      BY <2>3, <3>4 DEF IngestUnrouted, PostDeleted
    <3> QED BY <2>6, <3>1, <3>2, <3>3, <3>4 DEF IngestEvent
  <2>7. CASE SweepSchedules \/ WakeScheduler
    BY <1>0, <2>1, <2>4, <2>7 DEF SweepSchedules, WakeScheduler, RowsOK
  <2>8. ASSUME NEW r \in Runs, NEW c \in Conditions, WaitStep(r, c)
        PROVE  state' \notin {"queued", "running"}
    BY <2>3, <2>5, <2>8 DEF WaitStep, WaitFallsDue, HandleWaitTimeout, LoseWaitJob
  <2>9. ASSUME NEW r \in Runs, ApprovalResolved(r) \/ ExtendApprovalWait(r) \/ DeadlinePasses(r)
        PROVE  state' \notin {"queued", "running"}
    BY <2>3, <2>5, <2>9, ConstantFacts DEF ApprovalResolved, ExtendApprovalWait, DeadlinePasses
  <2>10. CASE \E r \in Runs, a \in Attempts : WorkerStep(r, a) \/ JobFault(r, a)
    BY <2>3, <2>10, JobStepFacts DEF JobStep, dbVars
  <2>11. CASE \E m \in reports : HandleRunReport(m) \/ DeadLetterReport(m)
    <3>1. \A m \in reports : Stale(m[1], m[2])
      BY <2>2 DEF Stale, TypeOK
    <3> QED BY <2>3, <2>11, <3>1 DEF HandleRunReport, DeadLetterReport, dbVars
  <2>12. CASE \E t \in timers : HandleRunTimeout(t) \/ LoseTimer(t)
    <3>1. \A t \in timers : Stale(t[1], t[2])
      BY <2>2 DEF Stale, TypeOK
    <3> QED BY <2>3, <2>12, <3>1 DEF HandleRunTimeout, LoseTimer, dbVars
  <2>13. CASE Reconcile
    <3>1. CASE FailLostAttempt
      <4>1. probe.run \in Runs /\ probe.status \in {"queued", "running"}
        BY <3>1 DEF FailLostAttempt, TypeOK, Probes, NoProbe
      <4>2. run[probe.run].status # probe.status
        BY <2>2, <4>1 DEF InProgress
      <4> QED BY <2>3, <3>1, <4>2 DEF FailLostAttempt, dbVars
    <3> QED BY <2>3, <2>13, <3>1
            DEF Reconcile, ObserveRun, ProbeJob, ProbeReport, ReconcileWaits, dbVars
  <2>14. CASE ResumeAgent \/ EnableAgent
    <3>1. PICK next \in {"idle", "waiting", "failed"} : ScheduleAgent(next, run, inbox, waits, FALSE)
      BY <2>14, TransitionFacts DEF ResumeAgent, EnableAgent, EnableTransition
    <3> QED BY <1>0, <2>4, <3>1 DEF RowsOK
  <2>15. CASE RedriveRun
    <3>1. ReturnInbox({nRuns}, {"claimed", "consumed"}) \in Inboxes
      BY InboxUpdateType
    <3> QED BY <1>0, <2>1, <2>4, <2>15, <3>1 DEF RedriveRun, RowsOK
  <2>16. CASE PauseAgent \/ DisableAgent
    BY <2>1, <2>16, TransitionFacts DEF PauseAgent, PauseInTransaction, DisableAgent
  <2>17. CASE UNCHANGED vars
    BY <2>3, <2>17 DEF vars
  <2> QED BY <1>3, <1>4, <2>6, <2>7, <2>8, <2>9, <2>10, <2>11, <2>12, <2>13, <2>14, <2>15, <2>16,
             <2>17 DEF Next, Operator
<1> QED BY <1>3, <1>4, <1>5, KillAndGone

\* Where no hold stops the scheduler before its scan, a waiting agent has no event, stored or
\* pending, that answers one of its waits, however posts, completions and grants interleave.
\* The kill switch and granted mentions are excluded together: see the README.
THEOREM NoAnswerIsMissed ==
    ASSUME Holds \cap {"lifecycle", "unresolved"} = {}, ~({"grant", "kill"} \subseteq Activities)
    PROVE  Spec => []MissedAnswersAreSeen
<1>1. Init => SeenInv
  <2> SUFFICES ASSUME Init PROVE SeenInv
    OBVIOUS
  <2>1. ResumeInv
    BY ResumeInit
  <2>2. ~Opens(waits) /\ KillHolds
    BY DEF Init, Opens, ActiveWait, KillHolds
  <2> QED BY <2>1, <2>2, ClosedMissNothing DEF SeenInv, Seen
<1>2. SeenInv /\ [Next]_vars => SeenInv'
  <2> SUFFICES ASSUME SeenInv, [Next]_vars PROVE SeenInv'
    OBVIOUS
  <2>1. ResumeInv' /\ KillHolds'
    BY ResumeStep, KillStep DEF SeenInv
  <2>2. Seen(state', inbox', waits')
    BY SeenStep
  <2>3. NoneMissed(inbox', waits') => NoneMissed(inbox, waits)'
    BY KillAndGone DEF NoneMissed, Unseen
  <2>4. Seen(state, inbox, waits)'
    BY <2>2, <2>3 DEF Seen
  <2> QED BY <2>1, <2>4 DEF SeenInv
<1>3. SeenInv => MissedAnswersAreSeen
  BY MissedMeans DEF SeenInv, Seen, MissedAnswersAreSeen
<1> QED BY <1>1, <1>2, <1>3, PTL DEF Spec
=============================================================================
