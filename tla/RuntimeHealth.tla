--------------------------- MODULE RuntimeHealth ---------------------------
(***************************************************************************)
(* Availability of one runtime adapter (core services/runtime-health.ts    *)
(* and the health check of apps/worker): workers probe their runtime and   *)
(* send heartbeats through a queue that delays and reorders them, and the  *)
(* controller settles a change of availability, with one alert, only once  *)
(* it has lasted.  Time is counted in heartbeat intervals, and every       *)
(* timestamp is kept as its age, up to the age at which it stops to matter.*)
(***************************************************************************)
EXTENDS Integers, FiniteSets, FiniteSetsExt

CONSTANTS
    Processes,    \* worker processes, each with the id it drew when it started
    Stale,        \* WORKER_STALE_MS
    Stable,       \* RUNTIME_STABLE_MS
    SweepEvery,   \* the controller's reconciliation interval
    Keep,         \* WORKER_RETENTION_MS
    MaxBacklog,   \* bound: heartbeats not yet applied
    MaxChecks     \* bound: reports sent before a check, all workers together

ASSUME HealthAssumption ==
    /\ {Stale, Stable, SweepEvery} \subseteq Nat \ {0}
    /\ {Keep, MaxBacklog, MaxChecks} \subseteq Nat /\ Keep > Stale

VARIABLES
    process,        \* runtime workers: reports sent, whether a check is due, jobs are taken
    heartbeats,     \* worker_status reports in the adapter's report queue
    workerRow,      \* runtime_workers
    availability,   \* runtime_availability of the adapter
    inUse,          \* enabled agents use the adapter
    sweptAge,       \* since the controller swept
    outageAge,      \* since a worker last said that it takes jobs, or nobody used the adapter
    agreedAge,      \* since health was last found to be what is settled
    idled           \* nobody used the adapter while a change was pending

healthVars == <<process, heartbeats, workerRow, availability, inUse, sweptAge, outageAge,
                agreedAge, idled>>

Never == -1
NoRow == [status |-> "none", sequence |-> Never, seen |-> Never]

\* Long enough for an outage to be settled: the last heartbeat turns stale, a sweep sees it, the
\* change lasts, and another sweep settles it.
OutageBound == Stale + Stable + 2 * SweepEvery

HealthTypeOK ==
    /\ inUse \in BOOLEAN /\ sweptAge \in 0..SweepEvery
    /\ outageAge \in 0..OutageBound + 1 /\ agreedAge \in 0..Stable /\ idled \in BOOLEAN
    /\ process \in [Processes -> [pc : {"off", "up", "gone"}, sent : Nat, due : BOOLEAN,
                                taking : BOOLEAN]]
    /\ \A b \in heartbeats : /\ b.worker \in Processes /\ b.sequence \in Nat
                             /\ b.age \in 0..Stale + 1
                             /\ b.status \in {"ready", "unavailable", "stopped"}
    /\ workerRow \in [Processes -> [status : {"none", "ready", "unavailable", "stopped"},
                                    sequence : Nat \union {Never}, seen : Never..Keep + 1]]
    /\ availability \in [known : BOOLEAN, available : BOOLEAN, pending : Never..Stable]

-----------------------------------------------------------------------------
(* A worker. *)

\* report: the next of the worker's sequence, dated by the queue.
Heartbeat(w, sequence, status) ==
    [worker |-> w, sequence |-> sequence, status |-> status, age |-> 0]

SendHeartbeats(reports) ==
    /\ heartbeats' = heartbeats \union reports
    /\ Cardinality(heartbeats') <= MaxBacklog

\* check, on every tick of the timer.  A worker that takes jobs says so before it probes again;
\* then it takes jobs or stops taking them, and reports.
CheckRuntime(w, again, ok) ==
    LET first == process[w].sent
        status == IF ok THEN "ready" ELSE "unavailable"
    IN /\ process[w].pc \in {"off", "up"} /\ process[w].due
       /\ MapThenSumSet(LAMBDA v : process[v].sent, Processes) < MaxChecks
       /\ IF process[w].taking THEN ~again => ok ELSE ~again
       /\ process' = [process EXCEPT ![w] = [pc |-> "up", due |-> FALSE, taking |-> ok,
                                            sent |-> IF again THEN first + 2 ELSE first + 1]]
       /\ outageAge' = IF ok \/ again THEN 0 ELSE outageAge
       /\ SendHeartbeats(IF again THEN {Heartbeat(w, first, "ready"),
                                        Heartbeat(w, first + 1, status)}
                         ELSE {Heartbeat(w, first, status)})
       /\ UNCHANGED <<workerRow, availability, inUse, sweptAge, agreedAge, idled>>

\* stop: the last report says so.
LeaveWorker(w) ==
    /\ process[w].pc = "up"
    /\ process' = [process EXCEPT ![w].pc = "gone"]
    /\ SendHeartbeats({Heartbeat(w, process[w].sent, "stopped")})
    /\ UNCHANGED <<workerRow, availability, inUse, sweptAge, outageAge, agreedAge, idled>>

\* The process dies, or can no longer reach the queue.
WorkerVanishes(w) ==
    /\ process[w].pc = "up"
    /\ process' = [process EXCEPT ![w].pc = "gone"]
    /\ UNCHANGED <<heartbeats, workerRow, availability, inUse, sweptAge, outageAge, agreedAge,
                   idled>>

-----------------------------------------------------------------------------
(* The controller. *)

\* freshWorkers, healthOf: some worker heard of lately is ready.
Healthy(rows) == \E w \in Processes : rows[w].status = "ready" /\ rows[w].seen < Stale

\* Mutant: a change that ended is not forgotten.
ConfirmedStillPending(a) == a

\* settleAvailability, when health is what is settled: what was pending is forgotten.
Confirmed(a) == [a EXCEPT !.pending = Never]

\* settleAvailability: the new row, given what health is found now.
SettledRow(a, healthy) ==
    IF a.available = healthy THEN Confirmed(a)
    ELSE IF a.pending = Never THEN [a EXCEPT !.pending = 0]
    ELSE IF a.pending < Stable THEN a
    ELSE [a EXCEPT !.available = healthy, !.pending = Never]

\* settleAvailability, under the adapter's lock: nothing for an adapter without enabled agents,
\* and one seen for the first time counts as available.
SettleAvailability(rows) ==
    LET row == SettledRow([availability EXCEPT !.known = TRUE], Healthy(rows))
    IN /\ availability' = IF inUse THEN row ELSE availability
       /\ agreedAge' = IF Healthy(rows) \in {availability.available, availability'.available}
                       THEN 0 ELSE agreedAge
       /\ idled' = (idled /\ availability'.pending # Never)

\* Mutant: a heartbeat is dated by when it is applied.
SeenNow(b) == 0

\* recordWorkerStatus: the age of a report is counted from when it was queued.
SeenAge(b) == b.age

\* recordWorkerStatus: a stale report is ignored, and only a later one of the worker is kept.
RecordWorkerStatus(b) ==
    LET row == [status |-> b.status, sequence |-> b.sequence, seen |-> SeenAge(b)]
        rows == IF workerRow[b.worker].sequence < b.sequence
                THEN [workerRow EXCEPT ![b.worker] = row] ELSE workerRow
    IN /\ b \in heartbeats
       /\ heartbeats' = heartbeats \ {b}
       /\ IF SeenAge(b) > Stale THEN UNCHANGED <<workerRow, availability, agreedAge, idled>>
          ELSE workerRow' = rows /\ SettleAvailability(rows)
       /\ UNCHANGED <<process, inUse, sweptAge, outageAge>>

\* The handler of the report queue: a heartbeat that could not be applied is not retried.
DropHeartbeat(b) ==
    /\ b \in heartbeats
    /\ heartbeats' = heartbeats \ {b}
    /\ UNCHANGED <<process, workerRow, availability, inUse, sweptAge, outageAge, agreedAge,
                   idled>>

\* sweepRuntimeHealth: forget workers long gone, settle the adapter if it is used.
SweepRuntimeHealth ==
    LET rows == [w \in Processes |-> IF workerRow[w].seen > Keep THEN NoRow ELSE workerRow[w]]
    IN /\ sweptAge > 0
       /\ sweptAge' = 0
       /\ workerRow' = rows
       /\ IF inUse THEN SettleAvailability(rows)
          ELSE UNCHANGED <<availability, agreedAge, idled>>
       /\ UNCHANGED <<process, heartbeats, inUse, outageAge>>

\* adaptersInUse: an operator enables or disables the agents of the adapter.
ToggleUse ==
    /\ inUse' = ~inUse
    /\ outageAge' = 0
    /\ idled' = (availability.pending # Never)
    /\ UNCHANGED <<process, heartbeats, workerRow, availability, sweptAge, agreedAge>>

Older(age, cap) == IF age = Never THEN Never ELSE Min({age + 1, cap})

\* Timers are kept: a worker that runs has made its check, the controller has swept.
Beat ==
    /\ \A w \in Processes : process[w].pc = "up" => ~process[w].due
    /\ sweptAge < SweepEvery
    /\ sweptAge' = sweptAge + 1
    /\ process' = [w \in Processes |-> [process[w] EXCEPT !.due = @ \/ process[w].pc = "up"]]
    /\ heartbeats' = {[b EXCEPT !.age = Older(@, Stale + 1)] : b \in heartbeats}
    /\ workerRow' = [w \in Processes |-> [workerRow[w] EXCEPT !.seen = Older(@, Keep + 1)]]
    /\ availability' = [availability EXCEPT !.pending = Older(@, Stable)]
    /\ outageAge' = IF inUse THEN Older(outageAge, OutageBound + 1) ELSE 0
    /\ agreedAge' = Older(agreedAge, Stable)
    /\ UNCHANGED <<inUse, idled>>

HealthInit ==
    /\ process = [w \in Processes |-> [pc |-> "off", sent |-> 0, due |-> TRUE, taking |-> FALSE]]
    /\ heartbeats = {} /\ inUse = TRUE
    /\ workerRow = [w \in Processes |-> NoRow]
    /\ availability = [known |-> FALSE, available |-> TRUE, pending |-> Never]
    /\ sweptAge = 0 /\ outageAge = 0 /\ agreedAge = 0 /\ idled = FALSE

HealthNext ==
    \/ \E w \in Processes, again, ok \in BOOLEAN : CheckRuntime(w, again, ok)
    \/ \E w \in Processes : LeaveWorker(w)
    \/ \E w \in Processes : WorkerVanishes(w)
    \/ \E b \in heartbeats : RecordWorkerStatus(b)
    \/ \E b \in heartbeats : DropHeartbeat(b)
    \/ SweepRuntimeHealth
    \/ ToggleUse
    \/ Beat

HealthSpec == HealthInit /\ [][HealthNext]_healthVars

-----------------------------------------------------------------------------

\* An outage does not go unnoticed: when enabled agents have used the adapter for a while and no
\* worker has said "ready" for as long as a heartbeat stays fresh, a change must last and two
\* sweeps take, the adapter is settled as unavailable, however late or in whatever order the
\* heartbeats of dead workers are applied (recordWorkerStatus, sweepRuntimeHealth).
OutageIsSettled ==
    outageAge > OutageBound => availability.known /\ ~availability.available

\* A change is settled, and alerted, only when it lasted: the controller has not found the settled
\* state to hold within the last Stable, so a restart or one failed probe raises no alert
\* (settleAvailability), unless the adapter was without enabled agents while it was pending.
LastingChangesOnly ==
    [][ availability'.available # availability.available
        => agreedAge = Stable \/ idled ]_healthVars
============================================================================
