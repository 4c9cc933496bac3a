------------------------------- MODULE Outbox -------------------------------
(***************************************************************************)
(* One item of the transactional outbox (packages/outbox), an agent's      *)
(* post, and the Mattermost deliverer (packages/mattermost/deliver.ts)     *)
(* that performs it.                                                       *)
(*                                                                         *)
(* The claim, the settlement, the reconciliation pass and the redrive are  *)
(* one database transaction each; between a claim and its settlement the   *)
(* deliverer calls Mattermost, and anything else may happen: its lease     *)
(* expires, another delivery claims the item, the process dies.            *)
(***************************************************************************)
EXTENDS Naturals

CONSTANTS
    Deliveries,     \* concurrent handlers of the delivery queue (localConcurrency)
    MaxAttempts,    \* attempts of a new item, and of a redriven one
    MaxRedrives,    \* bound: redrives explored
    MaxJobs,        \* bound: delivery jobs in the queue at once
    Faults          \* some of FaultNames

\* "crash": a process dies; "lose_job": a job is dead-lettered; "slow": a live
\* delivery outlasts its lease; "unsure": the lookup does not show or cannot prove an
\* earlier post (one that landed late, was edited or deleted, or is out of reach).
FaultNames == {"crash", "lose_job", "slow", "unsure"}

ASSUME OutboxAssumption ==
    /\ MaxAttempts \in Nat \ {0}
    /\ MaxRedrives \in Nat
    /\ MaxJobs \in Nat \ {0}
    /\ Faults \subseteq FaultNames

VARIABLES
    status,       \* outbox.status
    attempts,     \* outbox.attempts, the fencing token of claims
    maxAttempts,  \* outbox.max_attempts
    due,          \* outbox.next_attempt_at: in its backoff, due, or due for long
    lease,        \* outbox.locked_until
    jobs,         \* outbox.deliver jobs waiting in the queue
    delivery,     \* each handler: what it is about to do, and the attempt it claimed
    posts,        \* posts with the item's idempotency key in the channel
    redrives,     \* redrives so far
    agent,        \* the agent is in the configuration, or retired
    settledBy     \* the attempt that settled the item (the receipt, or the error)

vars == <<status, attempts, maxAttempts, due, lease, jobs, delivery, posts, redrives,
          agent, settledBy>>
row == <<status, attempts, maxAttempts, due, lease, settledBy>>

Idle == [pc |-> "idle", attempt |-> 0]
Steps == {"idle", "claimed", "create", "answered", "failed", "refused"}

TypeOK ==
    /\ status \in {"none", "pending", "sending", "sent", "dead", "cancelled"}
    /\ attempts \in Nat /\ maxAttempts \in Nat /\ attempts <= maxAttempts
    /\ due \in {"backoff", "due", "stale"}
    /\ lease \in {"free", "held", "expired"}
    /\ jobs \in 0..MaxJobs
    /\ delivery \in [Deliveries -> [pc: Steps, attempt: Nat]]
    /\ posts \in Nat
    /\ redrives \in 0..MaxRedrives /\ agent \in {"configured", "retired"}
    /\ settledBy \in Nat

\* A live delivery ends before its lease does, and the lookup of a retry is sure.
Prompt == Faults \cap {"slow", "unsure"} = {}

Live(d) == delivery[d].pc # "idle"
GoOn(d, pc) == delivery' = [delivery EXCEPT ![d].pc = pc]
Return(d) == delivery' = [delivery EXCEPT ![d] = Idle]

-----------------------------------------------------------------------------
(* The queue. *)

\* One more job, if the bound allows it.
Send(n) == IF n < MaxJobs THEN n + 1 ELSE n

\* The queue retries a job whose handler threw or died, until it dead-letters it.
JobAgain ==
    \/ jobs' = Send(jobs)
    \/ "lose_job" \in Faults /\ jobs' = jobs

LoseJob ==
    /\ "lose_job" \in Faults
    /\ jobs > 0
    /\ jobs' = jobs - 1
    /\ UNCHANGED <<row, delivery, posts, redrives, agent>>

-----------------------------------------------------------------------------
\* enqueueOutbox: the item and its job, in the transaction that decides the effect.
\* A second insert with the same key does nothing.
EnqueueOutbox ==
    /\ status = "none" /\ agent = "configured"
    /\ status' = "pending"
    /\ due' = "due"
    /\ jobs' = Send(jobs)
    /\ UNCHANGED <<attempts, maxAttempts, lease, delivery, posts, redrives, agent, settledBy>>

Claimable ==
    \/ status = "pending" /\ due # "backoff"
    \/ status = "sending" /\ lease = "expired" /\ attempts < maxAttempts

\* A job for an item that cannot be claimed is done; inside the backoff another one
\* is sent for when it is due.
Claim(d) ==
    /\ ~Live(d) /\ jobs > 0
    /\ IF Claimable
       THEN /\ status' = "sending" /\ attempts' = attempts + 1 /\ lease' = "held"
            /\ delivery' = [delivery EXCEPT ![d] = [pc |-> "claimed", attempt |-> attempts + 1]]
            /\ jobs' = jobs - 1
            /\ UNCHANGED <<maxAttempts, due, settledBy>>
       ELSE /\ jobs' = IF status = "pending" THEN jobs ELSE jobs - 1
            /\ UNCHANGED <<row, delivery>>
    /\ UNCHANGED <<posts, redrives, agent>>

\* Mutant: a retry posts without looking for the post of an earlier attempt.
LooksNever(d) == FALSE

LooksFirst(d) == delivery[d].attempt > 1

\* withAgentBot lets a delivery on only while the configuration has the agent in the
\* channel, and keeps it so until the post is made (pc "create").
\* findEarlierPost adopts the earlier post when there is exactly one, and nothing
\* stands against it (the bot deleted a post, or too many changes to be sure).
LookUp(d) ==
    /\ delivery[d].pc = "claimed" /\ agent = "configured"
    /\ \/ LooksFirst(d) /\ posts = 1 /\ GoOn(d, "answered")
       \/ (~LooksFirst(d) \/ posts # 1 \/ "unsure" \in Faults) /\ GoOn(d, "create")
    /\ UNCHANGED <<row, jobs, posts, redrives, agent>>

\* createPost; the answer may be lost after the post was made.
CreatePost(d) ==
    /\ delivery[d].pc = "create"
    /\ posts' = posts + 1
    /\ GoOn(d, "answered") \/ GoOn(d, "failed")
    /\ UNCHANGED <<row, jobs, redrives, agent>>

\* Any call fails before a post is made: retryably, or for good (no deliverer, the
\* agent may no longer post there, a malformed payload).  Recording the receipt may
\* fail too, and is caught as a retryable failure.
CallFails(d) ==
    /\ \/ delivery[d].pc \in {"claimed", "create", "answered"} /\ GoOn(d, "failed")
       \/ delivery[d].pc \in {"claimed", "create"} /\ GoOn(d, "refused")
    /\ UNCHANGED <<row, jobs, posts, redrives, agent>>

Owned(d) == status = "sending" /\ delivery[d].attempt = attempts

RecordSent(d) ==
    /\ delivery[d].pc = "answered"
    /\ IF Owned(d)
       THEN status' = "sent" /\ lease' = "free" /\ settledBy' = delivery[d].attempt
       ELSE UNCHANGED <<status, lease, settledBy>>
    /\ Return(d)
    /\ UNCHANGED <<attempts, maxAttempts, due, jobs, posts, redrives, agent>>

\* A retryable failure with attempts left throws, so the queue retries the job.
RecordFailure(d) ==
    LET dead == delivery[d].pc = "refused" \/ delivery[d].attempt >= maxAttempts
    IN /\ delivery[d].pc \in {"failed", "refused"}
       /\ IF Owned(d)
          THEN /\ status' = IF dead THEN "dead" ELSE "pending"
               /\ lease' = "free" /\ due' = "backoff" /\ settledBy' = delivery[d].attempt
               /\ IF dead THEN jobs' = jobs ELSE JobAgain
          ELSE UNCHANGED <<status, lease, due, settledBy, jobs>>
       /\ Return(d)
       /\ UNCHANGED <<attempts, maxAttempts, posts, redrives, agent>>

\* The process dies, or its settling transaction fails; its job is retried.
Crash(d) ==
    /\ "crash" \in Faults
    /\ Live(d)
    /\ Return(d)
    /\ JobAgain
    /\ UNCHANGED <<row, posts, redrives, agent>>

\* Time.  A request ends within 15 seconds and a lease lasts 60: a lease expires
\* under a live delivery only when it is slow.
LeaseExpires ==
    /\ lease = "held"
    /\ "slow" \in Faults \/ ~\E d \in Deliveries : Live(d) /\ delivery[d].attempt = attempts
    /\ lease' = "expired"
    /\ UNCHANGED <<status, attempts, maxAttempts, due, jobs, delivery, posts, redrives, agent,
                   settledBy>>

TimePasses ==
    /\ status = "pending" /\ due # "stale"
    /\ due' = IF due = "backoff" THEN "due" ELSE "stale"
    /\ UNCHANGED <<status, attempts, maxAttempts, lease, jobs, delivery, posts, redrives, agent,
                   settledBy>>

Poisoned == status = "sending" /\ lease = "expired" /\ attempts >= maxAttempts

\* Mutant: an item whose lease expired is not looked for.
StaleOnly == status = "pending" /\ due = "stale"

Forgotten ==
    \/ status = "pending" /\ due = "stale"
    \/ status = "sending" /\ lease = "expired" /\ ~Poisoned

\* reconcileOutbox: what died on its last attempt is dead; what no job may carry any
\* more gets a job.
ReconcileOutbox ==
    \/ /\ Poisoned
       /\ status' = "dead" /\ lease' = "free" /\ due' = "due" /\ settledBy' = attempts
       /\ UNCHANGED <<attempts, maxAttempts, jobs, delivery, posts, redrives, agent>>
    \/ /\ Forgotten
       /\ jobs' = Send(jobs)
       /\ due' = IF status = "pending" THEN "due" ELSE due
       /\ UNCHANGED <<status, attempts, maxAttempts, lease, delivery, posts, redrives, agent,
                      settledBy>>

\* attempts keeps counting, as the fencing token of claims.
RedriveAttempts == attempts

RedriveOutbox ==
    /\ status = "dead" /\ redrives < MaxRedrives
    /\ status' = "pending" /\ due' = "due" /\ lease' = "free"
    /\ attempts' = RedriveAttempts
    /\ maxAttempts' = RedriveAttempts + MaxAttempts
    /\ redrives' = redrives + 1
    /\ jobs' = Send(jobs)
    /\ UNCHANGED <<delivery, posts, agent, settledBy>>

\* Mutant: a retire that does not wait for a post under way.
RetiresAtOnce == TRUE

\* withAgentBot holds the configuration in share mode until its post returns.
ConfigurationFree == \A d \in Deliveries : delivery[d].pc # "create"

\* requestAgentRetire: the agent leaves the configuration and its open items are
\* cancelled, for good.
RetireAgent ==
    /\ agent = "configured" /\ ConfigurationFree
    /\ agent' = "retired"
    /\ status' = IF status \in {"pending", "sending"} THEN "cancelled" ELSE status
    /\ UNCHANGED <<attempts, maxAttempts, due, lease, jobs, delivery, posts, redrives, settledBy>>

\* requestAgentRestore brings the agent back; a cancelled item stays cancelled.
RestoreAgent ==
    /\ agent = "retired" /\ ConfigurationFree
    /\ agent' = "configured"
    /\ UNCHANGED <<row, jobs, delivery, posts, redrives>>

-----------------------------------------------------------------------------
Init ==
    /\ status = "none" /\ attempts = 0 /\ maxAttempts = MaxAttempts /\ due = "due"
    /\ lease = "free" /\ jobs = 0 /\ posts = 0 /\ redrives = 0 /\ settledBy = 0
    /\ delivery = [d \in Deliveries |-> Idle] /\ agent = "configured"

Deliver(d) ==
    Claim(d) \/ LookUp(d) \/ CreatePost(d) \/ CallFails(d) \/ RecordSent(d) \/ RecordFailure(d)

Next ==
    \/ EnqueueOutbox \/ LoseJob \/ LeaseExpires \/ TimePasses \/ ReconcileOutbox
    \/ RedriveOutbox \/ RetireAgent \/ RestoreAgent
    \/ \E d \in Deliveries : Deliver(d) \/ Crash(d)

Spec == Init /\ [][Next]_vars

\* A handler of the queue runs, a claimed delivery gets on, leases and backoffs run
\* out, and the controller reconciles every minute.  The queue may lose jobs.
Fairness ==
    /\ \A d \in Deliveries : WF_vars(Deliver(d))
    /\ SF_vars(\E d \in Deliveries : Claim(d) /\ Claimable)
    /\ WF_vars(LeaseExpires) /\ WF_vars(TimePasses) /\ WF_vars(ReconcileOutbox)

FairSpec == Spec /\ Fairness

-----------------------------------------------------------------------------
\* No two deliveries hold the same claim, and none holds a claim of the future: the
\* fencing token tells a delivery that lost its lease from the one that took over,
\* through any number of crashes, takeovers and redrives.
TokensDiffer ==
    /\ \A d \in Deliveries : Live(d) => delivery[d].attempt <= attempts
    /\ \A d, e \in Deliveries :
         d # e /\ Live(d) /\ Live(e) => delivery[d].attempt # delivery[e].attempt

\* An item is sent or dead by the word of its newest claim, never by a delivery that
\* lost its lease while a newer one was at work.
NewestClaimSettles == status \in {"sent", "dead"} => settledBy = attempts

\* No post of a retired agent appears, although its item was claimed before the retire:
\* the retire waits for a post under way and overtakes every other.
RetiredNeverPosts == [][agent = "retired" => posts' = posts]_vars

\* A sent item was posted, once: a crash or a lost answer after the post does not lead
\* to a second one, through retries and redrives.  It holds while no delivery outlasts
\* its lease and the lookup is sure.
PostedOnce == posts <= 1 /\ (status = "sent" => posts = 1)

Promise ==
    INSTANCE OutboxPromise WITH
        item <- IF status \in {"pending", "sending"} THEN "open" ELSE status,
        effects <- posts

\* The delivery machinery implements OutboxPromise: what a reader of the outbox sees is
\* an effect decided, performed at most once, confirmed only after it happened, given
\* up or confirmed in the end, and never performed outside an open item.
KeepsPromise == Promise!Spec

=============================================================================
