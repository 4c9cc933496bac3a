---------------------------- MODULE OutboxProofs ----------------------------
(***************************************************************************)
(* Proofs about Outbox, for any number of deliveries, attempts and         *)
(* redrives.                                                               *)
(***************************************************************************)
EXTENDS Outbox, TLAPS

\* A pending item has an attempt left, so that claiming it stays within max_attempts.
AttemptLeft == status \in {"none", "pending"} => attempts < maxAttempts

Fenced == TypeOK /\ AttemptLeft /\ TokensDiffer /\ NewestClaimSettles

\* What keeps a prompt delivery from posting twice: only the newest claim is alive,
\* under its lease; one that goes on to create has seen that there is no post; and a
\* claim after the first post is a retry, which looks first.
NewestOnly ==
    \A d \in Deliveries : Live(d) =>
        /\ delivery[d].attempt = attempts
        /\ \/ status = "sending" /\ lease = "held"
           \/ status = "cancelled"

KnowsPosts ==
    /\ posts > 0 \/ status = "sending" => attempts > 0
    /\ \A d \in Deliveries : Live(d) => attempts > 0
    /\ \A d \in Deliveries :
         /\ delivery[d].pc = "create" => posts = 0
         /\ delivery[d].pc = "answered" => posts = 1
         /\ delivery[d].pc = "claimed" /\ posts > 0 => delivery[d].attempt > 1

LeaseFollowsStatus == lease # "free" => status \in {"sending", "cancelled"}

Single == NewestOnly /\ KnowsPosts /\ LeaseFollowsStatus /\ PostedOnce

\* The fence holds of an empty queue.
LEMMA FencedInit == Init => Fenced
BY OutboxAssumption
   DEF Init, Fenced, TypeOK, AttemptLeft, TokensDiffer, NewestClaimSettles, Live, Idle, Steps

\* A claim, a delivery, a crash or a sweep keeps the fence.
LEMMA FencedStep == Fenced /\ [Next]_vars => Fenced'
<1> SUFFICES ASSUME Fenced, [Next]_vars PROVE Fenced'
  OBVIOUS
<1> USE OutboxAssumption
    DEF Fenced, TypeOK, AttemptLeft, TokensDiffer, NewestClaimSettles, Live, Idle, Steps
<1>1. CASE EnqueueOutbox
  BY <1>1 DEF EnqueueOutbox, Send
<1>2. CASE LoseJob
  BY <1>2 DEF LoseJob, row
<1>3. CASE LeaseExpires
  BY <1>3 DEF LeaseExpires
<1>4. CASE TimePasses
  BY <1>4 DEF TimePasses
<1>5. CASE ReconcileOutbox
  BY <1>5 DEF ReconcileOutbox, Poisoned, Forgotten, Send
<1>6. CASE RedriveOutbox
  BY <1>6 DEF RedriveOutbox, RedriveAttempts, Send
<1>7. ASSUME NEW d \in Deliveries, Claim(d) PROVE Fenced'
  <2>1. CASE Claimable
    <3>1. /\ status' = "sending" /\ attempts' = attempts + 1 /\ lease' = "held"
          /\ delivery' = [delivery EXCEPT ![d] = [pc |-> "claimed", attempt |-> attempts + 1]]
          /\ jobs' = jobs - 1 /\ jobs > 0
          /\ UNCHANGED <<maxAttempts, due, settledBy, posts, redrives, agent>>
      BY <1>7, <2>1 DEF Claim
    <3>2. attempts + 1 <= maxAttempts
      BY <2>1 DEF Claimable
    <3> QED BY <3>1, <3>2
  <2>2. CASE ~Claimable
    BY <1>7, <2>2 DEF Claim, row
  <2> QED BY <2>1, <2>2
<1>8. ASSUME NEW d \in Deliveries, LookUp(d) PROVE Fenced'
  BY <1>8 DEF LookUp, GoOn, row
<1>9. ASSUME NEW d \in Deliveries, CreatePost(d) PROVE Fenced'
  BY <1>9 DEF CreatePost, GoOn, row
<1>10. ASSUME NEW d \in Deliveries, CallFails(d) PROVE Fenced'
  BY <1>10 DEF CallFails, GoOn, row
<1>11. ASSUME NEW d \in Deliveries, RecordSent(d) PROVE Fenced'
  BY <1>11 DEF RecordSent, Owned, Return
<1>12. ASSUME NEW d \in Deliveries, RecordFailure(d) PROVE Fenced'
  BY <1>12 DEF RecordFailure, Owned, Return, JobAgain, Send
<1>13. ASSUME NEW d \in Deliveries, Crash(d) PROVE Fenced'
  BY <1>13 DEF Crash, Return, JobAgain, Send, row
<1>14. CASE UNCHANGED vars
  BY <1>14 DEF vars
<1>15. CASE RetireAgent
  BY <1>15 DEF RetireAgent
<1>16. CASE RestoreAgent
  BY <1>16 DEF RestoreAgent, row
<1> QED
  BY <1>1, <1>2, <1>3, <1>4, <1>5, <1>6, <1>7, <1>8, <1>9, <1>10, <1>11, <1>12, <1>13,
     <1>14, <1>15, <1>16 DEF Next, Deliver

\* Nothing has been posted at first.
LEMMA SingleInit == Init => Single
BY DEF Init, Single, NewestOnly, KnowsPosts, LeaseFollowsStatus, PostedOnce, Live, Idle

\* With leases that outlive their deliveries, every step keeps to one post per item.
LEMMA SingleStep ==
    ASSUME Prompt PROVE Fenced /\ Single /\ [Next]_vars => Single'
<1> SUFFICES ASSUME Fenced, Single, [Next]_vars PROVE Single'
  OBVIOUS
<1> USE OutboxAssumption DEF Fenced, TypeOK, TokensDiffer, Live, Idle, Steps, Single,
        NewestOnly, KnowsPosts, LeaseFollowsStatus, PostedOnce
<1>1. CASE EnqueueOutbox
  BY <1>1 DEF EnqueueOutbox
<1>2. CASE LoseJob
  BY <1>2 DEF LoseJob, row
<1>3. CASE LeaseExpires
  <2>1. "slow" \notin Faults
    BY DEF Prompt
  <2> QED BY <1>3, <2>1 DEF LeaseExpires
<1>4. CASE TimePasses
  BY <1>4 DEF TimePasses
<1>5. CASE ReconcileOutbox
  BY <1>5 DEF ReconcileOutbox, Poisoned, Forgotten
<1>6. CASE RedriveOutbox
  BY <1>6 DEF RedriveOutbox, RedriveAttempts
<1>7. ASSUME NEW d \in Deliveries, Claim(d) PROVE Single'
  <2>1. CASE Claimable
    <3>1. /\ status' = "sending" /\ attempts' = attempts + 1 /\ lease' = "held"
          /\ delivery' = [delivery EXCEPT ![d] = [pc |-> "claimed", attempt |-> attempts + 1]]
          /\ UNCHANGED posts
      BY <1>7, <2>1 DEF Claim
    <3>2. \A e \in Deliveries : ~Live(e)
      BY <2>1 DEF Claimable
    <3> QED BY <3>1, <3>2, <2>1 DEF Claimable
  <2>2. CASE ~Claimable
    BY <1>7, <2>2 DEF Claim, row
  <2> QED BY <2>1, <2>2
<1>8. ASSUME NEW d \in Deliveries, LookUp(d) PROVE Single'
  <2>1. "unsure" \notin Faults
    BY DEF Prompt
  <2>2. CASE GoOn(d, "answered")
    BY <1>8, <2>1, <2>2 DEF LookUp, LooksFirst, GoOn, row
  <2>3. CASE GoOn(d, "create")
    BY <1>8, <2>1, <2>3 DEF LookUp, LooksFirst, GoOn, row
  <2> QED BY <1>8, <2>2, <2>3 DEF LookUp
<1>9. ASSUME NEW d \in Deliveries, CreatePost(d) PROVE Single'
  <2>1. \A e \in Deliveries : e # d => ~Live(e)
    BY <1>9 DEF CreatePost
  <2> QED BY <1>9, <2>1 DEF CreatePost, GoOn, row
<1>10. ASSUME NEW d \in Deliveries, CallFails(d) PROVE Single'
  BY <1>10 DEF CallFails, GoOn, row
<1>11. ASSUME NEW d \in Deliveries, RecordSent(d) PROVE Single'
  <2>1. \A e \in Deliveries : e # d => ~Live(e)
    BY <1>11 DEF RecordSent
  <2> QED BY <1>11, <2>1 DEF RecordSent, Owned, Return
<1>12. ASSUME NEW d \in Deliveries, RecordFailure(d) PROVE Single'
  <2>1. \A e \in Deliveries : e # d => ~Live(e)
    BY <1>12 DEF RecordFailure
  <2> QED BY <1>12, <2>1 DEF RecordFailure, Owned, Return
<1>13. ASSUME NEW d \in Deliveries, Crash(d) PROVE Single'
  BY <1>13 DEF Crash, Return, row
<1>14. CASE UNCHANGED vars
  BY <1>14 DEF vars
<1>15. CASE RetireAgent
  BY <1>15 DEF RetireAgent
<1>16. CASE RestoreAgent
  BY <1>16 DEF RestoreAgent, row
<1> QED
  BY <1>1, <1>2, <1>3, <1>4, <1>5, <1>6, <1>7, <1>8, <1>9, <1>10, <1>11, <1>12, <1>13,
     <1>14, <1>15, <1>16 DEF Next, Deliver

-----------------------------------------------------------------------------
\* Type correctness: deliverOutboxItem and reconcileOutbox keep attempts within
\* max_attempts, whatever crashes, takeovers and redrives happen.
THEOREM TypeCorrect == Spec => []TypeOK
<1>1. Fenced => TypeOK
  BY DEF Fenced
<1> QED BY <1>1, FencedInit, FencedStep, PTL DEF Spec

\* No two deliveries hold the same claim: outbox.attempts is a sound fencing token for
\* the settlement's where-clause, redrives included.
THEOREM ClaimsAreUnique == Spec => []TokensDiffer
<1>1. Fenced => TokensDiffer
  BY DEF Fenced
<1> QED BY <1>1, FencedInit, FencedStep, PTL DEF Spec

\* Only the newest claim settles the item: a delivery that lost its lease records
\* nothing.
THEOREM LateSettlesNothing == Spec => []NewestClaimSettles
<1>1. Fenced => NewestClaimSettles
  BY DEF Fenced
<1> QED BY <1>1, FencedInit, FencedStep, PTL DEF Spec

\* With deliveries that end before their lease, and lookups that are sure, the effect
\* happens at most once and an item is sent only if it happened.
THEOREM HappensOnce == ASSUME Prompt PROVE Spec => []PostedOnce
<1>1. Single => PostedOnce
  BY DEF Single
<1> QED BY <1>1, FencedInit, FencedStep, SingleInit, SingleStep, PTL DEF Spec

\* Under the same assumption the delivery machinery implements the safety part of
\* OutboxPromise, for any number of deliveries, attempts and redrives.
THEOREM Implements == ASSUME Prompt PROVE Spec => Promise!Safe
<1> USE DEF Promise!Init, Promise!Next, Promise!promiseVars, Promise!Decide,
            Promise!Perform, Promise!Confirm, Promise!GiveUp, Promise!GiveBack,
            Promise!Cancel
<1>1. Init => Promise!Init
  BY DEF Init
<1>2. Fenced /\ Single /\ [Next]_vars => [Promise!Next]_(Promise!promiseVars)
  <2> SUFFICES ASSUME Fenced, Single, [Next]_vars
               PROVE [Promise!Next]_(Promise!promiseVars)
    OBVIOUS
  <2> USE DEF Fenced, TypeOK, Single, NewestOnly, KnowsPosts, PostedOnce, Live, Steps
  <2>1. CASE EnqueueOutbox
    BY <2>1 DEF EnqueueOutbox
  <2>2. CASE LoseJob \/ LeaseExpires \/ TimePasses
    BY <2>2 DEF LoseJob, LeaseExpires, TimePasses, row
  <2>3. CASE ReconcileOutbox
    BY <2>3 DEF ReconcileOutbox, Poisoned, Forgotten
  <2>4. CASE RedriveOutbox
    BY <2>4 DEF RedriveOutbox
  <2>5. ASSUME NEW d \in Deliveries, Claim(d) PROVE [Promise!Next]_(Promise!promiseVars)
    BY <2>5 DEF Claim, Claimable, row
  <2>6. ASSUME NEW d \in Deliveries, LookUp(d) \/ CallFails(d) \/ Crash(d)
        PROVE [Promise!Next]_(Promise!promiseVars)
    BY <2>6 DEF LookUp, CallFails, Crash, row
  <2>7. ASSUME NEW d \in Deliveries, CreatePost(d)
        PROVE [Promise!Next]_(Promise!promiseVars)
    BY <2>7 DEF CreatePost, row
  <2>8. ASSUME NEW d \in Deliveries, RecordSent(d)
        PROVE [Promise!Next]_(Promise!promiseVars)
    BY <2>8 DEF RecordSent, Owned
  <2>9. ASSUME NEW d \in Deliveries, RecordFailure(d)
        PROVE [Promise!Next]_(Promise!promiseVars)
    BY <2>9 DEF RecordFailure, Owned
  <2>10. CASE UNCHANGED vars
    BY <2>10 DEF vars
  <2>11. CASE RetireAgent \/ RestoreAgent
    BY <2>11 DEF RetireAgent, RestoreAgent, row
  <2> QED
    BY <2>1, <2>2, <2>3, <2>4, <2>5, <2>6, <2>7, <2>8, <2>9, <2>10, <2>11 DEF Next, Deliver
<1> QED
  BY <1>1, <1>2, FencedInit, FencedStep, SingleInit, SingleStep, PTL DEF Spec, Promise!Safe

\* No delivery is about to post while its agent is retired.
NoPostUnderWay ==
    agent = "retired" => \A d \in Deliveries : delivery[d].pc # "create"

\* A retired agent's posts do not appear: requestAgentRetire takes the configuration
\* exclusively, and withAgentBot holds it shared from its check to the post.
THEOREM RetireOvertakesPosts == Spec => RetiredNeverPosts
<1> USE DEF NoPostUnderWay
<1>1. Init => NoPostUnderWay
  BY DEF Init
<1>2. Fenced /\ NoPostUnderWay /\ [Next]_vars => NoPostUnderWay'
  <2> SUFFICES ASSUME Fenced, NoPostUnderWay, [Next]_vars PROVE NoPostUnderWay'
    OBVIOUS
  <2> USE DEF Fenced, TypeOK
  <2>1. CASE \/ EnqueueOutbox \/ LoseJob \/ LeaseExpires \/ TimePasses \/ ReconcileOutbox
             \/ RedriveOutbox \/ RestoreAgent
    BY <2>1 DEF EnqueueOutbox, LoseJob, LeaseExpires, TimePasses, ReconcileOutbox,
                RedriveOutbox, RestoreAgent
  <2>2. CASE RetireAgent
    BY <2>2 DEF RetireAgent, ConfigurationFree
  <2>3. ASSUME NEW d \in Deliveries, LookUp(d) PROVE NoPostUnderWay'
    BY <2>3 DEF LookUp
  <2>4. ASSUME NEW d \in Deliveries, Claim(d) PROVE NoPostUnderWay'
    BY <2>4 DEF Claim, Claimable
  <2>5. ASSUME NEW d \in Deliveries, CreatePost(d) PROVE NoPostUnderWay'
    BY <2>5 DEF CreatePost, GoOn
  <2>6. ASSUME NEW d \in Deliveries, CallFails(d) PROVE NoPostUnderWay'
    BY <2>6 DEF CallFails, GoOn
  <2>7. ASSUME NEW d \in Deliveries, RecordSent(d) \/ RecordFailure(d) \/ Crash(d)
        PROVE NoPostUnderWay'
    BY <2>7 DEF RecordSent, RecordFailure, Crash, Return, Idle
  <2>8. CASE UNCHANGED vars
    BY <2>8 DEF vars
  <2> QED
    BY <2>1, <2>2, <2>3, <2>4, <2>5, <2>6, <2>7, <2>8 DEF Next, Deliver
<1>3. NoPostUnderWay /\ [Next]_vars => [agent = "retired" => posts' = posts]_vars
  <2> SUFFICES ASSUME NoPostUnderWay, Next, agent = "retired" PROVE posts' = posts
    BY DEF vars
  <2> QED
    BY DEF Next, Deliver, EnqueueOutbox, LoseJob, LeaseExpires, TimePasses, ReconcileOutbox,
           RedriveOutbox, RetireAgent, RestoreAgent, Claim, LookUp, CreatePost, CallFails,
           RecordSent, RecordFailure, Crash
<1> QED
  BY <1>1, <1>2, <1>3, FencedInit, FencedStep, PTL DEF Spec, RetiredNeverPosts

=============================================================================
