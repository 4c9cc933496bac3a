------------------------------ MODULE Approvals ------------------------------
(***************************************************************************)
(* The approvals of one agent and the tool actions they allow              *)
(* (core/services/approvals.ts, approval-store.ts), with the tool runners  *)
(* that carry them out (tool-broker, apps/tool-runner).                    *)
(*                                                                         *)
(* Every use case of the controller holds the controls row (shared, or     *)
(* exclusively for kill-all and a configuration change), the agent and the *)
(* approval until it commits, and so does the runner's begin: each is one  *)
(* action.  A runner's work after begin is not under any lock.             *)
(***************************************************************************)
EXTENDS Naturals

CONSTANTS
    Approvals,  \* the requests explored
    Runners,    \* concurrent executions of the tool runners
    Faults      \* some of FaultNames

\* "crash": a runner dies; "lose": a job or a report is dead-lettered; "repeat": one is
\* delivered again.
FaultNames == {"crash", "lose", "repeat"}

ASSUME ApprovalsAssumption == Faults \subseteq FaultNames

VARIABLES
    holds,     \* what stands against execution, of Holds
    drifted,   \* requests whose custom tool definition was edited since
    request,   \* approval_requests.status
    answered,  \* approval_requests.decision_post_id is set
    action,    \* tool_actions.status
    stopping,  \* tool_actions.cancel_requested_at is set
    clock,     \* how far time has come for each request
    waiting,   \* the agent's wait on approval.resolved is active
    told,      \* the outcome approval.resolved told the agent (resolved_at is set)
    card,      \* delivery of the approval card
    lastWord,  \* the last outcome posted in the card's thread
    picked,    \* requests the running sweep has selected
    jobs,      \* execute jobs in the queue
    runner,    \* what each execution is about to do
    reports,   \* reports in the queue
    effects,   \* how often the provider performed the action
    byHand     \* actions an operator settled

gateway == <<holds, drifted>>
tools == <<jobs, runner, effects>>
vars == <<gateway, request, answered, action, stopping, clock, waiting, told, card, lastWord,
          picked, tools, reports, byHand>>

Holds == {"kill", "disabled", "revoked", "retired"}
Requests == {"none", "pending", "granted", "denied", "expired", "cancelled"}
ActionEnds == {"succeeded", "failed", "unknown", "cancelled"}
Actions == {"none", "queued", "running"} \cup ActionEnds
Outcomes == {"none", "denied", "expired"} \cup ActionEnds

\* Before and after expires_at; after the grant: before deadline_at, after it, after the
\* grace, after the extended timeout of the wait.
Moments == {"open", "expired", "window", "late", "over", "due"}
Reports == [approval: Approvals, kind: {"succeeded", "failed", "unknown"}]
Steps == {"idle", "fetched", "begun", "performed"}

TypeOK ==
    /\ holds \subseteq Holds
    /\ request \in [Approvals -> Requests] /\ action \in [Approvals -> Actions]
    /\ clock \in [Approvals -> Moments]
    /\ told \in [Approvals -> Outcomes] /\ lastWord \in [Approvals -> Outcomes]
    /\ card \in [Approvals -> {"none", "due", "posting", "delivered", "gone"}]
    /\ drifted \subseteq Approvals /\ answered \subseteq Approvals
    /\ stopping \subseteq Approvals /\ waiting \subseteq Approvals
    /\ picked \subseteq Approvals /\ jobs \subseteq Approvals /\ byHand \subseteq Approvals
    /\ runner \in [Runners -> [pc: Steps, approval: Approvals]]
    /\ reports \subseteq Reports
    /\ effects \in [Approvals -> Nat]

-----------------------------------------------------------------------------
(* How an approval ends. *)

\* approvalOutcome: how the approval ended for its agent, "none" while it is open.
ApprovalOutcome(r, t) ==
    IF r \in {"denied", "expired", "cancelled"} THEN r
    ELSE IF r = "granted" /\ t \in ActionEnds THEN t
    ELSE "none"

Unresolved(a) == told[a] = "none"

\* resolveApproval: approval.resolved, which ends the agent's wait, once.
ResolveApproval(a, r, t) ==
    IF ApprovalOutcome(r, t) # "none" /\ Unresolved(a)
    THEN told' = [told EXCEPT ![a] = ApprovalOutcome(r, t)] /\ waiting' = waiting \ {a}
    ELSE UNCHANGED <<told, waiting>>

\* postNoticeOnCard: nothing while the card is not delivered.
PostNotice(a, outcome) ==
    lastWord' = IF card[a] = "delivered" THEN [lastWord EXCEPT ![a] = outcome] ELSE lastWord

NeedsFinalNotice(a, r, t) ==
    \/ r = "expired"
    \/ r = "cancelled" /\ a \notin answered
    \/ r = "granted" /\ t = "cancelled"

FinalNotice(a, r, t) ==
    IF NeedsFinalNotice(a, r, t) THEN PostNotice(a, ApprovalOutcome(r, t))
    ELSE UNCHANGED lastWord

\* The action moves on, the receipt goes to the card's thread, the agent is resumed.
Settled(a, t) ==
    /\ action' = [action EXCEPT ![a] = t]
    /\ PostNotice(a, t)
    /\ ResolveApproval(a, request[a], t)

-----------------------------------------------------------------------------
(* The request, its card and the decision. *)

\* createApproval: a run ends asking for an approval.  No run of a held agent ends, and
\* the policy refuses what it does not permit.
CreateApproval(a) ==
    /\ request[a] = "none" /\ holds = {}
    /\ request' = [request EXCEPT ![a] = "pending"]
    /\ card' = [card EXCEPT ![a] = "due"]
    /\ waiting' = waiting \cup {a}
    /\ UNCHANGED <<gateway, answered, action, stopping, clock, told, lastWord, picked, tools,
                   reports, byHand>>

\* pendingApprovalCards asks once whether the request is pending; the post and its
\* receipt come after.  A card may also never be delivered.
DeliverCard(a) ==
    /\ \/ card[a] = "due" /\ request[a] = "pending" /\ card' = [card EXCEPT ![a] = "posting"]
       \/ card[a] = "due" /\ request[a] # "pending" /\ card' = [card EXCEPT ![a] = "gone"]
       \/ card[a] = "posting" /\ card' = [card EXCEPT ![a] = "delivered"]
       \/ card[a] = "posting" /\ card' = [card EXCEPT ![a] = "gone"]
    /\ UNCHANGED <<gateway, request, answered, action, stopping, clock, waiting, told,
                   lastWord, picked, tools, reports, byHand>>

\* An exact command with the request's code, by one who may decide, in a delivered
\* card's thread.  Every other reply, and one to a request that is decided or expired,
\* changes nothing here.
Decidable(a) == card[a] = "delivered" /\ request[a] = "pending" /\ clock[a] = "open"

Deny(a) ==
    /\ Decidable(a)
    /\ request' = [request EXCEPT ![a] = "denied"]
    /\ answered' = answered \cup {a}
    /\ PostNotice(a, "denied")
    /\ ResolveApproval(a, "denied", "none")
    /\ UNCHANGED <<gateway, action, stopping, clock, card, picked, tools, reports, byHand>>

\* executionIssues, under the configuration h.
ExecutionIssues(a, h) == h \cap {"disabled", "revoked"} # {} \/ a \in drifted

Refused(a) == ExecutionIssues(a, holds) \/ "kill" \in holds

Grant(a) ==
    /\ Decidable(a)
    /\ answered' = answered \cup {a}
    /\ IF Refused(a)
       THEN /\ request' = [request EXCEPT ![a] = "cancelled"]
            /\ PostNotice(a, "cancelled")
            /\ ResolveApproval(a, "cancelled", "none")
            /\ UNCHANGED <<action, clock, jobs>>
       ELSE /\ request' = [request EXCEPT ![a] = "granted"]
            /\ action' = [action EXCEPT ![a] = "queued"]
            /\ clock' = [clock EXCEPT ![a] = "window"]
            /\ jobs' = jobs \cup {a}
            /\ UNCHANGED <<told, waiting, lastWord>>
    /\ UNCHANGED <<gateway, stopping, card, picked, runner, effects, reports, byHand>>

\* expires_at passes; or deadline_at, the grace after it and the margin after that.
Passes == {<<"open", "expired">>, <<"window", "late">>, <<"late", "over">>, <<"over", "due">>}

Tick(a) ==
    /\ request[a] # "none"
    /\ \E moment \in Moments :
         <<clock[a], moment>> \in Passes /\ clock' = [clock EXCEPT ![a] = moment]
    /\ UNCHANGED <<gateway, request, answered, action, stopping, waiting, told, card, lastWord,
                   picked, tools, reports, byHand>>

\* The wait ends without the approval: the agent was paused, or resumed by another wait.
WaitGone(a) ==
    /\ a \in waiting
    /\ waiting' = waiting \ {a}
    /\ UNCHANGED <<gateway, request, answered, action, stopping, clock, told, card, lastWord,
                   picked, tools, reports, byHand>>

-----------------------------------------------------------------------------
(* The tool runner. *)

\* The queue hands out a job, once.
FetchJob(r, a) ==
    /\ runner[r].pc = "idle" /\ a \in jobs
    /\ runner' = [runner EXCEPT ![r] = [pc |-> "fetched", approval |-> a]]
    /\ jobs' = jobs \ {a} \/ ("repeat" \in Faults /\ jobs' = jobs)
    /\ UNCHANGED <<gateway, request, answered, action, stopping, clock, waiting, told, card,
                   lastWord, picked, effects, reports, byHand>>

Moves(r, pc) == runner' = [runner EXCEPT ![r].pc = pc]

\* Mutant: begin does not ask whether the action is still queued.
MayBeginAgain(a) ==
    /\ holds \cap {"kill", "disabled"} = {}
    /\ a \notin stopping /\ request[a] = "granted"
    /\ clock[a] = "window"

MayBegin(a) ==
    /\ holds \cap {"kill", "disabled"} = {}
    /\ action[a] = "queued" /\ a \notin stopping /\ request[a] = "granted"
    /\ clock[a] = "window"

\* gateway_begin_tool_action; a refusal is reported and changes nothing.
BeginToolAction(r) ==
    LET a == runner[r].approval
    IN /\ runner[r].pc = "fetched"
       /\ \/ MayBegin(a) /\ Moves(r, "begun") /\ action' = [action EXCEPT ![a] = "running"]
          \/ ~MayBegin(a) /\ Moves(r, "idle") /\ UNCHANGED action
       /\ UNCHANGED <<gateway, request, answered, stopping, clock, waiting, told, card,
                      lastWord, picked, jobs, effects, reports, byHand>>

\* The executor's call takes effect at the provider.
Perform(r) ==
    /\ runner[r].pc = "begun"
    /\ Moves(r, "performed")
    /\ effects' = [effects EXCEPT ![runner[r].approval] = @ + 1]
    /\ UNCHANGED <<gateway, request, answered, action, stopping, clock, waiting, told, card,
                   lastWord, picked, jobs, reports, byHand>>

\* A receipt, a known failure (the provider refused, no executor, stopped before the
\* call), or an executor that threw or was aborted: unknown.
Report(r) ==
    /\ \E kind \in {"succeeded", "failed", "unknown"} :
         /\ \/ runner[r].pc = "performed" /\ kind # "failed"
            \/ runner[r].pc = "begun" /\ kind # "succeeded"
         /\ reports' = reports \cup {[approval |-> runner[r].approval, kind |-> kind]}
    /\ Moves(r, "idle")
    /\ UNCHANGED <<gateway, request, answered, action, stopping, clock, waiting, told, card,
                   lastWord, picked, jobs, effects, byHand>>

\* The runner dies, or cannot send its report: nothing is run again.
RunnerCrash(r) ==
    /\ "crash" \in Faults
    /\ runner[r].pc # "idle"
    /\ Moves(r, "idle")
    /\ UNCHANGED <<gateway, request, answered, action, stopping, clock, waiting, told, card,
                   lastWord, picked, jobs, effects, reports, byHand>>

Lose ==
    /\ "lose" \in Faults
    /\ \/ \E a \in jobs : jobs' = jobs \ {a} /\ UNCHANGED reports
       \/ \E m \in reports : reports' = reports \ {m} /\ UNCHANGED jobs
    /\ UNCHANGED <<gateway, request, answered, action, stopping, clock, waiting, told, card,
                   lastWord, picked, runner, effects, byHand>>

\* nextStatus: whether a report can still move an action of status t to its kind.
NextStatus(t, kind) ==
    \/ kind = "succeeded" /\ t \in {"running", "unknown"}
    \/ kind = "failed" /\ t \in {"queued", "running", "unknown"}
    \/ kind = "unknown" /\ t = "running"

HandleToolReport(m) ==
    /\ m \in reports
    /\ reports' = reports \ {m} \/ ("repeat" \in Faults /\ reports' = reports)
    /\ IF "retired" \notin holds /\ NextStatus(action[m.approval], m.kind)
       THEN Settled(m.approval, m.kind)
       ELSE UNCHANGED <<action, lastWord, told, waiting>>
    /\ UNCHANGED <<gateway, request, answered, stopping, clock, card, picked, tools, byHand>>

-----------------------------------------------------------------------------
(* Time limits, sweeps and operators. *)

OverdueStatus(t) == IF t = "queued" THEN "cancelled" ELSE "unknown"

\* handleWaitTimeout, settleApprovalOnTimeout.
HandleWaitTimeout(a) ==
    /\ a \in waiting /\ clock[a] \in {"expired", "due"}
    /\ IF request[a] = "granted" /\ action[a] \in {"queued", "running"}
       THEN Settled(a, OverdueStatus(action[a])) /\ UNCHANGED request
       ELSE LET r == IF request[a] = "pending" THEN "expired" ELSE request[a]
            IN /\ request' = [request EXCEPT ![a] = r]
               /\ IF r # request[a] THEN FinalNotice(a, r, action[a]) ELSE UNCHANGED lastWord
               /\ ResolveApproval(a, r, action[a])
               /\ UNCHANGED action
    /\ UNCHANGED <<gateway, answered, stopping, clock, card, picked, tools, reports, byHand>>

Overdue(a) ==
    \/ action[a] = "queued" /\ clock[a] \in {"late", "over", "due"}
    \/ action[a] = "running" /\ clock[a] \in {"over", "due"}

\* Mutant: the sweep selects only what was decided against.
SweepsEnded(a) == Unresolved(a) /\ request[a] \in {"denied", "expired", "cancelled"}

SweepCandidate(a) ==
    /\ Unresolved(a)
    /\ \/ request[a] \in {"denied", "expired", "cancelled"}
       \/ request[a] = "pending" /\ clock[a] = "expired"
       \/ request[a] = "granted" /\ (action[a] \in ActionEnds \/ Overdue(a))

\* sweepApprovals selects without a lock, and settles one request per transaction.
SweepSelect ==
    /\ picked' = picked \cup {a \in Approvals : SweepCandidate(a)}
    /\ picked' # picked
    /\ UNCHANGED <<gateway, request, answered, action, stopping, clock, waiting, told, card,
                   lastWord, tools, reports, byHand>>

SweepOne(a) ==
    /\ a \in picked
    /\ picked' = picked \ {a}
    /\ IF request[a] = "granted" /\ Overdue(a)
       THEN Settled(a, OverdueStatus(action[a])) /\ UNCHANGED request
       ELSE LET r == IF request[a] = "pending" /\ clock[a] = "expired"
                     THEN "expired" ELSE request[a]
            IN /\ request' = [request EXCEPT ![a] = r]
               /\ FinalNotice(a, r, action[a])
               /\ ResolveApproval(a, r, action[a])
               /\ UNCHANGED action
    /\ UNCHANGED <<gateway, answered, stopping, clock, card, tools, reports, byHand>>

\* Mutant: late cards of expired and withdrawn requests are not looked for.
MissesExpired(a) ==
    /\ ~Unresolved(a) /\ card[a] = "delivered" /\ lastWord[a] = "none"
    /\ request[a] = "granted" /\ action[a] \in ActionEnds

LacksLastWord(a) ==
    /\ ~Unresolved(a) /\ card[a] = "delivered" /\ lastWord[a] = "none"
    /\ \/ request[a] = "expired"
       \/ request[a] = "cancelled" /\ a \notin answered
       \/ request[a] = "granted" /\ action[a] \in ActionEnds

\* lateCardNotices.
LateCardNotice(a) ==
    /\ LacksLastWord(a)
    /\ PostNotice(a, ApprovalOutcome(request[a], action[a]))
    /\ UNCHANGED <<gateway, request, answered, action, stopping, clock, waiting, told, card,
                   picked, tools, reports, byHand>>

\* settleToolAction: an operator's word on an unknown outcome.
SettleToolAction(a) ==
    /\ action[a] = "unknown"
    /\ \E outcome \in {"succeeded", "failed", "cancelled"} :
         action' = [action EXCEPT ![a] = outcome] /\ PostNotice(a, outcome)
    /\ byHand' = byHand \cup {a}
    /\ UNCHANGED <<gateway, request, answered, stopping, clock, waiting, told, card, picked,
                   tools, reports>>

WithdrawOpenApprovals ==
    /\ request' = [a \in Approvals |-> IF request[a] = "pending" THEN "cancelled" ELSE request[a]]
    /\ action' = [a \in Approvals |-> IF action[a] = "queued" THEN "cancelled" ELSE action[a]]
    /\ stopping' = stopping \cup {a \in Approvals : action[a] = "running"}

KillAll ==
    /\ "kill" \notin holds
    /\ holds' = holds \cup {"kill"}
    /\ WithdrawOpenApprovals
    /\ UNCHANGED <<drifted, answered, clock, waiting, told, card, lastWord, picked, tools,
                   reports, byHand>>

ReleaseKillSwitch ==
    /\ "kill" \in holds
    /\ holds' = holds \ {"kill"}
    /\ UNCHANGED <<drifted, request, answered, action, stopping, clock, waiting, told, card,
                   lastWord, picked, tools, reports, byHand>>

\* revokeQueuedActions, with the holds h of the new configuration.
RevokeQueuedActions(h) ==
    /\ request' = [a \in Approvals |->
           IF request[a] = "pending" /\ ExecutionIssues(a, h) THEN "cancelled" ELSE request[a]]
    /\ action' = [a \in Approvals |->
           IF action[a] = "queued" /\ ExecutionIssues(a, h) THEN "cancelled" ELSE action[a]]
    /\ UNCHANGED stopping

\* A configuration change that enables or disables the agent and permits or revokes its
\* tools.  Disabling withdraws what is open and cancels the agent's waits; otherwise what
\* is no longer permitted is revoked.
ApplyConfig(h) ==
    LET now == (holds \ {"disabled", "revoked"}) \cup h
    IN /\ "retired" \notin holds
       /\ holds' = now
       /\ IF "disabled" \in h \ holds
          THEN WithdrawOpenApprovals /\ waiting' = {}
          ELSE RevokeQueuedActions(now) /\ UNCHANGED waiting
       /\ UNCHANGED <<drifted, answered, clock, told, card, lastWord, picked, tools, reports,
                      byHand>>

\* The approvals channel moves: what waits for a decision is withdrawn.
MoveApprovalsChannel ==
    /\ request' = [a \in Approvals |-> IF request[a] = "pending" THEN "cancelled" ELSE request[a]]
    /\ action' = [a \in Approvals |->
           IF action[a] = "queued" /\ ExecutionIssues(a, holds) THEN "cancelled" ELSE action[a]]
    /\ UNCHANGED <<gateway, answered, stopping, clock, waiting, told, card, lastWord, picked,
                   tools, reports, byHand>>

\* A new version of the custom tool's definition, which no configuration change announces.
EditDefinition(a) ==
    /\ request[a] # "none" /\ a \notin drifted
    /\ drifted' = drifted \cup {a}
    /\ UNCHANGED <<holds, request, answered, action, stopping, clock, waiting, told, card,
                   lastWord, picked, tools, reports, byHand>>

\* requestAgentRetire, as far as approvals see it: the agent leaves the configuration and
\* its undelivered cards are cancelled.  requestAgentRestore brings it back.
RetireAgent ==
    /\ "retired" \notin holds
    /\ holds' = holds \cup {"disabled", "retired"}
    /\ WithdrawOpenApprovals
    /\ waiting' = {}
    /\ card' = [a \in Approvals |-> IF card[a] \in {"due", "posting"} THEN "gone" ELSE card[a]]
    /\ UNCHANGED <<drifted, answered, clock, told, lastWord, picked, tools, reports, byHand>>

RestoreAgent ==
    /\ "retired" \in holds
    /\ holds' = holds \ {"disabled", "retired"}
    /\ UNCHANGED <<drifted, request, answered, action, stopping, clock, waiting, told, card,
                   lastWord, picked, tools, reports, byHand>>

-----------------------------------------------------------------------------
Init ==
    /\ holds = {} /\ drifted = {} /\ answered = {} /\ stopping = {} /\ waiting = {}
    /\ picked = {} /\ jobs = {} /\ reports = {} /\ byHand = {}
    /\ request = [a \in Approvals |-> "none"] /\ action = [a \in Approvals |-> "none"]
    /\ told = [a \in Approvals |-> "none"] /\ lastWord = [a \in Approvals |-> "none"]
    /\ clock = [a \in Approvals |-> "open"] /\ card = [a \in Approvals |-> "none"]
    /\ effects = [a \in Approvals |-> 0]
    /\ runner \in [Runners -> [pc: {"idle"}, approval: Approvals]]

Next ==
    \/ \E a \in Approvals :
         \/ CreateApproval(a) \/ DeliverCard(a) \/ Deny(a) \/ Grant(a) \/ Tick(a) \/ WaitGone(a)
         \/ HandleWaitTimeout(a) \/ SweepOne(a) \/ LateCardNotice(a) \/ SettleToolAction(a)
         \/ EditDefinition(a)
         \/ \E r \in Runners : FetchJob(r, a)
    \/ \E r \in Runners : BeginToolAction(r) \/ Perform(r) \/ Report(r) \/ RunnerCrash(r)
    \/ \E m \in reports : HandleToolReport(m)
    \/ Lose \/ SweepSelect \/ KillAll \/ ReleaseKillSwitch \/ MoveApprovalsChannel
    \/ RetireAgent \/ RestoreAgent
    \/ \E h \in SUBSET {"disabled", "revoked"} : ApplyConfig(h)

Spec == Init /\ [][Next]_vars

\* Clocks advance and the controller sweeps every minute.  Nothing is asked of the
\* queues, the runners, the humans or the wait timers.
Fairness ==
    /\ \A a \in Approvals : WF_vars(Tick(a)) /\ WF_vars(SweepOne(a)) /\ WF_vars(LateCardNotice(a))
    /\ WF_vars(SweepSelect)

FairSpec == Spec /\ Fairness

-----------------------------------------------------------------------------
\* The provider performs an action at most once, and only one that was granted: jobs
\* delivered twice, crashed runners and late reports never repeat it.
EffectsAreApproved ==
    \A a \in Approvals : effects[a] <= 1 /\ (effects[a] = 1 => request[a] = "granted")

\* Under the kill switch, for a disabled agent and for revoked tools nothing can be
\* granted or begin, and what runs under the kill switch or for a disabled agent was
\* asked to stop.
HoldsStopActions ==
    holds \cap {"kill", "disabled", "revoked"} # {} =>
        \A a \in Approvals :
            /\ request[a] # "pending" /\ action[a] # "queued"
            /\ action[a] = "running" /\ holds \cap {"kill", "disabled"} # {} => a \in stopping

\* What the record says happened is what happened, unless an operator said so: a success
\* was performed; a failed or cancelled action was not, and no runner can still do it.
RecordIsTrue ==
    \A a \in Approvals \ byHand :
        /\ action[a] = "succeeded" => effects[a] = 1
        /\ action[a] \in {"failed", "cancelled"} =>
             /\ effects[a] = 0
             /\ \A r \in Runners :
                  runner[r].approval = a => runner[r].pc \notin {"begun", "performed"}

\* The agent is told how its approval ended once, and what it was told stays true; only
\* "unknown" may be known better later (resolveApproval, settleToolAction).
ToldIsTrue ==
    \A a \in Approvals :
        told[a] # "none" => told[a] \in {ApprovalOutcome(request[a], action[a]), "unknown"}

\* resolveApproval never tells the agent a second outcome, whoever settles the action.
ToldOnce == [][\A a \in Approvals : told[a] # "none" => told'[a] = told[a]]_vars

\* Every request ends for its agent, although cards, jobs, reports, runners and wait
\* timers may all fail it.
EveryRequestEnds == \A a \in Approvals : []<>(request[a] # "none" => told[a] # "none")

\* The thread of a delivered card ends with the outcome, although the card was delivered
\* after the request ended or the outcome was settled before the card was there.
CardHasLastWord ==
    \A a \in Approvals :
        []<>(told[a] # "none" /\ card[a] = "delivered" =>
                lastWord[a] = ApprovalOutcome(request[a], action[a]))

=============================================================================
