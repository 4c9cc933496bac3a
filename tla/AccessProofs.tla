--------------------------- MODULE AccessProofs ---------------------------
(***************************************************************************)
(* Proofs about what an agent may do.                                      *)
(*                                                                         *)
(* Approvals, for any number of requests and tool runners and any          *)
(* combination of its faults: a tool call runs only as it was approved.    *)
(*                                                                         *)
(* Configuration, for any number of editors, requests and revisions: what  *)
(* is enforced is what the journal records, access grows only by a grant,  *)
(* a refused submission has changed nothing and no edit is overwritten     *)
(* unseen.                                                                 *)
(***************************************************************************)
EXTENDS Approvals, Configuration, WellFoundedInduction, TLAPS


-----------------------------------------------------------------------------
(* Types. *)

\* What a settled action leaves behind has its type.
LEMMA SettledType ==
    ASSUME TypeOK, NEW a \in Approvals, NEW t \in ActionEnds, Settled(a, t)
    PROVE  /\ action' \in [Approvals -> Actions]
           /\ told' \in [Approvals -> Outcomes] /\ lastWord' \in [Approvals -> Outcomes]
           /\ waiting' \subseteq Approvals
BY DEF TypeOK, Settled, PostNotice, ResolveApproval, ApprovalOutcome, Unresolved, Actions,
       Outcomes, ActionEnds, Requests

\* And so has what the end of a request leaves behind.
LEMMA ResolvedType ==
    ASSUME TypeOK, NEW a \in Approvals, NEW r \in Requests, NEW t \in Actions,
           ResolveApproval(a, r, t)
    PROVE  told' \in [Approvals -> Outcomes] /\ waiting' \subseteq Approvals
BY DEF TypeOK, ResolveApproval, ApprovalOutcome, Unresolved, Actions, Outcomes, ActionEnds,
       Requests

\* Notices post outcomes.
LEMMA NoticeType ==
    ASSUME TypeOK, NEW a \in Approvals, NEW r \in Requests, NEW t \in Actions,
           FinalNotice(a, r, t) \/ PostNotice(a, ApprovalOutcome(r, t))
    PROVE  lastWord' \in [Approvals -> Outcomes]
BY DEF TypeOK, FinalNotice, PostNotice, ApprovalOutcome, Actions, Outcomes, ActionEnds, Requests

\* Every action of the specification preserves TypeOK.
LEMMA TypeStep == TypeOK /\ [Next]_vars => TypeOK'
<1> SUFFICES ASSUME TypeOK, [Next]_vars PROVE TypeOK'
  OBVIOUS
<1>1. ASSUME NEW a \in Approvals, CreateApproval(a) PROVE TypeOK'
  BY <1>1 DEF TypeOK, CreateApproval, gateway, tools, Requests
<1>2. ASSUME NEW a \in Approvals, DeliverCard(a) PROVE TypeOK'
  BY <1>2 DEF TypeOK, DeliverCard, gateway, tools
<1>3. ASSUME NEW a \in Approvals, Deny(a) PROVE TypeOK'
  <2>1. told' \in [Approvals -> Outcomes] /\ waiting' \subseteq Approvals
    BY <1>3, ResolvedType DEF Deny, Requests, Actions
  <2> QED BY <1>3, <2>1 DEF TypeOK, Deny, PostNotice, gateway, tools, Requests, Outcomes
<1>4. ASSUME NEW a \in Approvals, Grant(a) PROVE TypeOK'
  <2>1. CASE Refused(a)
    <3>1. told' \in [Approvals -> Outcomes] /\ waiting' \subseteq Approvals
      BY <1>4, <2>1, ResolvedType DEF Grant, Requests, Actions
    <3> QED BY <1>4, <2>1, <3>1
            DEF TypeOK, Grant, PostNotice, gateway, tools, Requests, Outcomes, ActionEnds
  <2>2. CASE ~Refused(a)
    BY <1>4, <2>2 DEF TypeOK, Grant, gateway, tools, Requests, Actions, Moments
  <2> QED BY <2>1, <2>2
<1>5. ASSUME NEW a \in Approvals, Tick(a) PROVE TypeOK'
  BY <1>5 DEF TypeOK, Tick, Passes, gateway, tools, Moments
<1>6. ASSUME NEW a \in Approvals, WaitGone(a) PROVE TypeOK'
  BY <1>6 DEF TypeOK, WaitGone, gateway, tools
<1>7. ASSUME NEW a \in Approvals, HandleWaitTimeout(a) PROVE TypeOK'
  <2>1. CASE request[a] = "granted" /\ action[a] \in {"queued", "running"}
    <3>1. OverdueStatus(action[a]) \in ActionEnds
      BY DEF OverdueStatus, ActionEnds
    <3>2. Settled(a, OverdueStatus(action[a])) /\ UNCHANGED request
      BY <1>7, <2>1 DEF HandleWaitTimeout
    <3> QED BY <1>7, <3>1, <3>2, SettledType DEF TypeOK, HandleWaitTimeout, gateway, tools
  <2>2. CASE ~(request[a] = "granted" /\ action[a] \in {"queued", "running"})
    <3> DEFINE r == IF request[a] = "pending" THEN "expired" ELSE request[a]
    <3>1. r \in Requests /\ action[a] \in Actions
      BY DEF TypeOK, Requests
    <3>2. /\ request' = [request EXCEPT ![a] = r]
          /\ FinalNotice(a, r, action[a]) \/ UNCHANGED lastWord
          /\ ResolveApproval(a, r, action[a])
          /\ UNCHANGED action
      BY <1>7, <2>2 DEF HandleWaitTimeout
    <3> HIDE DEF r
    <3> QED BY <1>7, <3>1, <3>2, ResolvedType, NoticeType
            DEF TypeOK, HandleWaitTimeout, gateway, tools
  <2> QED BY <2>1, <2>2
<1>8. ASSUME NEW a \in Approvals, SweepOne(a) PROVE TypeOK'
  <2>1. CASE request[a] = "granted" /\ Overdue(a)
    <3>1. OverdueStatus(action[a]) \in ActionEnds
      BY DEF OverdueStatus, ActionEnds
    <3>2. Settled(a, OverdueStatus(action[a])) /\ UNCHANGED request
      BY <1>8, <2>1 DEF SweepOne
    <3> QED BY <1>8, <3>1, <3>2, SettledType DEF TypeOK, SweepOne, gateway, tools
  <2>2. CASE ~(request[a] = "granted" /\ Overdue(a))
    <3> DEFINE r == IF request[a] = "pending" /\ clock[a] = "expired"
                    THEN "expired" ELSE request[a]
    <3>1. r \in Requests /\ action[a] \in Actions
      BY DEF TypeOK, Requests
    <3>2. /\ request' = [request EXCEPT ![a] = r]
          /\ FinalNotice(a, r, action[a])
          /\ ResolveApproval(a, r, action[a])
          /\ UNCHANGED action
      BY <1>8, <2>2 DEF SweepOne
    <3> HIDE DEF r
    <3> QED BY <1>8, <3>1, <3>2, ResolvedType, NoticeType
            DEF TypeOK, SweepOne, gateway, tools
  <2> QED BY <2>1, <2>2
<1>9. ASSUME NEW a \in Approvals, LateCardNotice(a) PROVE TypeOK'
  <2>1. request[a] \in Requests /\ action[a] \in Actions
    BY DEF TypeOK
  <2>2. PostNotice(a, ApprovalOutcome(request[a], action[a]))
    BY <1>9 DEF LateCardNotice
  <2>3. lastWord' \in [Approvals -> Outcomes]
    BY <2>1, <2>2, NoticeType
  <2> QED BY <1>9, <2>3 DEF TypeOK, LateCardNotice, gateway, tools
<1>10. ASSUME NEW a \in Approvals, SettleToolAction(a) PROVE TypeOK'
  BY <1>10 DEF TypeOK, SettleToolAction, PostNotice, gateway, tools, Actions, Outcomes, ActionEnds
<1>11. ASSUME NEW a \in Approvals, EditDefinition(a) PROVE TypeOK'
  BY <1>11 DEF TypeOK, EditDefinition, gateway, tools
<1>12. ASSUME NEW a \in Approvals, NEW r \in Runners, FetchJob(r, a) PROVE TypeOK'
  BY <1>12 DEF TypeOK, FetchJob, gateway, Steps
<1>13. ASSUME NEW r \in Runners, BeginToolAction(r) PROVE TypeOK'
  <2>1. runner[r].approval \in Approvals
    BY DEF TypeOK
  <2>2. action' \in [Approvals -> Actions]
    BY <1>13, <2>1 DEF TypeOK, BeginToolAction, Actions
  <2>3. runner' \in [Runners -> [pc: Steps, approval: Approvals]]
    BY <1>13 DEF TypeOK, BeginToolAction, Moves, Steps
  <2> QED BY <1>13, <2>2, <2>3 DEF TypeOK, BeginToolAction, gateway
<1>14. ASSUME NEW r \in Runners, Perform(r) PROVE TypeOK'
  <2>1. runner[r].approval \in Approvals
    BY DEF TypeOK
  <2>2. effects' \in [Approvals -> Nat]
    BY <1>14, <2>1 DEF TypeOK, Perform
  <2> QED BY <1>14, <2>2 DEF TypeOK, Perform, Moves, gateway, Steps
<1>15. ASSUME NEW r \in Runners, Report(r) PROVE TypeOK'
  <2>1. reports' \subseteq Reports
    BY <1>15 DEF TypeOK, Report, Reports
  <2> QED BY <1>15, <2>1 DEF TypeOK, Report, Moves, gateway, Steps
<1>16. ASSUME NEW r \in Runners, RunnerCrash(r) PROVE TypeOK'
  BY <1>16 DEF TypeOK, RunnerCrash, Moves, gateway, Steps
<1>17. ASSUME NEW m \in reports, HandleToolReport(m) PROVE TypeOK'
  <2>1. m \in Reports /\ m.approval \in Approvals
    BY DEF TypeOK, Reports
  <2>2. CASE ~("retired" \notin holds /\ NextStatus(action[m.approval], m.kind))
    BY <1>17, <2>1, <2>2 DEF TypeOK, HandleToolReport, gateway, tools
  <2>3. CASE "retired" \notin holds /\ NextStatus(action[m.approval], m.kind)
    <3>1. m.kind \in ActionEnds
      BY <2>1 DEF Reports, ActionEnds
    <3>2. Settled(m.approval, m.kind)
      BY <1>17, <2>3 DEF HandleToolReport
    <3> QED BY <1>17, <2>1, <3>1, <3>2, SettledType DEF TypeOK, HandleToolReport, gateway, tools
  <2> QED BY <2>2, <2>3
<1>18. CASE Lose
  BY <1>18 DEF TypeOK, Lose, gateway
<1>19. CASE SweepSelect
  BY <1>19 DEF TypeOK, SweepSelect, gateway, tools
<1>20. CASE KillAll
  BY <1>20 DEF TypeOK, KillAll, WithdrawOpenApprovals, tools, Holds, Requests, Actions, ActionEnds
<1>21. CASE ReleaseKillSwitch
  BY <1>21 DEF TypeOK, ReleaseKillSwitch, tools
<1>22. CASE MoveApprovalsChannel
  BY <1>22 DEF TypeOK, MoveApprovalsChannel, gateway, tools, Requests, Actions, ActionEnds
<1>23. CASE RetireAgent
  BY <1>23 DEF TypeOK, RetireAgent, WithdrawOpenApprovals, tools, Holds, Requests, Actions,
               ActionEnds
<1>24. CASE RestoreAgent
  BY <1>24 DEF TypeOK, RestoreAgent, tools
<1>25. ASSUME NEW h \in SUBSET {"disabled", "revoked"}, ApplyConfig(h) PROVE TypeOK'
  BY <1>25 DEF TypeOK, ApplyConfig, WithdrawOpenApprovals, RevokeQueuedActions, tools, Holds,
               Requests, Actions, ActionEnds
<1>26. CASE UNCHANGED vars
  BY <1>26 DEF TypeOK, vars, gateway, tools
<1> QED BY <1>1, <1>2, <1>3, <1>4, <1>5, <1>6, <1>7, <1>8, <1>9, <1>10, <1>11, <1>12, <1>13,
           <1>14, <1>15, <1>16, <1>17, <1>18, <1>19, <1>20, <1>21, <1>22, <1>23, <1>24, <1>25,
           <1>26 DEF Next

\* Every row of the approval tables and every queue keeps its type.
THEOREM TypeCorrect == Spec => []TypeOK
<1>1. Init => TypeOK
  BY DEF Init, TypeOK, Requests, Actions, Outcomes, Moments, Steps
<1> QED BY <1>1, TypeStep, PTL DEF Spec

-----------------------------------------------------------------------------
(* Holds. *)

\* Every use case that sets a hold withdraws what the hold forbids in the same
\* transaction, and none makes a request or an action under one.
LEMMA HoldsStep == TypeOK /\ HoldsStopActions /\ [Next]_vars => HoldsStopActions'
<1> SUFFICES ASSUME TypeOK, HoldsStopActions, [Next]_vars PROVE HoldsStopActions'
  OBVIOUS
<1> USE DEF HoldsStopActions
<1>1. ASSUME NEW a \in Approvals, CreateApproval(a) PROVE HoldsStopActions'
  BY <1>1 DEF CreateApproval, gateway
<1>2. ASSUME NEW a \in Approvals, Deny(a) PROVE HoldsStopActions'
  BY <1>2 DEF TypeOK, Deny, gateway
<1>3. ASSUME NEW a \in Approvals, Grant(a) PROVE HoldsStopActions'
  BY <1>3 DEF TypeOK, Grant, Decidable, gateway
<1>4. ASSUME NEW a \in Approvals, HandleWaitTimeout(a) PROVE HoldsStopActions'
  BY <1>4 DEF TypeOK, HandleWaitTimeout, Settled, OverdueStatus, gateway
<1>5. ASSUME NEW a \in Approvals, SweepOne(a) PROVE HoldsStopActions'
  BY <1>5 DEF TypeOK, SweepOne, Settled, OverdueStatus, gateway
<1>6. ASSUME NEW a \in Approvals, SettleToolAction(a) PROVE HoldsStopActions'
  BY <1>6 DEF TypeOK, SettleToolAction, gateway
<1>7. ASSUME NEW r \in Runners, BeginToolAction(r) PROVE HoldsStopActions'
  <2>1. runner[r].approval \in Approvals
    BY DEF TypeOK
  <2> QED BY <1>7, <2>1 DEF TypeOK, BeginToolAction, MayBegin, gateway
<1>8. ASSUME NEW m \in reports, HandleToolReport(m) PROVE HoldsStopActions'
  <2>1. m.approval \in Approvals /\ m.kind \notin {"queued", "running"}
    BY DEF TypeOK, Reports
  <2> QED BY <1>8, <2>1 DEF TypeOK, HandleToolReport, Settled, gateway
<1>9. CASE KillAll
  BY <1>9 DEF TypeOK, KillAll, WithdrawOpenApprovals
<1>10. CASE ReleaseKillSwitch
  BY <1>10 DEF ReleaseKillSwitch
<1>11. CASE MoveApprovalsChannel
  BY <1>11 DEF TypeOK, MoveApprovalsChannel, gateway
<1>12. CASE RetireAgent
  BY <1>12 DEF TypeOK, RetireAgent, WithdrawOpenApprovals
<1>13. CASE RestoreAgent
  BY <1>13 DEF RestoreAgent
<1>14. ASSUME NEW h \in SUBSET {"disabled", "revoked"}, ApplyConfig(h) PROVE HoldsStopActions'
  <2>1. CASE "disabled" \in h \ holds
    BY <1>14, <2>1 DEF TypeOK, ApplyConfig, WithdrawOpenApprovals
  <2>2. CASE "disabled" \notin h \ holds
    BY <1>14, <2>2 DEF TypeOK, ApplyConfig, RevokeQueuedActions, ExecutionIssues
  <2> QED BY <2>1, <2>2
<1>15. ASSUME UNCHANGED <<holds, request, action, stopping>> PROVE HoldsStopActions'
  BY <1>15
<1> QED
  <2>1. ASSUME NEW a \in Approvals,
               DeliverCard(a) \/ Tick(a) \/ WaitGone(a) \/ LateCardNotice(a) \/ EditDefinition(a)
        PROVE  UNCHANGED <<holds, request, action, stopping>>
    BY <2>1 DEF DeliverCard, Tick, WaitGone, LateCardNotice, EditDefinition, gateway
  <2>2. ASSUME NEW r \in Runners, NEW a \in Approvals, FetchJob(r, a)
        PROVE  UNCHANGED <<holds, request, action, stopping>>
    BY <2>2 DEF FetchJob, gateway
  <2>3. ASSUME NEW r \in Runners, Perform(r) \/ Report(r) \/ RunnerCrash(r)
        PROVE  UNCHANGED <<holds, request, action, stopping>>
    BY <2>3 DEF Perform, Report, RunnerCrash, gateway
  <2>4. ASSUME Lose \/ SweepSelect \/ UNCHANGED vars
        PROVE  UNCHANGED <<holds, request, action, stopping>>
    BY <2>4 DEF Lose, SweepSelect, gateway, vars
  <2> QED BY <1>1, <1>2, <1>3, <1>4, <1>5, <1>6, <1>7, <1>8, <1>9, <1>10, <1>11, <1>12, <1>13,
             <1>14, <1>15, <2>1, <2>2, <2>3, <2>4 DEF Next

\* Under the kill switch, for a disabled agent and for revoked tools nothing can be
\* granted or begin, and what runs for a held agent was asked to stop.
THEOREM HoldsHold == Spec => []HoldsStopActions
<1>1. Init => TypeOK /\ HoldsStopActions
  BY DEF Init, TypeOK, HoldsStopActions, Requests, Actions, Outcomes, Moments, Steps
<1>2. TypeOK /\ HoldsStopActions /\ [Next]_vars => (TypeOK /\ HoldsStopActions)'
  BY TypeStep, HoldsStep
<1> QED BY <1>1, <1>2, PTL DEF Spec

-----------------------------------------------------------------------------
(* What the agent is told. *)

\* A settled action that was open or unknown: the agent is told now, or was told
\* "unknown".
LEMMA SettledTold ==
    ASSUME TypeOK, ToldIsTrue, NEW a \in Approvals, NEW t \in ActionEnds,
           action[a] \in {"none", "queued", "running", "unknown"},
           Settled(a, t), UNCHANGED request
    PROVE  ToldIsTrue'
BY DEF TypeOK, ToldIsTrue, Settled, ResolveApproval, ApprovalOutcome, Unresolved, ActionEnds

\* A request that ends, or ended: the agent is told how.
LEMMA ResolvedTold ==
    ASSUME TypeOK, ToldIsTrue, NEW a \in Approvals, NEW r \in Requests,
           r = request[a] \/ request[a] = "pending",
           request' = [request EXCEPT ![a] = r],
           ResolveApproval(a, r, action[a]), UNCHANGED action
    PROVE  ToldIsTrue'
BY DEF TypeOK, ToldIsTrue, ResolveApproval, ApprovalOutcome, Unresolved, Requests, ActionEnds

\* Outcomes are final, so that what the agent was told stays true.
LEMMA ToldStep == TypeOK /\ ToldIsTrue /\ [Next]_vars => ToldIsTrue'
<1> SUFFICES ASSUME TypeOK, ToldIsTrue, [Next]_vars PROVE ToldIsTrue'
  OBVIOUS
<1>1. ASSUME NEW a \in Approvals, CreateApproval(a) PROVE ToldIsTrue'
  BY <1>1 DEF CreateApproval, TypeOK, ToldIsTrue, ApprovalOutcome
<1>2. ASSUME NEW a \in Approvals, Deny(a) PROVE ToldIsTrue'
  BY <1>2 DEF Deny, Decidable, TypeOK, ToldIsTrue, ResolveApproval, ApprovalOutcome, Unresolved
<1>3. ASSUME NEW a \in Approvals, Grant(a) PROVE ToldIsTrue'
  <2>1. CASE Refused(a)
    BY <1>3, <2>1 DEF Grant, Decidable, TypeOK, ToldIsTrue, ResolveApproval, ApprovalOutcome,
                      Unresolved
  <2>2. CASE ~Refused(a)
    BY <1>3, <2>2 DEF Grant, Decidable, TypeOK, ToldIsTrue, ApprovalOutcome
  <2> QED BY <2>1, <2>2
<1>4. ASSUME NEW a \in Approvals, HandleWaitTimeout(a) PROVE ToldIsTrue'
  <2>1. CASE request[a] = "granted" /\ action[a] \in {"queued", "running"}
    BY <1>4, <2>1, SettledTold DEF HandleWaitTimeout, OverdueStatus, ActionEnds
  <2>2. CASE ~(request[a] = "granted" /\ action[a] \in {"queued", "running"})
    <3> DEFINE r == IF request[a] = "pending" THEN "expired" ELSE request[a]
    <3>1. r \in Requests /\ (r = request[a] \/ request[a] = "pending")
      BY DEF TypeOK, Requests
    <3>2. /\ request' = [request EXCEPT ![a] = r]
          /\ ResolveApproval(a, r, action[a]) /\ UNCHANGED action
      BY <1>4, <2>2 DEF HandleWaitTimeout
    <3> HIDE DEF r
    <3> QED BY <3>1, <3>2, ResolvedTold
  <2> QED BY <2>1, <2>2
<1>5. ASSUME NEW a \in Approvals, SweepOne(a) PROVE ToldIsTrue'
  <2>1. CASE request[a] = "granted" /\ Overdue(a)
    <3>1. action[a] \in {"queued", "running"}
      BY <2>1 DEF Overdue
    <3> QED BY <1>5, <2>1, <3>1, SettledTold DEF SweepOne, OverdueStatus, ActionEnds
  <2>2. CASE ~(request[a] = "granted" /\ Overdue(a))
    <3> DEFINE r == IF request[a] = "pending" /\ clock[a] = "expired"
                    THEN "expired" ELSE request[a]
    <3>1. r \in Requests /\ (r = request[a] \/ request[a] = "pending")
      BY DEF TypeOK, Requests
    <3>2. /\ request' = [request EXCEPT ![a] = r]
          /\ ResolveApproval(a, r, action[a]) /\ UNCHANGED action
      BY <1>5, <2>2 DEF SweepOne
    <3> HIDE DEF r
    <3> QED BY <3>1, <3>2, ResolvedTold
  <2> QED BY <2>1, <2>2
<1>6. ASSUME NEW a \in Approvals, SettleToolAction(a) PROVE ToldIsTrue'
  BY <1>6 DEF SettleToolAction, TypeOK, ToldIsTrue, ApprovalOutcome, ActionEnds
<1>7. ASSUME NEW r \in Runners, BeginToolAction(r) PROVE ToldIsTrue'
  <2>1. runner[r].approval \in Approvals
    BY DEF TypeOK
  <2> QED BY <1>7, <2>1
          DEF BeginToolAction, MayBegin, TypeOK, ToldIsTrue, ApprovalOutcome, ActionEnds
<1>8. ASSUME NEW m \in reports, HandleToolReport(m) PROVE ToldIsTrue'
  <2>1. m.approval \in Approvals /\ m.kind \in ActionEnds
    BY DEF TypeOK, Reports, ActionEnds
  <2>2. CASE "retired" \notin holds /\ NextStatus(action[m.approval], m.kind)
    <3>1. action[m.approval] \in {"queued", "running", "unknown"}
      BY <2>2 DEF NextStatus
    <3> QED BY <1>8, <2>1, <2>2, <3>1, SettledTold DEF HandleToolReport
  <2>3. CASE ~("retired" \notin holds /\ NextStatus(action[m.approval], m.kind))
    BY <1>8, <2>3 DEF HandleToolReport, ToldIsTrue
  <2> QED BY <2>2, <2>3
<1>9. CASE KillAll
  BY <1>9 DEF KillAll, WithdrawOpenApprovals, TypeOK, ToldIsTrue, ApprovalOutcome, ActionEnds
<1>10. CASE MoveApprovalsChannel
  BY <1>10 DEF MoveApprovalsChannel, TypeOK, ToldIsTrue, ApprovalOutcome, ActionEnds
<1>11. CASE RetireAgent
  BY <1>11 DEF RetireAgent, WithdrawOpenApprovals, TypeOK, ToldIsTrue, ApprovalOutcome, ActionEnds
<1>12. ASSUME NEW h \in SUBSET {"disabled", "revoked"}, ApplyConfig(h) PROVE ToldIsTrue'
  <2>1. CASE "disabled" \in h \ holds
    BY <1>12, <2>1 DEF ApplyConfig, WithdrawOpenApprovals, TypeOK, ToldIsTrue, ApprovalOutcome,
                       ActionEnds
  <2>2. CASE "disabled" \notin h \ holds
    BY <1>12, <2>2 DEF ApplyConfig, RevokeQueuedActions, TypeOK, ToldIsTrue, ApprovalOutcome,
                       ActionEnds
  <2> QED BY <2>1, <2>2
<1>13. ASSUME UNCHANGED <<request, action, told>> PROVE ToldIsTrue'
  BY <1>13 DEF ToldIsTrue
<1> QED
  <2>1. ASSUME NEW a \in Approvals,
               DeliverCard(a) \/ Tick(a) \/ WaitGone(a) \/ LateCardNotice(a) \/ EditDefinition(a)
        PROVE  UNCHANGED <<request, action, told>>
    BY <2>1 DEF DeliverCard, Tick, WaitGone, LateCardNotice, EditDefinition
  <2>2. ASSUME NEW r \in Runners, NEW a \in Approvals, FetchJob(r, a)
        PROVE  UNCHANGED <<request, action, told>>
    BY <2>2 DEF FetchJob
  <2>3. ASSUME NEW r \in Runners, Perform(r) \/ Report(r) \/ RunnerCrash(r)
        PROVE  UNCHANGED <<request, action, told>>
    BY <2>3 DEF Perform, Report, RunnerCrash
  <2>4. ASSUME Lose \/ SweepSelect \/ ReleaseKillSwitch \/ RestoreAgent \/ UNCHANGED vars
        PROVE  UNCHANGED <<request, action, told>>
    BY <2>4 DEF Lose, SweepSelect, ReleaseKillSwitch, RestoreAgent, vars
  <2> QED BY <1>1, <1>2, <1>3, <1>4, <1>5, <1>6, <1>7, <1>8, <1>9, <1>10, <1>11, <1>12, <1>13,
             <2>1, <2>2, <2>3, <2>4 DEF Next

\* What approval.resolved told the agent stays true; only "unknown" is ever known better.
THEOREM ToldTruth == Spec => []ToldIsTrue
<1>1. Init => TypeOK /\ ToldIsTrue
  BY DEF Init, TypeOK, ToldIsTrue, Requests, Actions, Outcomes, Moments, Steps
<1>2. TypeOK /\ ToldIsTrue /\ [Next]_vars => (TypeOK /\ ToldIsTrue)'
  BY TypeStep, ToldStep
<1> QED BY <1>1, <1>2, PTL DEF Spec

\* Every resolveApproval asks first whether the agent was told.
LEMMA ToldOnceStep ==
    TypeOK /\ [Next]_vars => \A a \in Approvals : told[a] # "none" => told'[a] = told[a]
<1> SUFFICES ASSUME TypeOK, [Next]_vars, NEW a \in Approvals, told[a] # "none" PROVE told'[a] = told[a]
  OBVIOUS
<1>1. ASSUME NEW b, NEW r, NEW t, ResolveApproval(b, r, t) PROVE told'[a] = told[a]
  BY <1>1 DEF TypeOK, ResolveApproval, Unresolved
<1>2. ASSUME NEW b, NEW t, Settled(b, t) PROVE told'[a] = told[a]
  BY <1>1, <1>2 DEF Settled
<1>3. ASSUME NEW b \in Approvals, Deny(b) PROVE told'[a] = told[a]
  BY <1>1, <1>3 DEF Deny
<1>4. ASSUME NEW b \in Approvals, Grant(b) PROVE told'[a] = told[a]
  BY <1>1, <1>4 DEF Grant
<1>5. ASSUME NEW b \in Approvals, HandleWaitTimeout(b) PROVE told'[a] = told[a]
  BY <1>1, <1>2, <1>5 DEF HandleWaitTimeout
<1>6. ASSUME NEW b \in Approvals, SweepOne(b) PROVE told'[a] = told[a]
  BY <1>1, <1>2, <1>6 DEF SweepOne
<1>7. ASSUME NEW m \in reports, HandleToolReport(m) PROVE told'[a] = told[a]
  BY <1>2, <1>7 DEF HandleToolReport
<1>8. ASSUME NEW b \in Approvals,
             \/ CreateApproval(b) \/ DeliverCard(b) \/ Tick(b) \/ WaitGone(b)
             \/ LateCardNotice(b) \/ SettleToolAction(b) \/ EditDefinition(b)
      PROVE  told' = told
  BY <1>8 DEF CreateApproval, DeliverCard, Tick, WaitGone, LateCardNotice, SettleToolAction,
              EditDefinition
<1>9. ASSUME NEW r \in Runners, NEW b \in Approvals, FetchJob(r, b) PROVE told' = told
  BY <1>9 DEF FetchJob
<1>10. ASSUME NEW r \in Runners, BeginToolAction(r) \/ Perform(r) \/ Report(r) \/ RunnerCrash(r)
       PROVE  told' = told
  BY <1>10 DEF BeginToolAction, Perform, Report, RunnerCrash
<1>11. ASSUME \/ Lose \/ SweepSelect \/ KillAll \/ ReleaseKillSwitch \/ MoveApprovalsChannel
              \/ RetireAgent \/ RestoreAgent \/ UNCHANGED vars
       PROVE  told' = told
  BY <1>11 DEF Lose, SweepSelect, KillAll, ReleaseKillSwitch, MoveApprovalsChannel, RetireAgent,
               RestoreAgent, vars
<1>12. ASSUME NEW h \in SUBSET {"disabled", "revoked"}, ApplyConfig(h) PROVE told' = told
  BY <1>12 DEF ApplyConfig
<1> QED BY <1>3, <1>4, <1>5, <1>6, <1>7, <1>8, <1>9, <1>10, <1>11, <1>12 DEF Next

\* However an action is settled, and by however many, the agent is told once.
THEOREM ToldOnlyOnce == Spec => ToldOnce
BY ToldOnceStep, TypeCorrect, PTL DEF Spec, ToldOnce

-----------------------------------------------------------------------------
(* What happened. *)

\* A runner between begin and its report: the only ones that can cause an effect.
Working(r, a) == runner[r].approval = a /\ runner[r].pc \in {"begun", "performed"}

\* An action exists from the grant on.
GrantMakesAction == \A a \in Approvals : action[a] = "none" <=> request[a] # "granted"

\* Begin admits one runner, of an action that is not queued any more; until it reports,
\* the record of the action says running or unknown, unless an operator wrote otherwise.
OneWorker ==
    \A a \in Approvals : \A r \in Runners : Working(r, a) =>
        /\ action[a] \notin {"none", "queued"}
        /\ a \notin byHand => action[a] \in {"running", "unknown"}
        /\ runner[r].pc = "begun" => effects[a] = 0
        /\ runner[r].pc = "performed" => effects[a] = 1
        /\ \A q \in Runners : Working(q, a) => q = r

\* A report speaks of an action whose runner is done with it.
ReportsAreTrue ==
    \A m \in reports :
        /\ action[m.approval] \notin {"none", "queued"}
        /\ \A r \in Runners : ~Working(r, m.approval)
        /\ m.kind = "succeeded" => effects[m.approval] = 1
        /\ m.kind = "failed" => effects[m.approval] = 0

\* What the status of an action says of its effect.
StatusIsTrue ==
    \A a \in Approvals :
        /\ effects[a] \in {0, 1}
        /\ action[a] \in {"none", "queued"} => effects[a] = 0
        /\ a \notin byHand /\ action[a] = "succeeded" => effects[a] = 1
        /\ a \notin byHand /\ action[a] \in {"failed", "cancelled"} => effects[a] = 0
        /\ a \in byHand => action[a] \in {"succeeded", "failed", "cancelled"}

Truth == GrantMakesAction /\ OneWorker /\ ReportsAreTrue /\ StatusIsTrue

\* A settlement by the controller keeps the record true when it says what happened.
LEMMA SettledTruth ==
    ASSUME TypeOK, Truth, NEW a \in Approvals, NEW t \in ActionEnds,
           action[a] \in {"queued", "running", "unknown"},
           t = "succeeded" => effects[a] = 1 /\ action[a] # "queued",
           t \in {"failed", "cancelled"} => effects[a] = 0,
           t # "unknown" => \A r \in Runners : ~Working(r, a),
           action' = [action EXCEPT ![a] = t], reports' \subseteq reports,
           UNCHANGED <<request, runner, effects, byHand>>
    PROVE  Truth'
<1> USE DEF TypeOK, ActionEnds
<1>1. GrantMakesAction'
  BY DEF Truth, GrantMakesAction
<1>2. OneWorker'
  BY DEF Truth, OneWorker, Working, StatusIsTrue
<1>3. ReportsAreTrue'
  BY DEF Truth, ReportsAreTrue, Working, Reports
<1>4. StatusIsTrue'
  BY DEF Truth, StatusIsTrue
<1> QED BY <1>1, <1>2, <1>3, <1>4 DEF Truth

\* What the kill switch, a configuration change and a retirement do to open approvals.
OnlyWithdraws ==
    \A a \in Approvals :
        /\ request'[a] # request[a] => request[a] = "pending" /\ request'[a] = "cancelled"
        /\ action'[a] # action[a] => action[a] = "queued" /\ action'[a] = "cancelled"

\* Requests that are withdrawn and queued actions that are cancelled had no effect.
LEMMA WithdrawnTruth ==
    ASSUME TypeOK, Truth,
           OnlyWithdraws, UNCHANGED <<runner, reports, effects, byHand>>
    PROVE  Truth'
<1> USE DEF TypeOK, OnlyWithdraws
<1>1. GrantMakesAction'
  BY DEF Truth, GrantMakesAction
<1>2. OneWorker'
  BY DEF Truth, OneWorker, Working
<1>3. ReportsAreTrue'
  BY DEF Truth, ReportsAreTrue, Working, Reports
<1>4. StatusIsTrue'
  BY DEF Truth, StatusIsTrue
<1> QED BY <1>1, <1>2, <1>3, <1>4 DEF Truth

\* What changes only the request, not to or from "granted", changes nothing that happened.
LEMMA DecidedTruth ==
    ASSUME TypeOK, Truth, NEW a \in Approvals, NEW r,
           r # "granted", request[a] # "granted", request' = [request EXCEPT ![a] = r],
           UNCHANGED <<action, runner, reports, effects, byHand>>
    PROVE  Truth'
<1>1. GrantMakesAction'
  BY DEF TypeOK, Truth, GrantMakesAction
<1> QED BY <1>1 DEF Truth, OneWorker, Working, ReportsAreTrue, StatusIsTrue

\* Overdue actions are settled by what is known: one that did not begin is cancelled.
LEMMA OverdueTruth ==
    ASSUME TypeOK, Truth, NEW a \in Approvals, action[a] \in {"queued", "running"},
           Settled(a, OverdueStatus(action[a])),
           UNCHANGED <<request, runner, reports, effects, byHand>>
    PROVE  Truth'
<1>1. OverdueStatus(action[a]) \in ActionEnds
  BY DEF OverdueStatus, ActionEnds
<1>2. OverdueStatus(action[a]) # "unknown" => action[a] = "queued"
  BY DEF OverdueStatus
<1>3. OverdueStatus(action[a]) # "succeeded"
  BY DEF OverdueStatus
<1>4. action[a] = "queued" => effects[a] = 0 /\ \A r \in Runners : ~Working(r, a)
  BY DEF Truth, StatusIsTrue, OneWorker
<1> QED BY <1>1, <1>2, <1>3, <1>4, SettledTruth DEF Settled, ActionEnds

\* Every action of the specification preserves Truth.
LEMMA TruthStep == TypeOK /\ Truth /\ [Next]_vars => Truth'
<1> SUFFICES ASSUME TypeOK, Truth, [Next]_vars PROVE Truth'
  OBVIOUS
<1>1. ASSUME NEW a \in Approvals, CreateApproval(a) PROVE Truth'
  BY <1>1, DecidedTruth DEF CreateApproval, tools
<1>2. ASSUME NEW a \in Approvals, Deny(a) PROVE Truth'
  BY <1>2, DecidedTruth DEF Deny, Decidable, tools
<1>3. ASSUME NEW a \in Approvals, Grant(a) PROVE Truth'
  <2>1. CASE Refused(a)
    BY <1>3, <2>1, DecidedTruth DEF Grant, Decidable
  <2>2. CASE ~Refused(a)
    <3>1. /\ request[a] = "pending" /\ request' = [request EXCEPT ![a] = "granted"]
          /\ action' = [action EXCEPT ![a] = "queued"]
          /\ UNCHANGED <<runner, effects, reports, byHand>>
      BY <1>3, <2>2 DEF Grant, Decidable
    <3>2. action[a] = "none"
      BY <3>1 DEF Truth, GrantMakesAction
    <3>3. GrantMakesAction'
      BY <3>1 DEF TypeOK, Truth, GrantMakesAction
    <3>4. OneWorker'
      BY <3>1, <3>2 DEF TypeOK, Truth, OneWorker, Working
    <3>5. ReportsAreTrue'
      BY <3>1, <3>2 DEF TypeOK, Truth, ReportsAreTrue, Working, Reports
    <3>6. StatusIsTrue'
      BY <3>1, <3>2 DEF TypeOK, Truth, StatusIsTrue
    <3> QED BY <3>3, <3>4, <3>5, <3>6 DEF Truth
  <2> QED BY <2>1, <2>2
<1>4. ASSUME NEW a \in Approvals, HandleWaitTimeout(a) PROVE Truth'
  <2>1. CASE request[a] = "granted" /\ action[a] \in {"queued", "running"}
    BY <1>4, <2>1, OverdueTruth DEF HandleWaitTimeout, tools
  <2>2. CASE request[a] = "pending"
    BY <1>4, <2>2, DecidedTruth DEF HandleWaitTimeout, tools
  <2>3. CASE request[a] # "pending" /\ ~(request[a] = "granted" /\ action[a] \in {"queued", "running"})
    <3>1. request' = request /\ UNCHANGED <<action, runner, reports, effects, byHand>>
      BY <1>4, <2>3 DEF TypeOK, HandleWaitTimeout, tools
    <3> QED BY <3>1 DEF Truth, GrantMakesAction, OneWorker, Working, ReportsAreTrue, StatusIsTrue
  <2> QED BY <2>1, <2>2, <2>3
<1>5. ASSUME NEW a \in Approvals, SweepOne(a) PROVE Truth'
  <2>1. CASE request[a] = "granted" /\ Overdue(a)
    <3>1. action[a] \in {"queued", "running"}
      BY <2>1 DEF Overdue
    <3> QED BY <1>5, <2>1, <3>1, OverdueTruth DEF SweepOne, tools
  <2>2. CASE request[a] = "pending" /\ clock[a] = "expired"
    BY <1>5, <2>2, DecidedTruth DEF SweepOne, tools
  <2>3. CASE ~(request[a] = "pending" /\ clock[a] = "expired") /\ ~(request[a] = "granted" /\ Overdue(a))
    <3>1. request' = request /\ UNCHANGED <<action, runner, reports, effects, byHand>>
      BY <1>5, <2>3 DEF TypeOK, SweepOne, tools
    <3> QED BY <3>1 DEF Truth, GrantMakesAction, OneWorker, Working, ReportsAreTrue, StatusIsTrue
  <2> QED BY <2>1, <2>2, <2>3
<1>6. ASSUME NEW a \in Approvals, SettleToolAction(a) PROVE Truth'
  <2> PICK t \in {"succeeded", "failed", "cancelled"} : action' = [action EXCEPT ![a] = t]
    BY <1>6 DEF SettleToolAction
  <2>1. /\ action[a] = "unknown" /\ byHand' = byHand \cup {a}
        /\ UNCHANGED <<request, runner, reports, effects>>
    BY <1>6 DEF SettleToolAction, tools
  <2>2. GrantMakesAction'
    BY <2>1 DEF TypeOK, Truth, GrantMakesAction
  <2>3. OneWorker'
    BY <2>1 DEF TypeOK, Truth, OneWorker, Working
  <2>4. ReportsAreTrue'
    BY <2>1 DEF TypeOK, Truth, ReportsAreTrue, Working, Reports
  <2>5. StatusIsTrue'
    BY <2>1 DEF TypeOK, Truth, StatusIsTrue
  <2> QED BY <2>2, <2>3, <2>4, <2>5 DEF Truth
<1>7. ASSUME NEW r \in Runners, NEW a \in Approvals, FetchJob(r, a) PROVE Truth'
  <2>1. /\ runner[r].pc = "idle"
        /\ runner' = [runner EXCEPT ![r] = [pc |-> "fetched", approval |-> a]]
        /\ UNCHANGED <<request, action, effects, reports, byHand>>
    BY <1>7 DEF FetchJob
  <2>2. OneWorker'
    BY <2>1 DEF TypeOK, Truth, OneWorker, Working
  <2>3. ReportsAreTrue'
    BY <2>1 DEF TypeOK, Truth, ReportsAreTrue, Working, Reports
  <2> QED BY <2>1, <2>2, <2>3 DEF Truth, GrantMakesAction, StatusIsTrue
<1>8. ASSUME NEW r \in Runners, BeginToolAction(r) PROVE Truth'
  <2> DEFINE a == runner[r].approval
  <2>1. a \in Approvals /\ runner[r].pc = "fetched"
    BY <1>8 DEF TypeOK, BeginToolAction
  <2>2. CASE MayBegin(a)
    <3>1. /\ runner' = [runner EXCEPT ![r].pc = "begun"]
          /\ action' = [action EXCEPT ![a] = "running"] /\ action[a] = "queued"
          /\ UNCHANGED <<request, effects, reports, byHand>>
      BY <1>8, <2>2 DEF BeginToolAction, MayBegin, Moves
    <3>2. effects[a] = 0 /\ \A q \in Runners : ~Working(q, a)
      BY <2>1, <3>1 DEF Truth, StatusIsTrue, OneWorker
    <3>3. \A q \in Runners : \A b \in Approvals : Working(q, b)' <=> Working(q, b) \/ (q = r /\ b = a)
      BY <2>1, <3>1 DEF TypeOK, Working
    <3>4. GrantMakesAction'
      BY <2>1, <3>1 DEF TypeOK, Truth, GrantMakesAction
    <3>5. OneWorker'
      <4>1. \A q \in Runners : q # r => runner'[q] = runner[q]
        BY <3>1 DEF TypeOK
      <4>2. runner'[r].pc = "begun"
        BY <3>1 DEF TypeOK
      <4>3. action \in [Approvals -> Actions] /\ a \notin byHand
        BY <2>1, <3>1 DEF TypeOK, Truth, StatusIsTrue
      <4>4. /\ action'[a] = "running" /\ effects'[a] = 0 /\ byHand' = byHand
            /\ \A b \in Approvals : b # a => action'[b] = action[b] /\ effects'[b] = effects[b]
        BY <2>1, <3>1, <3>2, <4>3
      <4>5. ASSUME NEW b \in Approvals, NEW q \in Runners, Working(q, b)'
            PROVE  /\ action'[b] \notin {"none", "queued"}
                   /\ b \notin byHand' => action'[b] \in {"running", "unknown"}
                   /\ runner'[q].pc = "begun" => effects'[b] = 0
                   /\ runner'[q].pc = "performed" => effects'[b] = 1
                   /\ \A p \in Runners : Working(p, b)' => p = q
        <5> HIDE DEF a
        <5>1. CASE b = a
          <6>1. q = r /\ \A p \in Runners : Working(p, b)' => p = r
            BY <2>1, <3>2, <3>3, <4>5, <5>1
          <6> QED BY <4>2, <4>4, <5>1, <6>1
        <5>2. CASE b # a
          <6>1. Working(q, b) /\ \A p \in Runners : Working(p, b)' => Working(p, b)
            BY <3>3, <4>5, <5>2
          <6>2. q # r
            BY <2>1, <6>1 DEF Working
          <6> QED BY <4>1, <4>4, <5>2, <6>1, <6>2 DEF Truth, OneWorker
        <5> QED BY <5>1, <5>2
      <4> QED BY <4>5 DEF OneWorker
    <3>6. ReportsAreTrue'
      <4>1. \A m \in reports : m.approval \in Approvals /\ m.approval # a
        BY <3>1 DEF TypeOK, Reports, Truth, ReportsAreTrue
      <4> QED BY <2>1, <3>1, <3>3, <4>1 DEF TypeOK, Truth, ReportsAreTrue
    <3>7. StatusIsTrue'
      BY <2>1, <3>1 DEF TypeOK, Truth, StatusIsTrue
    <3> QED BY <3>4, <3>5, <3>6, <3>7 DEF Truth
  <2>3. CASE ~MayBegin(a)
    <3>1. runner' = [runner EXCEPT ![r].pc = "idle"]
          /\ UNCHANGED <<request, action, effects, reports, byHand>>
      BY <1>8, <2>3 DEF BeginToolAction, Moves
    <3>2. OneWorker'
      BY <2>1, <3>1 DEF TypeOK, Truth, OneWorker, Working
    <3>3. ReportsAreTrue'
      BY <2>1, <3>1 DEF TypeOK, Truth, ReportsAreTrue, Working, Reports
    <3> QED BY <3>1, <3>2, <3>3 DEF Truth, GrantMakesAction, StatusIsTrue
  <2> QED BY <2>2, <2>3
<1>9. ASSUME NEW r \in Runners, Perform(r) PROVE Truth'
  <2> DEFINE a == runner[r].approval
  <2>1. /\ runner[r].pc = "begun" /\ runner' = [runner EXCEPT ![r].pc = "performed"]
        /\ effects' = [effects EXCEPT ![a] = @ + 1]
        /\ UNCHANGED <<request, action, reports, byHand>>
    BY <1>9 DEF Perform, Moves
  <2>2. a \in Approvals /\ Working(r, a)
    BY <2>1 DEF TypeOK, Working
  <2>3. effects[a] = 0 /\ action[a] \notin {"none", "queued"}
        /\ (a \notin byHand => action[a] \in {"running", "unknown"})
    BY <2>1, <2>2 DEF Truth, OneWorker
  <2>4. effects'[a] = 1 /\ \A b \in Approvals : b # a => effects'[b] = effects[b]
    BY <2>1, <2>2, <2>3 DEF TypeOK
  <2>5. \A q \in Runners : \A b \in Approvals : Working(q, b)' <=> Working(q, b)
    BY <2>1, <2>2 DEF TypeOK, Working
  <2>6. runner'[r].pc = "performed" /\ \A q \in Runners : q # r => runner'[q] = runner[q]
    BY <2>1 DEF TypeOK
  <2>7. OneWorker'
    <3>1. \A b \in Approvals : Working(r, b) => b = a
      BY DEF Working
    <3> HIDE DEF a
    <3> QED BY <2>1, <2>2, <2>3, <2>4, <2>5, <2>6, <3>1 DEF Truth, OneWorker
  <2>8. ReportsAreTrue'
    <3>1. \A m \in reports : m.approval \in Approvals /\ m.approval # a
      BY <2>2 DEF TypeOK, Reports, Truth, ReportsAreTrue
    <3> QED BY <2>1, <2>4, <2>5, <3>1 DEF Truth, ReportsAreTrue
  <2>9. StatusIsTrue'
    <3> HIDE DEF a
    <3> QED BY <2>1, <2>2, <2>3, <2>4 DEF Truth, StatusIsTrue
  <2> QED BY <2>1, <2>7, <2>8, <2>9 DEF Truth, GrantMakesAction
<1>10. ASSUME NEW r \in Runners, Report(r) PROVE Truth'
  <2> DEFINE a == runner[r].approval
  <2>1. PICK kind \in {"succeeded", "failed", "unknown"} :
          /\ \/ runner[r].pc = "performed" /\ kind # "failed"
             \/ runner[r].pc = "begun" /\ kind # "succeeded"
          /\ reports' = reports \cup {[approval |-> a, kind |-> kind]}
    BY <1>10 DEF Report
  <2>2. /\ runner' = [runner EXCEPT ![r].pc = "idle"]
        /\ UNCHANGED <<request, action, effects, byHand>>
    BY <1>10 DEF Report, Moves
  <2>3. a \in Approvals /\ Working(r, a)
    BY <2>1 DEF TypeOK, Working
  <2>4. \A q \in Runners : \A b \in Approvals : Working(q, b)' <=> Working(q, b) /\ q # r
    BY <2>2 DEF TypeOK, Working
  <2>5. \A q \in Runners : q # r => runner'[q] = runner[q]
    BY <2>2 DEF TypeOK
  <2>6. OneWorker'
    BY <2>2, <2>4, <2>5 DEF Truth, OneWorker
  <2>7. /\ action[a] \notin {"none", "queued"} /\ \A q \in Runners : Working(q, a) => q = r
        /\ kind = "succeeded" => effects[a] = 1
        /\ kind = "failed" => effects[a] = 0
    BY <2>1, <2>3 DEF Truth, OneWorker
  <2>8. ReportsAreTrue'
    <3>1. \A m \in reports : m.approval \in Approvals
      BY DEF TypeOK, Reports
    <3> HIDE DEF a
    <3> QED BY <2>1, <2>2, <2>3, <2>4, <2>7, <3>1 DEF Truth, ReportsAreTrue
  <2> QED BY <2>2, <2>6, <2>8 DEF Truth, GrantMakesAction, StatusIsTrue
<1>11. ASSUME NEW r \in Runners, RunnerCrash(r) PROVE Truth'
  <2>1. /\ runner' = [runner EXCEPT ![r].pc = "idle"]
        /\ UNCHANGED <<request, action, effects, reports, byHand>>
    BY <1>11 DEF RunnerCrash, Moves
  <2>2. OneWorker'
    BY <2>1 DEF TypeOK, Truth, OneWorker, Working
  <2>3. ReportsAreTrue'
    BY <2>1 DEF TypeOK, Truth, ReportsAreTrue, Working, Reports
  <2> QED BY <2>1, <2>2, <2>3 DEF Truth, GrantMakesAction, StatusIsTrue
<1>12. ASSUME NEW m \in reports, HandleToolReport(m) PROVE Truth'
  <2>1. m.approval \in Approvals /\ m.kind \in {"succeeded", "failed", "unknown"}
    BY DEF TypeOK, Reports
  <2>2. reports' \subseteq reports /\ UNCHANGED <<request, runner, effects, byHand>>
    BY <1>12 DEF HandleToolReport, tools
  <2>3. CASE "retired" \notin holds /\ NextStatus(action[m.approval], m.kind)
    <3>1. action' = [action EXCEPT ![m.approval] = m.kind]
      BY <1>12, <2>3 DEF HandleToolReport, Settled
    <3>2. action[m.approval] \in {"queued", "running", "unknown"}
      BY <2>3 DEF NextStatus
    <3>3. /\ m.kind = "succeeded" => effects[m.approval] = 1 /\ action[m.approval] # "queued"
          /\ m.kind = "failed" => effects[m.approval] = 0
          /\ \A r \in Runners : ~Working(r, m.approval)
      BY <2>3 DEF Truth, ReportsAreTrue
    <3> QED BY <2>1, <2>2, <3>1, <3>2, <3>3, SettledTruth DEF ActionEnds
  <2>4. CASE ~("retired" \notin holds /\ NextStatus(action[m.approval], m.kind))
    BY <1>12, <2>2, <2>4 DEF HandleToolReport, Truth, GrantMakesAction, OneWorker, Working,
                             ReportsAreTrue, StatusIsTrue
  <2> QED BY <2>3, <2>4
<1>13. CASE Lose
  BY <1>13 DEF Lose, Truth, GrantMakesAction, OneWorker, Working, ReportsAreTrue, StatusIsTrue
<1>14. CASE KillAll \/ RetireAgent
  <2>1. OnlyWithdraws
    BY <1>14 DEF KillAll, RetireAgent, WithdrawOpenApprovals, OnlyWithdraws
  <2>2. UNCHANGED <<runner, reports, effects, byHand>>
    BY <1>14 DEF KillAll, RetireAgent, tools
  <2> QED BY <2>1, <2>2, WithdrawnTruth
<1>15. CASE MoveApprovalsChannel
  <2>1. OnlyWithdraws
    BY <1>15 DEF MoveApprovalsChannel, OnlyWithdraws
  <2>2. UNCHANGED <<runner, reports, effects, byHand>>
    BY <1>15 DEF MoveApprovalsChannel, tools
  <2> QED BY <2>1, <2>2, WithdrawnTruth
<1>16. ASSUME NEW h \in SUBSET {"disabled", "revoked"}, ApplyConfig(h) PROVE Truth'
  <2>1. CASE "disabled" \in h \ holds
    BY <1>16, <2>1, WithdrawnTruth DEF ApplyConfig, WithdrawOpenApprovals, OnlyWithdraws, tools
  <2>2. CASE "disabled" \notin h \ holds
    <3>1. OnlyWithdraws
      BY <1>16, <2>2 DEF ApplyConfig, RevokeQueuedActions, OnlyWithdraws
    <3>2. UNCHANGED <<runner, reports, effects, byHand>>
      BY <1>16 DEF ApplyConfig, tools
    <3> QED BY <3>1, <3>2, WithdrawnTruth
  <2> QED BY <2>1, <2>2
<1>17. ASSUME UNCHANGED <<request, action, runner, reports, effects, byHand>> PROVE Truth'
  BY <1>17 DEF Truth, GrantMakesAction, OneWorker, Working, ReportsAreTrue, StatusIsTrue
<1> QED
  <2>1. ASSUME NEW a \in Approvals,
               DeliverCard(a) \/ Tick(a) \/ WaitGone(a) \/ LateCardNotice(a) \/ EditDefinition(a)
        PROVE  UNCHANGED <<request, action, runner, reports, effects, byHand>>
    BY <2>1 DEF DeliverCard, Tick, WaitGone, LateCardNotice, EditDefinition, tools
  <2>2. ASSUME SweepSelect \/ ReleaseKillSwitch \/ RestoreAgent \/ UNCHANGED vars
        PROVE  UNCHANGED <<request, action, runner, reports, effects, byHand>>
    BY <2>2 DEF SweepSelect, ReleaseKillSwitch, RestoreAgent, vars, tools
  <2> QED BY <1>1, <1>2, <1>3, <1>4, <1>5, <1>6, <1>7, <1>8, <1>9, <1>10, <1>11, <1>12, <1>13,
             <1>14, <1>15, <1>16, <1>17, <2>1, <2>2 DEF Next

\* The inductive invariant holds of every behaviour.
LEMMA TruthHolds == Spec => [](TypeOK /\ Truth)
<1>1. Init => TypeOK /\ Truth
  BY DEF Init, TypeOK, Truth, GrantMakesAction, OneWorker, Working, ReportsAreTrue, StatusIsTrue,
         Requests, Actions, Outcomes, Moments, Steps
<1>2. TypeOK /\ Truth /\ [Next]_vars => (TypeOK /\ Truth)'
  BY TypeStep, TruthStep
<1> QED BY <1>1, <1>2, PTL DEF Spec

\* The provider performs an action at most once, and only one that was granted.
THEOREM ApprovedOnce == Spec => []EffectsAreApproved
<1>1. ASSUME Truth, NEW a \in Approvals
      PROVE  effects[a] <= 1 /\ (effects[a] = 1 => request[a] = "granted")
  <2>1. effects[a] \in {0, 1} /\ (action[a] = "none" => effects[a] = 0)
    BY <1>1 DEF Truth, StatusIsTrue
  <2>2. action[a] # "none" => request[a] = "granted"
    BY <1>1 DEF Truth, GrantMakesAction
  <2> QED BY <2>1, <2>2
<1>2. TypeOK /\ Truth => EffectsAreApproved
  BY <1>1 DEF EffectsAreApproved
<1> QED BY <1>2, TruthHolds, PTL

\* What the record says happened is what happened, unless an operator said so.
THEOREM TrueRecord == Spec => []RecordIsTrue
<1>1. TypeOK /\ Truth => RecordIsTrue
  BY DEF TypeOK, Truth, OneWorker, Working, StatusIsTrue, RecordIsTrue
<1> QED BY <1>1, TruthHolds, PTL

-----------------------------------------------------------------------------
(* Configuration: how the tools' attachments compile. *)


\* Two tools.
LEMMA ToolsAre ==
    /\ \A t \in Tools : t = "run" \/ t = "write"
    /\ "run" \in Tools /\ "write" \in Tools
    /\ Implied("run") = {"write"} /\ Implied("write") = {}
BY DEF Tools, Implied

\* compileAttachments, tool by tool.
LEMMA CompileIs ==
    ASSUME NEW attach \in [Tools -> Modes], NEW l \in SUBSET Tools
    PROVE  LET c == Compile(attach, l)
           IN  /\ c \in [Tools -> Levels]
               /\ c["run"] = IF "run" \notin l THEN "none"
                             ELSE IF attach["run"] = "allow" THEN "allow"
                             ELSE IF attach["run"] = "disabled" THEN "deny" ELSE "none"
               /\ c["write"] = IF "write" \in l /\ attach["write"] = "allow" THEN "allow"
                               ELSE IF "write" \in l /\ attach["write"] = "disabled" THEN "deny"
                               ELSE IF ~("run" \in l /\ attach["run"] = "allow") THEN "none"
                               ELSE IF "write" \in l THEN "allow" ELSE "deny"
<1>1. \A t \in Tools : t \in Granted(attach, l) <=> t \in l /\ attach[t] = "allow"
  BY DEF Granted
<1>2. "run" \notin Implications(attach, l)
  BY ToolsAre DEF Implications, Granted
<1>3. "write" \in Implications(attach, l) <=> "run" \in l /\ attach["run"] = "allow"
  <2>1. ASSUME "write" \in Implications(attach, l) PROVE "run" \in l /\ attach["run"] = "allow"
    <3>1. PICK t \in Granted(attach, l) : "write" \in Implied(t)
      BY <2>1 DEF Implications
    <3>2. t = "run"
      BY <3>1, ToolsAre DEF Granted
    <3> QED BY <3>1, <3>2, <1>1, ToolsAre
  <2>2. ASSUME "run" \in l, attach["run"] = "allow" PROVE "write" \in Implications(attach, l)
    <3>1. "run" \in Granted(attach, l) /\ "write" \in Implied("run")
      BY <2>2, <1>1, ToolsAre
    <3> QED BY <3>1 DEF Implications
  <2> QED BY <2>1, <2>2
<1> DEFINE G == Granted(attach, l)
           I == Implications(attach, l)
<1>4. Compile(attach, l) =
        [t \in Tools |-> CASE t \in G -> "allow"
                           [] t \in l /\ attach[t] = "disabled" -> "deny"
                           [] OTHER -> IF t \notin I THEN "none"
                                       ELSE IF t \in l THEN "allow" ELSE "deny"]
  BY DEF Compile
<1> HIDE DEF G, I
<1>5. /\ "run" \in G <=> "run" \in l /\ attach["run"] = "allow"
      /\ "write" \in G <=> "write" \in l /\ attach["write"] = "allow"
      /\ "run" \notin I
      /\ "write" \in I <=> "run" \in l /\ attach["run"] = "allow"
  BY <1>1, <1>2, <1>3, ToolsAre DEF G, I
<1>6. Compile(attach, l)["run"] = IF "run" \notin l THEN "none"
                             ELSE IF attach["run"] = "allow" THEN "allow"
                             ELSE IF attach["run"] = "disabled" THEN "deny" ELSE "none"
  BY <1>4, <1>5, ToolsAre
<1>7. Compile(attach, l)["write"] = 
                               IF "write" \in l /\ attach["write"] = "allow" THEN "allow"
                               ELSE IF "write" \in l /\ attach["write"] = "disabled" THEN "deny"
                               ELSE IF ~("run" \in l /\ attach["run"] = "allow") THEN "none"
                               ELSE IF "write" \in l THEN "allow" ELSE "deny"
  BY <1>4, <1>5, ToolsAre
<1>8. Compile(attach, l) \in [Tools -> Levels]
  BY <1>4, <1>6, <1>7, ToolsAre DEF Levels
<1> QED BY <1>6, <1>7, <1>8

\* legacyAttachmentsFromPermissions.
LEMMA ConversionIs ==
    ASSUME NEW perms \in [Tools -> Levels], NEW l \in SUBSET Tools
    PROVE  /\ Conversion(perms, l) \in [Tools -> Modes]
           /\ \A t \in Tools : Conversion(perms, l)[t] =
                 IF t \notin l THEN "none" ELSE IF perms[t] = "allow" THEN "allow"
                 ELSE IF perms[t] = "deny" THEN "disabled" ELSE "none"
BY DEF Conversion, Modes

\* nativeToolGrants.
LEMMA AbilitiesAre ==
    ASSUME NEW perms \in [Tools -> Levels]
    PROVE  /\ "run" \in Abilities(perms) <=> perms["run"] = "allow" /\ perms["write"] # "deny"
           /\ "write" \in Abilities(perms) <=>
                \/ perms["run"] = "allow" /\ perms["write"] # "deny"
                \/ perms["write"] = "allow"
           /\ Abilities(perms) \subseteq Tools
BY ToolsAre DEF Abilities

\* A tool the agent gains is one that was widened, or one that only waited for it.
LEMMA WidenedUnlocks ==
    ASSUME NEW before \in [Tools -> Levels], NEW attach \in [Tools -> Modes], NEW l \in SUBSET Tools,
           NEW accept \in SUBSET Tools, WidenedTools(before, Compile(attach, l)) \subseteq accept
    PROVE  Abilities(Compile(attach, l)) \subseteq Abilities(before) \cup Unlocked(accept)
<1> DEFINE after == Compile(attach, l)
<1>1. after \in [Tools -> Levels] /\ (after["run"] = "allow" => after["write"] # "none")
  BY CompileIs
<1> HIDE DEF after
<1>2. \A t \in Tools : after[t] = "allow" /\ before[t] # "allow" => t \in accept
  BY DEF WidenedTools, after
<1>3. /\ "run" \in accept => "run" \in Unlocked(accept)
      /\ "write" \in accept => "run" \in Unlocked(accept) /\ "write" \in Unlocked(accept)
  BY ToolsAre DEF Unlocked
<1>4. /\ "run" \in Abilities(after) <=> after["run"] = "allow" /\ after["write"] # "deny"
      /\ "write" \in Abilities(after) <=>
           \/ after["run"] = "allow" /\ after["write"] # "deny"
           \/ after["write"] = "allow"
      /\ Abilities(after) \subseteq Tools
  BY <1>1, AbilitiesAre
<1>5. after["write"] \in {"none", "allow", "deny"}
  BY <1>1, ToolsAre DEF Levels
<1>6. \A t \in Abilities(after) : t \in Abilities(before) \cup Unlocked(accept)
  BY <1>1, <1>2, <1>3, <1>4, <1>5, AbilitiesAre, ToolsAre
<1> QED BY <1>6 DEF after

\* The conversion of hand written lists, even one some entries of which were deleted since, grants
\* nothing the lists did not, and keeps their denials.
LEMMA ConversionGrantsNothing ==
    ASSUME NEW perms \in [Tools -> Levels], NEW seen \in SUBSET Tools, NEW l \in SUBSET seen
    PROVE  LET attach == Conversion(perms, seen)
           IN (\A t \in Tools \ l : attach[t] = "none")
              => Abilities(Compile(attach, l)) \subseteq Abilities(perms)
<1> DEFINE attach == Conversion(perms, seen)
           after == Compile(attach, l)
<1>1. attach \in [Tools -> Modes] /\ l \in SUBSET Tools
  BY ConversionIs
<1>2. \A t \in Tools : attach[t] =
                 IF t \notin seen THEN "none" ELSE IF perms[t] = "allow" THEN "allow"
                 ELSE IF perms[t] = "deny" THEN "disabled" ELSE "none"
  BY ConversionIs
<1>3. /\ after \in [Tools -> Levels]
      /\ after["run"] = IF "run" \notin l THEN "none"
                             ELSE IF attach["run"] = "allow" THEN "allow"
                             ELSE IF attach["run"] = "disabled" THEN "deny" ELSE "none"
      /\ after["write"] = IF "write" \in l /\ attach["write"] = "allow" THEN "allow"
                               ELSE IF "write" \in l /\ attach["write"] = "disabled" THEN "deny"
                               ELSE IF ~("run" \in l /\ attach["run"] = "allow") THEN "none"
                               ELSE IF "write" \in l THEN "allow" ELSE "deny"
  BY <1>1, CompileIs
<1> HIDE DEF attach, after
<1>4. (\A t \in Tools \ l : attach[t] = "none") =>
        \A t \in Abilities(after) : t \in Abilities(perms)
  BY <1>2, <1>3, AbilitiesAre, ToolsAre
<1> QED BY <1>4 DEF attach, after

\* What an attachment of another tool leaves of a denial.
LEMMA DenialStays ==
    ASSUME NEW attach \in [Tools -> Modes], NEW l \in SUBSET Tools, NEW t \in Tools,
           t \in l => attach[t] = "disabled"
    PROVE  Compile(attach, l)[t] # "allow"
BY CompileIs, ToolsAre

\* A denial compiled from attachments is an explicit one, or that of a deleted entry.
LEMMA DenialIsExplicit ==
    ASSUME NEW attach \in [Tools -> Modes], NEW l \in SUBSET Tools, NEW t \in Tools,
           Compile(attach, l)[t] = "deny", t \in l
    PROVE  attach[t] = "disabled"
BY CompileIs, ToolsAre

-----------------------------------------------------------------------------
\* The answers to a submission.
Answers == {"none", "ok", "conflict", "invalid", "widens"}
Refusals == {"conflict", "invalid", "widens"}

\* What a revision may add to what the agent could do, given the lists before it.
GrowsByGrant(r, before) ==
    /\ r.by \in {"detach", "delete", "adopt"} =>
         Abilities(r.def.perms) \subseteq Abilities(before) \cup Unlocked(r.accept)
    /\ r.by = "attach" => \A t \in Tools \ {r.tool} : before[t] = "deny" => r.def.perms[t] # "allow"

\* An agent that is not configured has no attachments.
Bare(d) == d.in = FALSE => d.managed = FALSE /\ d.attach = NoAttachments

\* A journal whose keys are among the first n.
SoundJournal(j, n) ==
    /\ j \in Seq(Revisions) /\ j # <<>> /\ j[1].def.in = TRUE
    /\ \A i \in DOMAIN j : Bare(j[i].def) /\ j[i].key <= n
    /\ \A i \in 2..Len(j) : GrowsByGrant(j[i], j[i - 1].def.perms)

\* The row is the projection of the newest revision d; an older release leaves the attachments.
Agrees(d, r, l, rel) ==
    /\ d.in = r.in
    /\ rel = "current" => r.managed = d.managed /\ r.attach = d.attach
    /\ r.in = TRUE /\ d.managed = TRUE => d.perms = Compile(d.attach, l)
    /\ r.in = TRUE /\ d.managed = FALSE => r.perms = d.perms

\* What a page holds was read from the revision it is based on; the entries its conversion was
\* made for include those that are live.
ReadFrom(p, j, l) ==
    p.pc # "idle" =>
        /\ p.kind \in RequestKinds
        /\ p.kind \in {"patch", "attach", "adopt"} =>
             p.base \in DOMAIN j /\ j[p.base].def.in = TRUE
        /\ p.kind = "patch" => p.seen = j[p.base].def /\ \A f \in p.draft : p.seen[f] = p.edited[f]
        /\ p.kind \in {"attach", "adopt"} =>
             \E known \in SUBSET Tools :
                l \subseteq known /\ p.plan.attach = Conversion(j[p.base].def.perms, known)
        /\ p.kind = "adopt" /\ p.pc = "ready" => j[p.base].def.managed = FALSE
        /\ p.kind \in {"rollback", "import"} => Bare(p.plan)

\* When a page has a key: from its submission on.
KeyFits(p) ==
    /\ p.pc = "idle" => p.key = 0
    /\ p.pc = "open" /\ p.key # 0 => p.kind \in {"attach", "update"}
    /\ p.pc = "ready" => p.key # 0

Unused(j, k) == \A i \in DOMAIN j : j[i].key # k

\* A key belongs to one page, which has no answer yet, and a key that was refused is in no revision.
KeysFit(j, pages, sh) ==
    /\ \A e \in Editors : /\ KeyFits(pages[e]) /\ pages[e].key <= Len(sh)
                          /\ pages[e].key # 0 => sh[pages[e].key] = "none"
    /\ \A e, f \in Editors : pages[e].key # 0 /\ pages[e].key = pages[f].key => e = f
    /\ \A k \in 1..Len(sh) : sh[k] \in Refusals => Unused(j, k)

ConfigInv ==
    /\ ConfigTypeOK
    /\ SoundJournal(journal, Len(shown))
    /\ Agrees(Newest(journal), row, live, release)
    /\ \A e \in Editors : ReadFrom(page[e], journal, live)
    /\ KeysFit(journal, page, shown)

Extends(j, k) == k \in Seq(Revisions) /\ Len(j) <= Len(k) /\ \A i \in 1..Len(j) : k[i] = j[i]

-----------------------------------------------------------------------------
\* No attachments, no page, no agent.
LEMMA Empties ==
    /\ NoAttachments \in [Tools -> Levels] /\ NoAttachments \in [Tools -> Modes]
    /\ Absent \in Definitions /\ Absent.in = FALSE /\ Bare(Absent)
    /\ NoPage \in Pages /\ NoPage.pc = "idle" /\ NoPage.key = 0
    /\ NoPage.tool \in Tools /\ NoPage.accept = {}
<1>1. NoAttachments \in [Tools -> Levels] /\ NoAttachments \in [Tools -> Modes]
  BY DEF NoAttachments, Levels, Modes
<1>2. Absent \in Definitions /\ Absent.in = FALSE /\ Bare(Absent)
  BY <1>1 DEF Absent, Definitions, Bare
<1>3. MaxRequests \in Nat
  BY ConfigurationAssumption
<1>4. "run" \in Tools
  BY ToolsAre
<1>5. NoPage \in Pages
  BY <1>1, <1>2, <1>3, <1>4 DEF NoPage, Pages, AllRequests, Modes
<1> QED BY <1>1, <1>2, <1>4, <1>5 DEF NoPage

\* mirrorCompiledAttachmentPermissions.
LEMMA MirrorIs ==
    ASSUME NEW d \in Definitions, live \subseteq Tools
    PROVE  /\ Mirror(d) \in Definitions /\ Mirror(d).in = d.in /\ Mirror(d).managed = d.managed
           /\ Mirror(d).attach = d.attach /\ Mirror(d).enabled = d.enabled
           /\ d.managed = TRUE => Mirror(d).perms = Compile(d.attach, live)
           /\ d.managed = FALSE => Mirror(d).perms = d.perms
<1> DEFINE c == Compile(d.attach, live)
<1>1. d.attach \in [Tools -> Modes] /\ d.managed \in BOOLEAN
  BY DEF Definitions
<1>2. c \in [Tools -> Levels]
  BY <1>1, CompileIs
<1> HIDE DEF c
<1> DEFINE m == [d EXCEPT !.perms = c]
<1>3. /\ m \in Definitions /\ m.in = d.in /\ m.managed = d.managed
      /\ m.attach = d.attach /\ m.enabled = d.enabled /\ m.perms = c
  BY <1>2 DEF Definitions
<1>4. d.managed = TRUE => Mirror(d) = m
  BY DEF Mirror, c
<1>5. d.managed = FALSE => Mirror(d) = d
  BY DEF Mirror
<1> HIDE DEF m
<1>6. CASE d.managed = TRUE
  BY <1>3, <1>4, <1>6 DEF c
<1>7. CASE d.managed = FALSE
  BY <1>5, <1>7
<1> QED BY <1>1, <1>6, <1>7

\* writeConfigRevisionIn on the row.
LEMMA ProjectedAgrees ==
    ASSUME NEW d \in Definitions, row \in Definitions, live \subseteq Tools, Bare(d), NEW rel
    PROVE  /\ Projected(Mirror(d)) \in Definitions
           /\ Agrees(Mirror(d), Projected(Mirror(d)), live, rel)
<1> DEFINE m == Mirror(d)
<1>1. /\ m \in Definitions /\ m.in = d.in /\ m.managed = d.managed
      /\ m.attach = d.attach /\ m.enabled = d.enabled
      /\ d.managed = TRUE => m.perms = Compile(d.attach, live)
      /\ m.in \in BOOLEAN /\ m.managed \in BOOLEAN
  BY MirrorIs DEF Definitions
<1> HIDE DEF m
<1>2. CASE m.in = TRUE
  <2>1. Projected(m) = m
    BY <1>2 DEF Projected
  <2>2. Agrees(m, m, live, rel)
    BY <1>1, <1>2 DEF Agrees
  <2> QED BY <1>1, <2>1, <2>2 DEF m
<1>3. CASE m.in = FALSE
  <2> DEFINE r == [row EXCEPT !.in = FALSE, !.enabled = FALSE, !.managed = FALSE,
                              !.attach = NoAttachments]
  <2>1. r \in Definitions /\ r.in = FALSE /\ r.managed = FALSE /\ r.attach = NoAttachments
    BY Empties DEF Definitions
  <2>2. Projected(m) = r
    BY <1>3 DEF Projected
  <2> HIDE DEF r
  <2>3. d.managed = FALSE /\ d.attach = NoAttachments
    BY <1>1, <1>3 DEF Bare
  <2>4. Agrees(m, r, live, rel)
    BY <1>1, <1>3, <2>1, <2>3 DEF Agrees
  <2> QED BY <2>1, <2>2, <2>4 DEF m
<1> QED BY <1>1, <1>2, <1>3

\* dropAttachmentsToUnknownEntries.
LEMMA RevivedIs ==
    ASSUME NEW d \in Definitions
    PROVE  Revived(d) \in Definitions /\ Revived(d).in = d.in /\ (Bare(d) => Bare(Revived(d)))
<1> DEFINE a == [t \in Tools |-> IF t \in live THEN d.attach[t] ELSE "none"]
           r == [d EXCEPT !.attach = a]
<1>1. a \in [Tools -> Modes] /\ (d.attach = NoAttachments => a = NoAttachments)
  BY DEF Definitions, Modes, NoAttachments
<1>2. Revived(d) = r
  BY DEF Revived
<1> HIDE DEF a
<1>3. r \in Definitions /\ r.in = d.in /\ r.managed = d.managed /\ r.attach = a
  BY <1>1 DEF Definitions
<1> HIDE DEF r
<1> QED BY <1>1, <1>2, <1>3 DEF Bare

\* A revision.
LEMMA RevisionIs ==
    ASSUME NEW d \in Definitions, NEW by \in RequestKinds \cup {"apply", "backfill", "lifecycle", "old"},
           NEW p \in Pages
    PROVE  LET r == Revision(d, by, p)
           IN r \in Revisions /\ r.def = d /\ r.by = by /\ r.key = p.key /\ r.tool = p.tool
              /\ r.accept = p.accept
BY DEF Revision, Revisions, Pages

\* The journal is sound for larger keys too.
LEMMA SoundForMore ==
    ASSUME NEW j, NEW n \in Nat, NEW m \in Nat, n <= m, SoundJournal(j, n)
    PROVE  SoundJournal(j, m)
<1>1. MaxRequests \in Nat
  BY ConfigurationAssumption
<1>2. \A i \in DOMAIN j : j[i] \in Revisions
  BY DEF SoundJournal
<1>3. \A i \in DOMAIN j : j[i].key \in Nat
  BY <1>1, <1>2 DEF Revisions
<1> QED BY <1>3 DEF SoundJournal

\* A revision is appended.
LEMMA AppendIsSound ==
    ASSUME NEW j, NEW n \in Nat, SoundJournal(j, n), NEW r \in Revisions,
           Bare(r.def), r.key <= n, GrowsByGrant(r, Newest(j).perms)
    PROVE  LET k == Append(j, r)
           IN /\ SoundJournal(k, n) /\ Newest(k) = r.def /\ Extends(j, k)
              /\ Len(k) = Len(j) + 1 /\ k[Len(k)] = r
<1> DEFINE k == Append(j, r)
<1>1. j \in Seq(Revisions) /\ Len(j) \in Nat /\ Len(j) >= 1 /\ j # <<>>
  BY DEF SoundJournal
<1>2. /\ k \in Seq(Revisions) /\ Len(k) = Len(j) + 1 /\ k[Len(j) + 1] = r
      /\ \A i \in 1..Len(j) : k[i] = j[i]
      /\ DOMAIN k = 1..(Len(j) + 1) /\ DOMAIN j = 1..Len(j) /\ k # <<>>
  BY <1>1
<1> HIDE DEF k
<1>3. Newest(k) = r.def /\ Extends(j, k) /\ k[Len(k)] = r
  BY <1>1, <1>2 DEF Newest, Extends
<1>4. SoundJournal(k, n)
  <2>1. k[1].def.in = TRUE
    BY <1>1, <1>2 DEF SoundJournal
  <2>2. \A i \in DOMAIN k : Bare(k[i].def) /\ k[i].key <= n
    BY <1>1, <1>2 DEF SoundJournal
  <2>3. ASSUME NEW i \in 2..Len(k) PROVE GrowsByGrant(k[i], k[i - 1].def.perms)
    <3>1. CASE i = Len(j) + 1
      BY <3>1, <1>1, <1>2 DEF Newest
    <3>2. CASE i # Len(j) + 1
      <4>1. i \in 2..Len(j) /\ i - 1 \in 1..Len(j) /\ i \in 1..Len(j)
        BY <3>2, <1>1, <1>2
      <4>2. k[i] = j[i] /\ k[i - 1] = j[i - 1]
        BY <4>1, <1>2
      <4> QED BY <4>1, <4>2 DEF SoundJournal
    <3> QED BY <3>1, <3>2
  <2> QED BY <1>2, <2>1, <2>2, <2>3 DEF SoundJournal
<1> QED BY <1>2, <1>3, <1>4 DEF k

\* The types of what the invariant speaks of.
LEMMA ConfigFacts ==
    ASSUME ConfigInv
    PROVE  /\ journal \in Seq(Revisions) /\ journal # <<>> /\ Len(journal) \in Nat
           /\ Len(journal) >= 1 /\ DOMAIN journal = 1..Len(journal)
           /\ row \in Definitions /\ live \subseteq Tools /\ page \in [Editors -> Pages]
           /\ shown \in Seq(Answers) /\ Len(shown) \in Nat /\ Len(shown) <= MaxRequests
           /\ DOMAIN shown = 1..Len(shown) /\ MaxRequests \in Nat
           /\ Newest(journal) \in Definitions /\ Bare(Newest(journal))
<1>1. /\ journal \in Seq(Revisions) /\ journal # <<>> /\ row \in Definitions /\ live \subseteq Tools
      /\ page \in [Editors -> Pages] /\ shown \in Seq(Answers) /\ Len(shown) <= MaxRequests
  BY DEF ConfigInv, ConfigTypeOK, Answers
<1>2. MaxRequests \in Nat
  BY ConfigurationAssumption
<1>3. /\ Len(journal) \in Nat /\ Len(journal) >= 1 /\ DOMAIN journal = 1..Len(journal)
      /\ Len(shown) \in Nat /\ DOMAIN shown = 1..Len(shown)
  BY <1>1
<1>4. journal[Len(journal)] \in Revisions
  BY <1>1, <1>3
<1>5. Newest(journal) \in Definitions
  BY <1>4 DEF Newest, Revisions
<1>6. Bare(Newest(journal))
  BY <1>3 DEF ConfigInv, SoundJournal, Newest
<1> QED BY <1>1, <1>2, <1>3, <1>5, <1>6

\* ensureConfigHistoryIn: a sound journal still, which agrees with the row.
LEMMA HistoryIs ==
    ASSUME ConfigInv
    PROVE  /\ SoundJournal(History, Len(shown)) /\ Extends(journal, History)
           /\ Agrees(Current, row, live, release) /\ Current \in Definitions /\ Bare(Current)
           /\ History = journal \/ Len(History) = Len(journal) + 1
           /\ Len(History) \in Nat /\ Len(History) >= 1 /\ DOMAIN History = 1..Len(History)
           /\ \A i \in 1..Len(History) : i > Len(journal) => History[i].key = 0
           /\ Current = History[Len(History)].def
           /\ Current.managed = Newest(journal).managed /\ Current.attach = Newest(journal).attach
<1>1. /\ journal \in Seq(Revisions) /\ journal # <<>> /\ Len(journal) \in Nat
      /\ Len(journal) >= 1 /\ DOMAIN journal = 1..Len(journal)
      /\ row \in Definitions /\ live \subseteq Tools
      /\ Len(shown) \in Nat /\ Newest(journal) \in Definitions /\ Bare(Newest(journal))
  BY ConfigFacts
<1>2. /\ SoundJournal(journal, Len(shown)) /\ Agrees(Newest(journal), row, live, release)
  BY DEF ConfigInv
<1>3. Current = History[Len(History)].def
  BY DEF Current, Newest
<1>4. CASE ~Drifted
  <2>1. History = journal
    BY <1>4 DEF History
  <2> QED BY <1>1, <1>2, <1>3, <2>1 DEF Extends, Current
<1>5. CASE Drifted
  <2> DEFINE n == Newest(journal)
             d == [n EXCEPT !.enabled = row.enabled]
             r == Revision(d, "backfill", NoPage)
  <2>1. n \in Definitions /\ row.enabled \in BOOLEAN
    BY <1>1 DEF Definitions
  <2> HIDE DEF n
  <2>2. /\ d \in Definitions /\ d.in = n.in /\ d.managed = n.managed /\ d.attach = n.attach
        /\ d.perms = n.perms
    BY <2>1 DEF Definitions
  <2>3. History = Append(journal, r)
    BY <1>5 DEF History, n
  <2> HIDE DEF d
  <2>4. r \in Revisions /\ r.def = d /\ r.by = "backfill" /\ r.key = 0
    <3>1. NoPage \in Pages /\ NoPage.key = 0
      BY Empties
    <3>2. "backfill" \in RequestKinds \cup {"apply", "backfill", "lifecycle", "old"}
      OBVIOUS
    <3> QED BY <2>2, <3>1, <3>2, RevisionIs
  <2> HIDE DEF r
  <2>5. Bare(d) /\ Agrees(d, row, live, release)
    BY <1>1, <1>2, <2>2 DEF Bare, Agrees, n
  <2>6. GrowsByGrant(r, n.perms)
    BY <2>4 DEF GrowsByGrant
  <2>7. /\ SoundJournal(History, Len(shown)) /\ Newest(History) = d /\ Extends(journal, History)
        /\ Len(History) = Len(journal) + 1 /\ History[Len(History)] = r
    BY <1>1, <1>2, <2>3, <2>4, <2>5, <2>6, AppendIsSound DEF n
  <2>8. DOMAIN History = 1..Len(History)
    BY <2>7 DEF SoundJournal
  <2> QED BY <1>1, <1>3, <2>2, <2>4, <2>5, <2>7, <2>8 DEF Current, n
<1> QED BY <1>4, <1>5

\* What a page read is still there when the journal has grown and entries were deleted.
LEMMA StillRead ==
    ASSUME NEW p \in Pages, NEW j \in Seq(Revisions), NEW k, Extends(j, k), NEW l, NEW m \in SUBSET l,
           ReadFrom(p, j, l)
    PROVE  ReadFrom(p, k, m)
<1>1. /\ k \in Seq(Revisions) /\ Len(j) <= Len(k) /\ DOMAIN j = 1..Len(j) /\ DOMAIN k = 1..Len(k)
      /\ Len(j) \in Nat /\ Len(k) \in Nat
  BY DEF Extends
<1>2. p.base \in DOMAIN j => p.base \in DOMAIN k /\ k[p.base] = j[p.base]
  BY <1>1 DEF Extends
<1> QED BY <1>2 DEF ReadFrom

\* One page moves on, and the journal grows by revisions under its key or under none.
LEMMA KeysStillFit ==
    ASSUME ConfigInv, NEW e \in Editors, NEW q \in Pages, page' = [page EXCEPT ![e] = q], KeyFits(q),
           Extends(journal, journal'), NEW a,
           \A i \in 1..Len(journal') : i > Len(journal) => journal'[i].key \in {0, page[e].key},
           \/ shown' = shown /\ q.key \in {0, page[e].key}
           \/ page[e].key = 0 /\ shown' = Append(shown, a) /\ a \in Answers /\ q.key = 0
           \/ page[e].key = 0 /\ shown' = Append(shown, "none") /\ q.key = Len(shown) + 1
           \/ /\ page[e].key # 0 /\ shown' = [shown EXCEPT ![page[e].key] = a] /\ q.key = 0
              /\ a \in Answers /\ (a \in Refusals => Unused(journal', page[e].key))
    PROVE  /\ KeysFit(journal', page', shown') /\ page' \in [Editors -> Pages]
           /\ shown' \in Seq(Answers) /\ Len(shown') >= Len(shown)
<1> DEFINE p == page[e]
           n == Len(shown)
<1>1. /\ journal \in Seq(Revisions) /\ Len(journal) \in Nat /\ DOMAIN journal = 1..Len(journal)
      /\ page \in [Editors -> Pages]
      /\ shown \in Seq(Answers) /\ n \in Nat /\ DOMAIN shown = 1..n /\ MaxRequests \in Nat
      /\ \A f \in Editors : page[f].key \in Nat
      /\ q.key \in Nat
  <2>1. \A f \in Editors : page[f] \in Pages
    BY ConfigFacts
  <2>2. MaxRequests \in Nat
    BY ConfigurationAssumption
  <2> QED BY <2>1, <2>2, ConfigFacts DEF Pages
<1>2. KeysFit(journal, page, shown) /\ SoundJournal(journal, n)
  BY DEF ConfigInv
<1>3. /\ journal' \in Seq(Revisions) /\ Len(journal') \in Nat /\ DOMAIN journal' = 1..Len(journal')
      /\ Len(journal) <= Len(journal') /\ \A i \in 1..Len(journal) : journal'[i] = journal[i]
  BY DEF Extends
<1>4. /\ page' \in [Editors -> Pages] /\ page'[e] = q
      /\ \A f \in Editors : f # e => page'[f] = page[f]
  BY <1>1
<1>5. /\ p.key \in Nat /\ p.key <= n /\ (p.key # 0 => shown[p.key] = "none")
      /\ \A f \in Editors : f # e /\ page[f].key # 0 => page[f].key # p.key
  BY <1>1, <1>2 DEF KeysFit
<1> DEFINE m == Len(shown')
<1>6. /\ shown' \in Seq(Answers) /\ m \in Nat /\ m >= n
      /\ \A k \in 1..n : k # p.key => shown'[k] = shown[k]
      /\ q.key <= m /\ (q.key # 0 => shown'[q.key] = "none")
      /\ \A k \in 1..m : k > n => p.key = 0
      /\ \A f \in Editors : f # e /\ page[f].key # 0 => page[f].key # q.key
      /\ p.key # 0 /\ shown'[p.key] \in Refusals => Unused(journal', p.key)
  <2> HIDE DEF p
  <2>0. /\ shown \in Seq(Answers) /\ n = Len(shown) /\ n \in Nat /\ "none" \notin Refusals
        /\ "none" \in Answers
    BY <1>1 DEF Refusals, Answers
  <2>1. CASE shown' = shown /\ q.key \in {0, p.key}
    <3>1. m = n /\ shown' = shown
      BY <2>1
    <3> HIDE DEF m, n
    <3> QED BY <2>1, <3>1, <2>0, <1>1, <1>5
  <2>2. CASE p.key = 0 /\ shown' = Append(shown, a) /\ a \in Answers /\ q.key = 0
    <3>1. /\ shown' \in Seq(Answers) /\ m = n + 1 /\ \A k \in 1..n : shown'[k] = shown[k]
      BY <2>0, <2>2
    <3> HIDE DEF m, n
    <3> QED BY <2>2, <3>1, <2>0, <1>5
  <2>3. CASE p.key = 0 /\ shown' = Append(shown, "none") /\ q.key = n + 1
    <3>1. \A f \in Editors : page[f].key <= n
      BY <1>2 DEF KeysFit
    <3>2. /\ shown' \in Seq(Answers) /\ m = n + 1 /\ \A k \in 1..n : shown'[k] = shown[k]
          /\ shown'[n + 1] = "none"
      BY <2>0, <2>3
    <3> HIDE DEF m, n
    <3> QED BY <2>3, <3>1, <3>2, <2>0, <1>1, <1>5
  <2>4. CASE /\ p.key # 0 /\ shown' = [shown EXCEPT ![p.key] = a] /\ q.key = 0
             /\ a \in Answers /\ (a \in Refusals => Unused(journal', p.key))
    <3>0. p.key # 0 /\ q.key = 0
      BY <2>4
    <3>1. p.key \in 1..n
      <4> HIDE DEF n
      <4> QED BY <3>0, <1>5, <2>0
    <3>2. shown \in [1..n -> Answers]
      BY <2>0
    <3>3. /\ shown' \in [1..n -> Answers] /\ \A k \in 1..n : k # p.key => shown'[k] = shown[k]
          /\ shown'[p.key] = a
      BY <2>4, <3>1, <3>2
    <3>4. shown' \in Seq(Answers) /\ m = n
      BY <3>3, <2>0
    <3> HIDE DEF m, n
    <3>5. a \in Refusals => Unused(journal', p.key)
      BY <2>4
    <3> QED BY <3>0, <3>3, <3>4, <3>5, <2>0
  <2> QED BY <2>1, <2>2, <2>3, <2>4 DEF p
<1> HIDE DEF p, n, m
<1>7. ASSUME NEW f \in Editors
      PROVE  /\ KeyFits(page'[f]) /\ page'[f].key <= m
             /\ page'[f].key # 0 => shown'[page'[f].key] = "none"
  <2>1. CASE f = e
    BY <2>1, <1>4, <1>6
  <2>2. CASE f # e
    <3>1. page'[f] = page[f] /\ KeyFits(page[f]) /\ page[f].key <= n
          /\ (page[f].key # 0 => shown[page[f].key] = "none" /\ page[f].key # p.key)
      BY <2>2, <1>2, <1>4, <1>5 DEF KeysFit, n
    <3> QED BY <3>1, <1>1, <1>6
  <2> QED BY <2>1, <2>2
<1>8. ASSUME NEW f \in Editors, NEW g \in Editors, page'[f].key # 0, page'[f].key = page'[g].key
      PROVE  f = g
  BY <1>8, <1>2, <1>4, <1>6 DEF KeysFit
<1>9. ASSUME NEW k \in 1..m, shown'[k] \in Refusals
      PROVE  Unused(journal', k)
  <2>1. CASE p.key # 0 /\ k = p.key
    BY <2>1, <1>6, <1>9
  <2>2. CASE k > n
    <3>1. p.key = 0
      BY <2>2, <1>6
    <3>2. \A i \in 1..Len(journal) : journal[i].key <= n /\ journal[i].key \in Nat
      <4>1. \A i \in 1..Len(journal) : journal[i] \in Revisions
        BY <1>1
      <4> QED BY <4>1, <1>1, <1>2 DEF SoundJournal, Revisions
    <3>3. \A i \in 1..Len(journal') : i > Len(journal) => journal'[i].key = 0
      BY <3>1 DEF p
    <3>4. k > n /\ n \in Nat /\ k \in Nat /\ k # 0
      BY <2>2, <1>1, <1>6
    <3> SUFFICES ASSUME NEW i \in 1..Len(journal') PROVE journal'[i].key # k
      BY <1>3 DEF Unused
    <3>5. CASE i > Len(journal)
      BY <3>3, <3>4, <3>5
    <3>6. CASE i \in 1..Len(journal)
      <4>1. journal'[i] = journal[i] /\ journal[i].key <= n /\ journal[i].key \in Nat
        BY <1>3, <3>2, <3>6
      <4> QED BY <3>4, <4>1
    <3> QED BY <1>1, <1>3, <3>5, <3>6
  <2>3. CASE k <= n /\ k # p.key
    <3>1. k \in 1..n /\ k # 0
      BY <2>3, <1>1, <1>6
    <3>2. shown[k] \in Refusals
      BY <1>6, <1>9, <2>3, <3>1
    <3>3. Unused(journal, k)
      BY <1>2, <3>1, <3>2 DEF KeysFit, n
    <3> SUFFICES ASSUME NEW i \in 1..Len(journal') PROVE journal'[i].key # k
      BY <1>3 DEF Unused
    <3>4. CASE i > Len(journal)
      <4>1. journal'[i].key \in {0, p.key}
        BY <3>4 DEF p
      <4> QED BY <2>3, <3>1, <4>1
    <3>5. CASE i \in 1..Len(journal)
      BY <1>1, <1>3, <3>3, <3>5 DEF Unused
    <3> QED BY <1>1, <1>3, <3>4, <3>5
  <2> QED BY <2>1, <2>2, <2>3, <1>1, <1>5, <1>6
<1> QED BY <1>4, <1>6, <1>7, <1>8, <1>9 DEF KeysFit, m, n

\* A request moves on while the row and the catalog stay: what is left to show is the new page.
LEMMA PageStep ==
    ASSUME ConfigInv, NEW e \in Editors, NEW q \in Pages, page' = [page EXCEPT ![e] = q], KeyFits(q),
           journal' = History, UNCHANGED <<row, lifecycle, live, release>>, NEW a,
           others' = others \/ others' \in 0..MaxOthers,
           ReadFrom(q, History, live), Len(shown') <= MaxRequests,
           \/ shown' = shown /\ q.key \in {0, page[e].key}
           \/ page[e].key = 0 /\ shown' = Append(shown, a) /\ a \in Answers /\ q.key = 0
           \/ page[e].key = 0 /\ shown' = Append(shown, "none") /\ q.key = Len(shown) + 1
           \/ /\ page[e].key # 0 /\ shown' = [shown EXCEPT ![page[e].key] = a] /\ q.key = 0
              /\ a \in Answers /\ (a \in Refusals => Unused(History, page[e].key))
    PROVE  ConfigInv'
<1>1. /\ SoundJournal(History, Len(shown)) /\ Extends(journal, History)
      /\ Agrees(Current, row, live, release)
      /\ \A i \in 1..Len(History) : i > Len(journal) => History[i].key = 0
  BY HistoryIs
<1>2. /\ KeysFit(journal', page', shown') /\ page' \in [Editors -> Pages]
      /\ shown' \in Seq(Answers) /\ Len(shown') >= Len(shown)
  BY <1>1, KeysStillFit
<1>3. /\ journal \in Seq(Revisions) /\ Len(shown) \in Nat /\ page \in [Editors -> Pages]
  BY ConfigFacts
<1>4. Len(shown') \in Nat
  BY <1>2
<1>5. SoundJournal(journal', Len(shown'))
  BY <1>1, <1>2, <1>3, <1>4, SoundForMore
<1>6. Agrees(Newest(journal'), row', live', release')
  BY <1>1 DEF Current
<1>7. \A f \in Editors : ReadFrom(page'[f], journal', live')
  <2> TAKE f \in Editors
  <2>1. CASE f = e
    BY <2>1, <1>3
  <2>2. CASE f # e
    <3>1. page'[f] = page[f] /\ page[f] \in Pages /\ ReadFrom(page[f], journal, live)
      BY <2>2, <1>3 DEF ConfigInv
    <3>2. ReadFrom(page[f], History, live)
      BY <3>1, <1>1, <1>3, StillRead
    <3> QED BY <3>1, <3>2
  <2> QED BY <2>1, <2>2
<1>8. ConfigTypeOK'
  <2>1. journal' \in Seq(Revisions) /\ journal' # <<>>
    BY <1>5 DEF SoundJournal
  <2> QED BY <1>2, <2>1 DEF ConfigInv, ConfigTypeOK, Answers
<1> QED BY <1>2, <1>5, <1>6, <1>7, <1>8 DEF ConfigInv

-----------------------------------------------------------------------------
\* Nothing was read for a page that is idle, and it has no key.
LEMMA NoPageFits == \A j, l : ReadFrom(NoPage, j, l) /\ KeyFits(NoPage)
BY Empties DEF ReadFrom, KeyFits

\* A page is opened.
LEMMA OpensKeeps ==
    ASSUME ConfigInv, NEW e \in Editors, NEW k \in AllRequests, NEW p \in Pages, Opens(e, k, p),
           p.key = 0,
           k \in {"patch", "attach", "adopt"} => p.base = Len(History) /\ Current.in = TRUE,
           k = "patch" => p.seen = Current /\ p.edited = Current,
           k \in {"attach", "adopt"} => p.plan.attach = Conversion(Current.perms, live),
           k \in {"rollback", "import"} => Bare(p.plan)
    PROVE  ConfigInv'
<1> DEFINE q == [p EXCEPT !.pc = "open", !.kind = k]
<1>1. /\ q \in Pages /\ q.pc = "open" /\ q.kind = k /\ q.base = p.base /\ q.seen = p.seen
      /\ q.draft = p.draft /\ q.edited = p.edited /\ q.plan = p.plan /\ q.key = 0
  BY DEF Pages
<1>2. /\ page' = [page EXCEPT ![e] = q] /\ journal' = History /\ k \in RequestKinds
      /\ UNCHANGED <<row, lifecycle, live, shown, release, others>>
  BY DEF Opens
<1> HIDE DEF q
<1>3. KeyFits(q)
  BY <1>1 DEF KeyFits
<1>4. /\ live \subseteq Tools /\ Len(shown) <= MaxRequests
  BY ConfigFacts
<1>5. /\ Len(History) \in DOMAIN History /\ Current = History[Len(History)].def
  <2> DEFINE n == Len(History)
  <2>1. n \in Nat /\ n >= 1 /\ DOMAIN History = 1..n /\ Current = History[n].def
    BY HistoryIs
  <2> HIDE DEF n
  <2>2. n \in DOMAIN History /\ Current = History[n].def
    BY <2>1
  <2> QED BY <2>2 DEF n
<1>6. ReadFrom(q, History, live)
  BY <1>1, <1>2, <1>4, <1>5 DEF ReadFrom
<1> QED BY <1>1, <1>2, <1>3, <1>4, <1>6, PageStep

\* The pages that open.
LEMMA OpenKeeps ==
    ASSUME ConfigInv, NEW e \in Editors,
           \/ OpenPatch(e) \/ OpenAttach(e) \/ OpenUpdate(e) \/ OpenDetach(e) \/ OpenAdopt(e)
           \/ OpenDelete(e) \/ OpenBundle(e)
    PROVE  ConfigInv'
<1>1. /\ Current \in Definitions /\ Len(History) \in Nat /\ live \subseteq Tools
      /\ Current.in \in BOOLEAN /\ Current.perms \in [Tools -> Levels]
  BY HistoryIs, ConfigFacts DEF Definitions
<1>2. /\ NoPage \in Pages /\ NoPage.key = 0 /\ NoPage.plan = Absent /\ Bare(Absent)
      /\ Absent \in Definitions
  BY Empties DEF NoPage
<1>3. Conversion(Current.perms, live) \in [Tools -> Modes]
  BY <1>1, ConversionIs
<1>4. Shown \in Definitions /\ Shown.attach = Conversion(Current.perms, live)
  <2> DEFINE c == Conversion(Current.perms, live)
  <2>1. c \in [Tools -> Modes] /\ Shown = [Absent EXCEPT !.attach = c]
    BY <1>3 DEF Shown
  <2> HIDE DEF c
  <2>2. Shown \in Definitions /\ Shown.attach = c
    BY <2>1, <1>2 DEF Definitions
  <2> QED BY <2>2 DEF c
<1> HIDE DEF NoPage
<1>5. CASE OpenPatch(e)
  <2>1. PICK fields \in SUBSET Fields \ {{}}, list \in LegacyLists :
          Opens(e, "patch", [NoPage EXCEPT !.base = Len(History), !.edited = Current,
                                           !.seen = Current, !.draft = fields, !.perms = list])
    BY <1>5 DEF OpenPatch
  <2> DEFINE p == [NoPage EXCEPT !.base = Len(History), !.edited = Current,
                                 !.seen = Current, !.draft = fields, !.perms = list]
  <2>2. list \in [Tools -> Levels]
    BY ConfigurationAssumption
  <2>3. p \in Pages /\ p.key = 0 /\ p.base = Len(History) /\ p.seen = Current /\ p.edited = Current
    BY <1>1, <1>2, <2>2 DEF Pages
  <2>4. Current.in = TRUE /\ "patch" \in AllRequests
    BY <1>1, <1>5 DEF OpenPatch, AllRequests
  <2>5. Opens(e, "patch", p)
    BY <2>1
  <2> HIDE DEF p
  <2> QED BY <2>3, <2>4, <2>5, OpensKeeps
<1>6. CASE OpenAttach(e)
  <2>1. PICK t \in Tools, m \in Modes :
          Opens(e, "attach", [NoPage EXCEPT !.base = Len(History), !.plan = Shown, !.tool = t,
                                           !.mode = m])
    BY <1>6 DEF OpenAttach
  <2> DEFINE p == [NoPage EXCEPT !.base = Len(History), !.plan = Shown, !.tool = t, !.mode = m]
  <2>2. p \in Pages /\ p.key = 0 /\ p.base = Len(History) /\ p.plan = Shown
    BY <1>1, <1>2, <1>4 DEF Pages
  <2>3. Current.in = TRUE /\ "attach" \in AllRequests
    BY <1>1, <1>6 DEF OpenAttach, AllRequests
  <2>4. Opens(e, "attach", p)
    BY <2>1
  <2> HIDE DEF p
  <2> QED BY <2>2, <2>3, <2>4, <1>4, OpensKeeps
<1>7. CASE OpenUpdate(e)
  <2>1. PICK t \in Tools, m \in Modes : Opens(e, "update", [NoPage EXCEPT !.tool = t, !.mode = m])
    BY <1>7 DEF OpenUpdate
  <2> DEFINE p == [NoPage EXCEPT !.tool = t, !.mode = m]
  <2>2. p \in Pages /\ p.key = 0 /\ "update" \in AllRequests
    BY <1>2 DEF Pages, AllRequests
  <2>3. Opens(e, "update", p)
    BY <2>1
  <2> HIDE DEF p
  <2> QED BY <2>2, <2>3, OpensKeeps
<1>8. CASE OpenDetach(e)
  <2>1. PICK t \in Tools : Opens(e, "detach", [NoPage EXCEPT !.tool = t])
    BY <1>8 DEF OpenDetach
  <2> DEFINE p == [NoPage EXCEPT !.tool = t]
  <2>2. p \in Pages /\ p.key = 0 /\ "detach" \in AllRequests
    BY <1>2 DEF Pages, AllRequests
  <2>3. Opens(e, "detach", p)
    BY <2>1
  <2> HIDE DEF p
  <2> QED BY <2>2, <2>3, OpensKeeps
<1>9. CASE OpenAdopt(e)
  <2> DEFINE p == [NoPage EXCEPT !.base = Len(History), !.plan = Shown]
  <2>1. p \in Pages /\ p.key = 0 /\ p.base = Len(History) /\ p.plan = Shown
    BY <1>1, <1>2, <1>4 DEF Pages
  <2>2. Current.in = TRUE /\ "adopt" \in AllRequests /\ Opens(e, "adopt", p)
    BY <1>1, <1>9 DEF OpenAdopt, AllRequests
  <2> HIDE DEF p
  <2> QED BY <2>1, <2>2, <1>4, OpensKeeps
<1>10. CASE OpenDelete(e)
  <2>1. PICK t \in Tools : Opens(e, "delete", [NoPage EXCEPT !.seen = Current, !.tool = t])
    BY <1>10 DEF OpenDelete
  <2> DEFINE p == [NoPage EXCEPT !.seen = Current, !.tool = t]
  <2>2. p \in Pages /\ p.key = 0 /\ "delete" \in AllRequests
    BY <1>1, <1>2 DEF Pages, AllRequests
  <2>3. Opens(e, "delete", p)
    BY <2>1
  <2> HIDE DEF p
  <2> QED BY <2>2, <2>3, OpensKeeps
<1>11. CASE OpenBundle(e)
  <2>1. PICK k \in {"rollback", "import"} : Opens(e, k, [NoPage EXCEPT !.base = Len(History)])
    BY <1>11 DEF OpenBundle
  <2> DEFINE p == [NoPage EXCEPT !.base = Len(History)]
  <2>2. p \in Pages /\ p.key = 0 /\ p.plan = Absent /\ k \in AllRequests
    BY <1>1, <1>2 DEF Pages, AllRequests
  <2>3. Opens(e, k, p)
    BY <2>1
  <2> HIDE DEF p
  <2> QED BY <2>1, <2>2, <2>3, <1>2, OpensKeeps
<1> QED BY <1>5, <1>6, <1>7, <1>8, <1>9, <1>10, <1>11

\* A request is sent on under a key.
LEMMA ProceedKeeps ==
    ASSUME ConfigInv, NEW e \in Editors, NEW p \in Pages, Proceed(e, p), p.key = page[e].key,
           p.pc = "open", ReadFrom(p, History, live),
           p.kind = "adopt" => History[p.base].def.managed = FALSE
    PROVE  ConfigInv'
<1> DEFINE q == [Keyed(p) EXCEPT !.pc = "ready"]
           c == IF p.key = 0 THEN Len(shown) + 1 ELSE p.key
<1>1. /\ Len(shown) \in Nat /\ Len(shown) <= MaxRequests /\ MaxRequests \in Nat
      /\ shown \in Seq(Answers)
  BY ConfigFacts
<1>2. /\ page' = [page EXCEPT ![e] = q] /\ journal' = History
      /\ UNCHANGED <<row, lifecycle, live, release, others>>
      /\ IF p.key = 0 THEN Len(shown) < MaxRequests /\ shown' = Append(shown, "none")
         ELSE shown' = shown
  BY DEF Proceed, KeyTaken
<1>3. c \in 0..MaxRequests /\ c # 0
  BY <1>1, <1>2 DEF Pages
<1>4. /\ Keyed(p) \in Pages /\ Keyed(p).kind = p.kind /\ Keyed(p).base = p.base
      /\ Keyed(p).seen = p.seen /\ Keyed(p).draft = p.draft /\ Keyed(p).edited = p.edited
      /\ Keyed(p).plan = p.plan /\ Keyed(p).key = c
  <2>1. CASE p.key = 0
    <3>1. Keyed(p) = [p EXCEPT !.key = c]
      BY <2>1 DEF Keyed, NewKey
    <3> HIDE DEF c
    <3>2. LET x == [p EXCEPT !.key = c]
          IN  /\ x \in Pages /\ x.kind = p.kind /\ x.base = p.base /\ x.seen = p.seen
              /\ x.draft = p.draft /\ x.edited = p.edited /\ x.plan = p.plan /\ x.key = c
      BY <1>3 DEF Pages
    <3> QED BY <3>1, <3>2
  <2>2. CASE p.key # 0
    BY <2>2 DEF Keyed
  <2> QED BY <2>1, <2>2
<1>5. /\ q \in Pages /\ q.pc = "ready" /\ q.kind = p.kind /\ q.base = p.base /\ q.seen = p.seen
      /\ q.draft = p.draft /\ q.edited = p.edited /\ q.plan = p.plan /\ q.key = c
  <2> DEFINE r == Keyed(p)
  <2>1. r \in Pages
    BY <1>4
  <2> HIDE DEF r
  <2>2. LET x == [r EXCEPT !.pc = "ready"]
        IN  /\ x \in Pages /\ x.pc = "ready"
            /\ x.kind = r.kind /\ x.base = r.base /\ x.seen = r.seen /\ x.draft = r.draft
            /\ x.edited = r.edited /\ x.plan = r.plan /\ x.key = r.key
    BY <2>1 DEF Pages
  <2> QED BY <2>2, <1>4 DEF r
<1> HIDE DEF q
<1>6. KeyFits(q)
  BY <1>3, <1>5 DEF KeyFits
<1>7. ReadFrom(q, History, live)
  BY <1>5 DEF ReadFrom
<1>8. Len(shown') <= MaxRequests
  BY <1>1, <1>2
<1>9. \/ shown' = shown /\ q.key \in {0, page[e].key}
      \/ page[e].key = 0 /\ shown' = Append(shown, "none") /\ q.key = Len(shown) + 1
  BY <1>2, <1>5
<1> QED BY <1>2, <1>5, <1>6, <1>7, <1>8, <1>9, PageStep

\* A key that is not in the journal is in no revision a read records either.
LEMMA NotUsed ==
    ASSUME ConfigInv, NEW k \in Nat \ {0}, ~KeyUsed(k)
    PROVE  Unused(History, k)
<1> SUFFICES ASSUME NEW i \in DOMAIN History PROVE History[i].key # k
  BY DEF Unused
<1>1. /\ \A n \in 1..Len(History) : n > Len(journal) => History[n].key = 0
      /\ DOMAIN History = 1..Len(History) /\ Extends(journal, History)
  BY HistoryIs
<1>2. Len(journal) \in Nat /\ DOMAIN journal = 1..Len(journal)
  BY ConfigFacts
<1>3. \A n \in DOMAIN journal : journal[n].key # k
  BY DEF KeyUsed
<1>4. CASE i > Len(journal)
  BY <1>1, <1>4
<1>5. CASE ~(i > Len(journal))
  BY <1>1, <1>2, <1>3, <1>5 DEF Extends
<1> QED BY <1>4, <1>5

\* A request is refused, or answered at once; a refused key is in no revision.
LEMMA RefuseKeeps ==
    ASSUME ConfigInv, NEW e \in Editors, NEW a \in Answers, Refuse(e, a),
           page[e].key # 0 /\ a \in Refusals => ~KeyUsed(page[e].key)
    PROVE  ConfigInv'
<1>1. /\ Len(shown) \in Nat /\ Len(shown) <= MaxRequests /\ MaxRequests \in Nat
      /\ shown \in Seq(Answers) /\ page[e].key \in Nat
  BY ConfigFacts DEF Pages
<1>2. /\ page' = [page EXCEPT ![e] = NoPage] /\ journal' = History
      /\ UNCHANGED <<row, lifecycle, live, release, others>>
      /\ IF page[e].key = 0 THEN Len(shown) < MaxRequests /\ shown' = Append(shown, a)
         ELSE shown' = [shown EXCEPT ![page[e].key] = a]
  BY DEF Refuse
<1>3. NoPage \in Pages /\ NoPage.key = 0 /\ KeyFits(NoPage) /\ ReadFrom(NoPage, History, live)
  BY Empties, NoPageFits
<1>4. page[e].key # 0 /\ a \in Refusals => Unused(History, page[e].key)
  BY <1>1, NotUsed
<1>5. Len(shown') <= MaxRequests
  BY <1>1, <1>2
<1> QED BY <1>2, <1>3, <1>4, <1>5, PageStep

\* What an editor has before it, read against the journal as the next request finds it.
LEMMA PageIs ==
    ASSUME ConfigInv, NEW e \in Editors
    PROVE  /\ page[e] \in Pages /\ ReadFrom(page[e], History, live) /\ KeyFits(page[e])
           /\ page[e].key \in Nat /\ page[e].key <= Len(shown)
           /\ page[e].key # 0 => shown[page[e].key] = "none"
<1>1. page[e] \in Pages /\ journal \in Seq(Revisions) /\ MaxRequests \in Nat
  BY ConfigFacts
<1>2. Extends(journal, History)
  BY HistoryIs
<1>3. ReadFrom(page[e], journal, live)
  BY DEF ConfigInv
<1>4. ReadFrom(page[e], History, live)
  BY <1>1, <1>2, <1>3, StillRead
<1>5. page[e].key \in Nat
  BY <1>1 DEF Pages
<1> QED BY <1>1, <1>4, <1>5 DEF ConfigInv, KeysFit

\* previewAgentPatch: the draft is reviewed, or rebased on the newest revision.
LEMMA ReviewKeeps ==
    ASSUME ConfigInv, NEW e \in Editors, ReviewPatch(e)
    PROVE  ConfigInv'
<1> DEFINE p == page[e]
<1>1. /\ p \in Pages /\ ReadFrom(p, History, live) /\ p.pc = "open" /\ p.kind = "patch" /\ p.key = 0
  BY PageIs DEF ReviewPatch, KeyFits
<1>2. /\ Len(History) \in Nat /\ Len(History) >= 1 /\ DOMAIN History = 1..Len(History)
      /\ Current = History[Len(History)].def /\ Current \in Definitions
      /\ live \subseteq Tools /\ Len(shown) <= MaxRequests
  BY HistoryIs, ConfigFacts
<1>3. CASE Reload(e)
  <2> DEFINE left == Rebased(p.seen, p.draft)
             n == Len(History)
             r == [p EXCEPT !.base = n, !.seen = Current, !.draft = left]
             q == IF left = {} \/ ~Current.in THEN NoPage ELSE r
  <2>1. /\ page' = [page EXCEPT ![e] = q] /\ journal' = History
        /\ UNCHANGED <<row, lifecycle, live, shown, release, others>>
    BY <1>3 DEF Reload
  <2>2. NoPage \in Pages /\ NoPage.key = 0 /\ KeyFits(NoPage) /\ ReadFrom(NoPage, History, live)
    BY Empties, NoPageFits
  <2>3. n \in Nat /\ n \in DOMAIN History /\ Current = History[n].def
    <3>1. n \in Nat /\ n >= 1 /\ DOMAIN History = 1..n /\ Current = History[n].def
      BY <1>2
    <3> HIDE DEF n
    <3> QED BY <3>1
  <2>4. left \in SUBSET p.draft /\ \A f \in left : Current[f] = p.seen[f]
    BY DEF Rebased
  <2> HIDE DEF left, n
  <2>5. /\ r \in Pages /\ r.pc = "open" /\ r.kind = "patch" /\ r.key = 0 /\ r.base = n
        /\ r.seen = Current /\ r.draft = left /\ r.edited = p.edited
    BY <1>1, <1>2, <2>3, <2>4 DEF Pages
  <2>6. \A f \in left : p.seen[f] = p.edited[f]
    BY <1>1, <2>4 DEF ReadFrom
  <2> HIDE DEF r
  <2>7. Current.in = TRUE => ReadFrom(r, History, live)
    <3>1. p.kind \in RequestKinds
      BY <1>1 DEF ReadFrom
    <3> QED BY <1>1, <2>3, <2>4, <2>5, <2>6, <3>1 DEF ReadFrom
  <2>8. KeyFits(r) /\ Current.in \in BOOLEAN
    BY <1>2, <2>5 DEF KeyFits, Definitions
  <2>9. q \in Pages /\ q.key = 0 /\ KeyFits(q) /\ ReadFrom(q, History, live)
    BY <2>2, <2>5, <2>7, <2>8
  <2> HIDE DEF q
  <2>10. shown' = shown /\ q.key \in {0, page[e].key} /\ Len(shown') <= MaxRequests
    BY <1>2, <2>1, <2>9
  <2> QED BY <2>1, <2>9, <2>10, PageStep
<1>4. CASE Refuse(e, "invalid")
  BY <1>1, <1>4, RefuseKeeps DEF Answers
<1>5. CASE Proceed(e, page[e])
  BY <1>1, <1>5, ProceedKeeps
<1> QED BY <1>3, <1>4, <1>5 DEF ReviewPatch

\* A key that is already in the journal makes its request go on to the commit.
LEMMA ResolveKeeps ==
    ASSUME ConfigInv, NEW e \in Editors,
           \/ ResolveAttach(e) \/ ResolveUpdate(e) \/ ResolveDetach(e) \/ ResolveAdopt(e)
           \/ ResolveRollback(e) \/ ResolveImport(e)
    PROVE  ConfigInv'
<1> DEFINE p == page[e]
<1>1. p \in Pages /\ ReadFrom(p, History, live) /\ KeyFits(p)
  BY PageIs
<1>2. /\ Len(History) \in Nat /\ Len(History) >= 1 /\ DOMAIN History = 1..Len(History)
      /\ Current = History[Len(History)].def /\ Current \in Definitions
      /\ live \subseteq Tools
  BY HistoryIs, ConfigFacts
<1>3. {"invalid", "conflict", "ok"} \subseteq Answers /\ "ok" \notin Refusals
  BY DEF Answers, Refusals
<1>4. CASE ResolveAttach(e)
  <2> DEFINE v == AttachVerdict(p)
  <2>1. p.pc = "open" /\ p.kind = "attach" /\ SettleVerdict(e, v, p)
    BY <1>4 DEF ResolveAttach, AtOpen
  <2>2. v \in {"proceed", "invalid", "conflict"} /\ (v # "proceed" => ~KeyUsed(p.key))
    BY DEF AttachVerdict, ReplaysCommand
  <2> HIDE DEF v
  <2>3. CASE v = "proceed"
    <3>1. Proceed(e, p)
      BY <2>1, <2>3 DEF SettleVerdict
    <3> QED BY <3>1, <2>1, <1>1, ProceedKeeps
  <2>4. CASE v # "proceed"
    <3>1. Refuse(e, v) /\ v \in Answers
      BY <2>1, <2>2, <2>4, <1>3 DEF SettleVerdict
    <3> QED BY <3>1, <2>2, <2>4, RefuseKeeps
  <2> QED BY <2>3, <2>4
<1>5. CASE ResolveUpdate(e)
  <2> DEFINE v == IF ReplaysCommand(p) \/ Attachable(p.tool, p.mode) THEN "proceed" ELSE "invalid"
             n == Len(History)
             q == [p EXCEPT !.base = n]
  <2>1. p.pc = "open" /\ p.kind = "update" /\ SettleVerdict(e, v, q)
    BY <1>5 DEF ResolveUpdate, AtOpen
  <2>2. v \in {"proceed", "invalid"} /\ (v # "proceed" => ~KeyUsed(p.key))
    BY DEF ReplaysCommand
  <2> HIDE DEF v
  <2>3. CASE v = "proceed"
    <3>1. Proceed(e, q) /\ n \in Nat
      BY <2>1, <2>3, <1>2 DEF SettleVerdict
    <3> HIDE DEF n
    <3>2. q \in Pages /\ q.pc = "open" /\ q.kind = "update" /\ q.key = p.key
      BY <1>1, <2>1, <3>1 DEF Pages
    <3> HIDE DEF q
    <3>3. ReadFrom(q, History, live)
      BY <1>1, <2>1, <3>2 DEF ReadFrom
    <3> QED BY <3>1, <3>2, <3>3, ProceedKeeps
  <2>4. CASE v # "proceed"
    <3>1. Refuse(e, v) /\ v \in Answers
      BY <2>1, <2>2, <2>4, <1>3 DEF SettleVerdict
    <3> QED BY <3>1, <2>2, <2>4, RefuseKeeps
  <2> QED BY <2>3, <2>4
<1>6. CASE ResolveDetach(e)
  <2> DEFINE n == Len(History)
             q == [p EXCEPT !.base = n]
  <2>1. p.pc = "open" /\ p.kind = "detach" /\ Proceed(e, q) /\ n \in Nat
    BY <1>2, <1>6 DEF ResolveDetach, AtOpen
  <2> HIDE DEF n
  <2>2. q \in Pages /\ q.pc = "open" /\ q.kind = "detach" /\ q.key = p.key
    BY <1>1, <2>1 DEF Pages
  <2> HIDE DEF q
  <2>3. ReadFrom(q, History, live)
    BY <1>1, <2>1, <2>2 DEF ReadFrom
  <2> QED BY <2>1, <2>2, <2>3, ProceedKeeps
<1>7. CASE ResolveAdopt(e)
  <2> DEFINE v == AdoptVerdict(p)
  <2>1. p.pc = "open" /\ p.kind = "adopt" /\ SettleVerdict(e, v, p)
    BY <1>7 DEF ResolveAdopt, AtOpen
  <2>2. /\ v \in {"proceed", "ok", "conflict"}
        /\ v = "proceed" => p.base = Len(History) /\ ~Current.managed
    BY DEF AdoptVerdict
  <2>3. p.key = 0
    BY <1>1, <2>1 DEF KeyFits
  <2> HIDE DEF v
  <2>4. CASE v = "proceed"
    <3>1. Proceed(e, p) /\ p.base = Len(History) /\ Current.managed = FALSE
      BY <2>1, <2>2, <2>4, <1>2 DEF SettleVerdict, Definitions
    <3>2. History[p.base].def.managed = FALSE
      BY <3>1, <1>2
    <3> QED BY <3>1, <3>2, <2>1, <1>1, ProceedKeeps
  <2>5. CASE v # "proceed"
    <3>1. Refuse(e, v) /\ v \in Answers
      BY <2>1, <2>2, <2>5, <1>3 DEF SettleVerdict
    <3> QED BY <3>1, <2>3, RefuseKeeps
  <2> QED BY <2>4, <2>5
<1>8. CASE ResolveRollback(e) \/ ResolveImport(e)
  <2>0. PICK i \in DOMAIN journal : \E x \in {journal[i].def, Revived(journal[i].def)} :
           Proceed(e, [p EXCEPT !.plan = x])
    BY <1>8 DEF ResolveRollback, ResolveImport
  <2>1. PICK d \in {journal[i].def, Revived(journal[i].def)} : Proceed(e, [p EXCEPT !.plan = d])
    BY <2>0
  <2>2. p.pc = "open" /\ p.kind \in {"rollback", "import"}
    BY <1>8 DEF ResolveRollback, ResolveImport, AtOpen
  <2>3. journal[i] \in Revisions /\ Bare(journal[i].def)
    BY ConfigFacts DEF ConfigInv, SoundJournal
  <2>4. journal[i].def \in Definitions
    BY <2>3 DEF Revisions
  <2>5. d \in Definitions /\ Bare(d)
    BY <2>3, <2>4, RevivedIs
  <2> DEFINE q == [p EXCEPT !.plan = d]
  <2>6. q \in Pages /\ q.pc = "open" /\ q.kind = p.kind /\ q.key = p.key /\ q.plan = d
    BY <1>1, <2>2, <2>5 DEF Pages
  <2>7. Proceed(e, q)
    BY <2>1
  <2> HIDE DEF q
  <2>8. ReadFrom(q, History, live)
    BY <1>1, <2>2, <2>5, <2>6 DEF ReadFrom
  <2> QED BY <2>2, <2>6, <2>7, <2>8, ProceedKeeps
<1> QED BY <1>4, <1>5, <1>6, <1>7, <1>8

-----------------------------------------------------------------------------
\* commitChangeIn writes a revision.
LEMMA JournalGrows ==
    ASSUME ConfigInv, NEW r \in Revisions, Bare(r.def), r.key <= Len(shown),
           GrowsByGrant(r, Current.perms), journal' = Append(History, r)
    PROVE  /\ SoundJournal(journal', Len(shown)) /\ Newest(journal') = r.def
           /\ Extends(journal, journal') /\ Extends(History, journal')
           /\ Len(journal') = Len(History) + 1 /\ journal'[Len(journal')] = r
           /\ \A i \in 1..Len(journal') : i > Len(journal) => journal'[i].key \in {0, r.key}
<1>1. /\ SoundJournal(History, Len(shown)) /\ Extends(journal, History)
      /\ Len(History) \in Nat /\ Len(History) >= 1
      /\ \A i \in 1..Len(History) : i > Len(journal) => History[i].key = 0
  BY HistoryIs
<1>2. Len(shown) \in Nat /\ Len(journal) \in Nat
  BY ConfigFacts
<1>3. /\ SoundJournal(journal', Len(shown)) /\ Newest(journal') = r.def /\ Extends(History, journal')
      /\ Len(journal') = Len(History) + 1 /\ journal'[Len(journal')] = r
  BY <1>1, <1>2, AppendIsSound DEF Current
<1> DEFINE n == Len(History)
           m == Len(journal')
           c == Len(journal)
<1>4. /\ n \in Nat /\ c \in Nat /\ m = n + 1 /\ c <= n /\ journal'[m] = r
      /\ \A i \in 1..n : journal'[i] = History[i]
      /\ \A i \in 1..c : History[i] = journal[i]
      /\ \A i \in 1..n : i > c => History[i].key = 0
  BY <1>1, <1>2, <1>3 DEF Extends
<1> HIDE DEF n, m, c
<1>5. /\ c <= m /\ \A i \in 1..c : journal'[i] = journal[i]
      /\ \A i \in 1..m : i > c => journal'[i].key \in {0, r.key}
  <2>0. c <= m /\ \A i \in 1..c : i \in 1..n
    BY <1>4
  <2>1. \A i \in 1..c : journal'[i] = journal[i]
    BY <1>4, <2>0
  <2>2. \A i \in 1..m : i = m \/ i \in 1..n
    BY <1>4
  <2> QED BY <1>4, <2>0, <2>1, <2>2
<1>6. Extends(journal, journal')
  BY <1>3, <1>5 DEF Extends, m, c
<1> QED BY <1>3, <1>5, <1>6 DEF m, c

\* The journal has grown, the row has followed it, and at most a page has moved.
LEMMA WriteStep ==
    ASSUME ConfigInv, NEW r \in Revisions, Bare(r.def), r.key <= Len(shown),
           GrowsByGrant(r, Current.perms), journal' = Append(History, r),
           row' \in Definitions, Agrees(r.def, row', live', release'),
           live' \in SUBSET live, lifecycle' \in {"ready", "retired"}, release' \in {"current", "old"},
           others' \in 0..MaxOthers, page' \in [Editors -> Pages],
           shown' \in Seq(Answers), Len(shown') >= Len(shown), Len(shown') <= MaxRequests,
           KeysFit(journal', page', shown'),
           \A e \in Editors : page'[e] = page[e] \/ ReadFrom(page'[e], History, live)
    PROVE  ConfigInv'
<1>1. /\ SoundJournal(journal', Len(shown)) /\ Newest(journal') = r.def
      /\ Extends(journal, journal') /\ Extends(History, journal')
  BY JournalGrows
<1>2. /\ journal \in Seq(Revisions) /\ live \subseteq Tools /\ page \in [Editors -> Pages]
      /\ Len(shown) \in Nat /\ Len(shown') \in Nat
  BY ConfigFacts
<1>3. History \in Seq(Revisions)
  BY HistoryIs DEF SoundJournal
<1>4. SoundJournal(journal', Len(shown'))
  BY <1>1, <1>2, SoundForMore
<1>5. \A e \in Editors : ReadFrom(page'[e], journal', live')
  <2> TAKE e \in Editors
  <2>1. ReadFrom(page'[e], History, live) /\ page'[e] \in Pages
    <3>1. ReadFrom(page[e], History, live)
      BY PageIs
    <3> QED BY <3>1
  <2> QED BY <2>1, <1>1, <1>3, StillRead
<1>6. ConfigTypeOK'
  <2>1. journal' \in Seq(Revisions) /\ journal' # <<>>
    BY <1>1 DEF SoundJournal
  <2> QED BY <1>2, <2>1 DEF ConfigTypeOK, Answers
<1> QED BY <1>1, <1>4, <1>5, <1>6 DEF ConfigInv

\* A change that is committed starts from the definition its request read.
LEMMA CurrentIsRead ==
    ASSUME ConfigInv, NEW e \in Editors, page[e].pc = "ready",
           page[e].kind \in {"patch", "attach", "adopt"}, page[e].base = Len(History)
    PROVE  /\ Current.in = TRUE
           /\ page[e].kind = "patch" =>
                page[e].seen = Current /\ \A f \in page[e].draft : page[e].seen[f] = page[e].edited[f]
           /\ page[e].kind \in {"attach", "adopt"} =>
                \E known \in SUBSET Tools :
                   live \subseteq known /\ page[e].plan.attach = Conversion(Current.perms, known)
           /\ page[e].kind = "adopt" => Current.managed = FALSE
<1>1. ReadFrom(page[e], History, live)
  BY PageIs
<1>2. Current = History[Len(History)].def
  BY HistoryIs
<1> QED BY <1>1, <1>2 DEF ReadFrom

\* applyChangeSet: what the requests make of the definition.
LEMMA DraftIs ==
    ASSUME ConfigInv, NEW e \in Editors, page[e].pc = "ready", page[e].base = Len(History),
           page[e].kind # "delete",
           page[e].kind = "update" => Current.attach[page[e].tool] # "none"
    PROVE  LET p == page[e]
               d == Draft(p)
           IN  /\ d \in Definitions /\ Bare(d)
               /\ p.kind \in {"attach", "adopt"} => d.managed = TRUE
               /\ p.kind = "adopt" => d.attach = p.plan.attach
               /\ p.kind = "attach" => \A t \in Tools \ {p.tool} :
                    d.attach[t] = IF Current.managed THEN Current.attach[t] ELSE p.plan.attach[t]
               /\ p.kind = "detach" => d.managed = Current.managed /\ d.perms = Current.perms
<1> DEFINE p == page[e]
<1>1. /\ p \in Pages /\ ReadFrom(p, History, live)
      /\ p.tool \in Tools /\ p.mode \in Modes /\ p.plan \in Definitions /\ p.kind \in AllRequests
      /\ p.perms \in [Tools -> Levels] /\ p.plan.attach \in [Tools -> Modes]
      /\ p.edited.enabled \in BOOLEAN
  BY PageIs DEF Pages, Definitions
<1>2. /\ Current \in Definitions /\ Bare(Current) /\ Current.attach \in [Tools -> Modes]
      /\ Current.managed \in BOOLEAN /\ Current.in \in BOOLEAN
      /\ Current.perms \in [Tools -> Levels] /\ Current.enabled \in BOOLEAN
  BY HistoryIs DEF Definitions
<1>3. p.kind \in {"patch", "attach", "adopt"} => Current.in = TRUE
  BY CurrentIsRead
<1> DEFINE c == Current
<1> HIDE DEF p, c
<1>4. CASE p.kind = "patch"
  <2> DEFINE en == IF "enabled" \in p.draft THEN ~p.edited.enabled ELSE c.enabled
             pe == IF "perms" \in p.draft THEN p.perms ELSE c.perms
             x == [c EXCEPT !.enabled = en]
             d == [x EXCEPT !.perms = pe]
  <2>1. en \in BOOLEAN /\ pe \in [Tools -> Levels] /\ c \in Definitions
    BY <1>1, <1>2 DEF c
  <2>2. Draft(p) = [c EXCEPT !.enabled = en, !.perms = pe]
    BY <1>4 DEF Draft, PatchDraft, c
  <2> HIDE DEF en, pe
  <2>3. x \in Definitions /\ x.in = c.in
    BY <2>1 DEF Definitions
  <2>4. Draft(p) = d
    BY <2>1, <2>2, <2>3 DEF Definitions
  <2> HIDE DEF x
  <2>5. d \in Definitions /\ d.in = c.in
    BY <2>1, <2>3 DEF Definitions
  <2> QED BY <2>4, <2>5, <1>3, <1>4 DEF p, c, Bare
<1>5. CASE p.kind = "attach"
  <2> DEFINE b == IF c.managed THEN c.attach ELSE p.plan.attach
             at == [b EXCEPT ![p.tool] = p.mode]
             x == [c EXCEPT !.attach = at]
             d == [x EXCEPT !.managed = TRUE]
  <2>1. b \in [Tools -> Modes] /\ c \in Definitions
    BY <1>1, <1>2 DEF c
  <2>2. Draft(p) = [c EXCEPT !.managed = TRUE, !.attach = at]
    BY <1>5 DEF Draft, AttachDraft, c
  <2>3. at \in [Tools -> Modes] /\ \A t \in Tools \ {p.tool} : at[t] = b[t]
    <3> HIDE DEF b
    <3> QED BY <1>1, <2>1
  <2> HIDE DEF at
  <2>4. x \in Definitions /\ x.in = c.in /\ x.attach = at
    BY <2>1, <2>3 DEF Definitions
  <2>5. Draft(p) = d
    BY <2>1, <2>2, <2>4 DEF Definitions
  <2> HIDE DEF x
  <2>6. d \in Definitions /\ d.in = c.in /\ d.attach = at /\ d.managed = TRUE
    BY <2>1, <2>4 DEF Definitions
  <2> HIDE DEF d
  <2> QED BY <2>3, <2>5, <2>6, <1>3, <1>5 DEF p, c, Bare
<1>6. CASE p.kind = "adopt"
  <2> DEFINE at == p.plan.attach
             x == [c EXCEPT !.attach = at]
             d == [x EXCEPT !.managed = TRUE]
  <2>1. at \in [Tools -> Modes] /\ c \in Definitions
    BY <1>1, <1>2 DEF c
  <2>2. Draft(p) = [c EXCEPT !.managed = TRUE, !.attach = at]
    BY <1>6 DEF Draft, AdoptDraft, c
  <2> HIDE DEF at
  <2>4. x \in Definitions /\ x.in = c.in /\ x.attach = at
    BY <2>1 DEF Definitions
  <2>5. Draft(p) = d
    BY <2>1, <2>2, <2>4 DEF Definitions
  <2> HIDE DEF x
  <2>6. d \in Definitions /\ d.in = c.in /\ d.attach = at /\ d.managed = TRUE
    BY <2>1, <2>4 DEF Definitions
  <2> HIDE DEF d
  <2> QED BY <2>5, <2>6, <1>3, <1>6 DEF p, c, Bare, at
<1>7. CASE p.kind \in {"update", "detach"}
  <2> DEFINE mo == IF p.kind = "detach" THEN "none" ELSE p.mode
             b == c.attach
             at == [b EXCEPT ![p.tool] = mo]
             d == [c EXCEPT !.attach = at]
  <2>1. b \in [Tools -> Modes] /\ mo \in Modes /\ c \in Definitions
    BY <1>1, <1>2 DEF Modes, c
  <2>2. Draft(p) = d
    BY <1>7 DEF Draft, BindingDraft, c
  <2>3. at \in [Tools -> Modes]
    BY <1>1, <2>1
  <2>4. c.in = FALSE => c.managed = FALSE /\ b = NoAttachments
    BY <1>2 DEF Bare, c
  <2>5. c.in = FALSE => p.kind = "detach"
    <3>1. c.in = FALSE => b[p.tool] = "none"
      BY <1>1, <2>4 DEF NoAttachments
    <3> QED BY <1>7, <3>1 DEF p, c
  <2>6. c.in = FALSE => at = NoAttachments
    BY <1>1, <2>1, <2>4, <2>5 DEF NoAttachments
  <2> HIDE DEF at
  <2>7. d \in Definitions /\ d.in = c.in /\ d.attach = at /\ d.managed = c.managed
        /\ d.perms = c.perms
    BY <2>1, <2>3 DEF Definitions
  <2> HIDE DEF d
  <2>8. Bare(d)
    BY <2>4, <2>6, <2>7 DEF Bare
  <2> QED BY <2>2, <2>7, <2>8, <1>7 DEF p, c
<1>8. CASE p.kind \in {"rollback", "import"}
  <2>1. Draft(p) = p.plan
    BY <1>8 DEF Draft
  <2>2. Bare(p.plan)
    BY <1>1, <1>8 DEF ReadFrom, p
  <2> QED BY <2>1, <2>2, <1>1, <1>8 DEF p
<1> QED BY <1>1, <1>4, <1>5, <1>6, <1>7, <1>8 DEF AllRequests, p

\* Whatever the request, the revision it commits adds only what was granted or confirmed.
LEMMA CommitGrows ==
    ASSUME ConfigInv, NEW e \in Editors, page[e].pc = "ready", page[e].kind # "delete",
           release = "current", CommitAnswer(page[e]) = "committed"
    PROVE  LET p == page[e]
               r == Revision(Mirror(Draft(p)), p.kind, p)
           IN  /\ r \in Revisions /\ r.def = Mirror(Draft(p)) /\ r.key = p.key
               /\ Draft(p) \in Definitions /\ Bare(Draft(p)) /\ Bare(r.def)
               /\ GrowsByGrant(r, Current.perms)
<1> DEFINE p == page[e]
           d == Draft(p)
           m == Mirror(d)
           r == Revision(m, p.kind, p)
<1>1. /\ p \in Pages /\ p.kind \in RequestKinds /\ p.tool \in Tools /\ p.accept \in SUBSET Tools
  BY PageIs DEF ReadFrom, Pages
<1>2. /\ p.base = Len(History) /\ (p.kind = "update" => Current.attach[p.tool] # "none")
      /\ ~AttachesDeleted(d)
      /\ p.kind = "detach" => Widening(d) \in {{}, p.accept}
  BY DEF CommitAnswer, Problems
<1>3. /\ d \in Definitions /\ Bare(d)
      /\ p.kind \in {"attach", "adopt"} => d.managed = TRUE
      /\ p.kind = "adopt" => d.attach = p.plan.attach
      /\ p.kind = "attach" => \A t \in Tools \ {p.tool} :
           d.attach[t] = IF Current.managed THEN Current.attach[t] ELSE p.plan.attach[t]
      /\ p.kind = "detach" => d.managed = Current.managed /\ d.perms = Current.perms
  BY <1>2, DraftIs
<1>4. live \subseteq Tools
  BY ConfigFacts
<1> HIDE DEF p, d
<1>5. /\ m \in Definitions /\ m.in = d.in /\ m.managed = d.managed /\ m.attach = d.attach
      /\ d.managed = TRUE => m.perms = Compile(d.attach, live)
      /\ d.managed = FALSE => m.perms = d.perms
  BY <1>3, <1>4, MirrorIs
<1> HIDE DEF m
<1>6. Bare(m)
  BY <1>3, <1>5 DEF Bare
<1>7. /\ r \in Revisions /\ r.def = m /\ r.by = p.kind /\ r.key = p.key /\ r.tool = p.tool
      /\ r.accept = p.accept
  <2>1. p.kind \in RequestKinds \cup {"apply", "backfill", "lifecycle", "old"}
    BY <1>1
  <2> QED BY <1>1, <1>5, <2>1, RevisionIs
<1> HIDE DEF r
<1>8. /\ Current \in Definitions /\ Bare(Current) /\ Agrees(Current, row, live, release)
      /\ Current.attach \in [Tools -> Modes] /\ Current.managed \in BOOLEAN
      /\ Current.in \in BOOLEAN /\ Current.perms \in [Tools -> Levels]
      /\ d.attach \in [Tools -> Modes]
  BY <1>3, HistoryIs DEF Definitions
<1>9. Current.managed = TRUE => Current.perms = Compile(Current.attach, live)
  BY <1>8 DEF Bare, Agrees
<1>10. ASSUME p.kind = "detach" PROVE GrowsByGrant(r, Current.perms)
  <2>1. CASE Current.managed = TRUE
    <3>1. Widening(d) = WidenedTools(Current.perms, Compile(d.attach, live))
      BY <2>1, <1>9 DEF Widening
    <3>2. WidenedTools(Current.perms, Compile(d.attach, live)) \subseteq p.accept
      BY <1>2, <1>10, <3>1
    <3>3. Abilities(Compile(d.attach, live)) \subseteq Abilities(Current.perms) \cup Unlocked(p.accept)
      BY <1>1, <1>4, <1>8, <3>2, WidenedUnlocks
    <3> QED BY <3>3, <2>1, <1>3, <1>5, <1>7, <1>10 DEF GrowsByGrant
  <2>2. CASE Current.managed = FALSE
    <3>1. m.perms = Current.perms
      BY <2>2, <1>3, <1>5, <1>10
    <3> QED BY <3>1, <1>7, <1>10 DEF GrowsByGrant
  <2> QED BY <2>1, <2>2, <1>8
<1>11. ASSUME p.kind = "adopt" PROVE GrowsByGrant(r, Current.perms)
  <2>1. PICK known \in SUBSET Tools :
           live \subseteq known /\ p.plan.attach = Conversion(Current.perms, known)
    BY <1>2, <1>11, CurrentIsRead DEF p
  <2>2. \A t \in Tools \ live : d.attach[t] = "none"
    BY <1>2 DEF AttachesDeleted
  <2>3. d.attach = Conversion(Current.perms, known)
    BY <2>1, <1>3, <1>11
  <2>4. Abilities(Compile(d.attach, live)) \subseteq Abilities(Current.perms)
    BY <2>1, <2>2, <2>3, <1>8, ConversionGrantsNothing
  <2> QED BY <2>4, <1>3, <1>5, <1>7, <1>11 DEF GrowsByGrant
<1>12. ASSUME p.kind = "attach" PROVE GrowsByGrant(r, Current.perms)
  <2>1. PICK known \in SUBSET Tools :
           live \subseteq known /\ p.plan.attach = Conversion(Current.perms, known)
    BY <1>2, <1>12, CurrentIsRead DEF p
  <2>2. ASSUME NEW t \in Tools \ {p.tool}, Current.perms[t] = "deny"
        PROVE  Compile(d.attach, live)[t] # "allow"
    <3>1. ASSUME t \in live PROVE d.attach[t] = "disabled"
      <4>1. CASE Current.managed = TRUE
        <5>1. Current.attach[t] = "disabled"
          BY <4>1, <3>1, <2>2, <1>4, <1>8, <1>9, DenialIsExplicit
        <5> QED BY <5>1, <4>1, <1>3, <1>12
      <4>2. CASE Current.managed = FALSE
        <5>1. Conversion(Current.perms, known)[t] = "disabled"
          BY <3>1, <2>1, <2>2, <1>8, ConversionIs
        <5> QED BY <5>1, <4>2, <2>1, <1>3, <1>12
      <4> QED BY <4>1, <4>2, <1>8
    <3> QED BY <3>1, <1>4, <1>8, DenialStays
  <2> QED BY <2>2, <1>3, <1>5, <1>7, <1>12 DEF GrowsByGrant
<1>13. ASSUME p.kind \notin {"detach", "adopt", "attach"} PROVE GrowsByGrant(r, Current.perms)
  BY <1>7, <1>13, <1>1 DEF GrowsByGrant, p
<1>14. GrowsByGrant(r, Current.perms)
  BY <1>10, <1>11, <1>12, <1>13
<1> QED BY <1>3, <1>6, <1>7, <1>14 DEF p, d, m, r

\* What becomes of the page once its request is answered, or the answer is lost.
LEMMA AfterCommit ==
    ASSUME ConfigInv, NEW e \in Editors, page[e].pc = "ready", page[e].kind # "delete",
           NEW q \in {AfterAnswer(page[e], CommitAnswer(page[e])), AfterLoss(page[e])}
    PROVE  /\ q \in Pages /\ KeyFits(q) /\ ReadFrom(q, History, live) /\ q.key \in {0, page[e].key}
           /\ q = AfterAnswer(page[e], CommitAnswer(page[e])) => q.key = 0
<1> DEFINE p == page[e]
           a == CommitAnswer(p)
           w == Widening(Draft(p))
<1>1. p \in Pages /\ ReadFrom(p, History, live) /\ KeyFits(p) /\ p.key \in Nat /\ p.pc = "ready"
  BY PageIs
<1>2. NoPage \in Pages /\ NoPage.key = 0 /\ KeyFits(NoPage) /\ ReadFrom(NoPage, History, live)
  BY Empties, NoPageFits
<1>3. w \in SUBSET Tools
  BY DEF Widening, WidenedTools
<1>4. a = "widens" => p.kind = "detach"
  BY DEF CommitAnswer
<1>5. 0 \in 0..MaxRequests
  BY ConfigurationAssumption
<1> DEFINE x == [p EXCEPT !.pc = "open", !.key = 0]
           y == [p EXCEPT !.pc = "open", !.key = 0, !.accept = w]
           z == [p EXCEPT !.pc = "open"]
<1>6. q = NoPage \/ (q = x /\ p.kind = "patch") \/ (q = y /\ a = "widens")
      \/ (q = z /\ p.kind \in {"attach", "update"} /\ q = AfterLoss(p))
      \/ (q = p /\ p.kind = "patch" /\ q = AfterLoss(p))
  BY DEF AfterAnswer, AfterLoss
<1>7. q = AfterAnswer(p, a) => q = NoPage \/ q = x \/ q = y
  BY DEF AfterAnswer
<1> HIDE DEF p, a, w
<1>8. /\ x \in Pages /\ x.pc = "open" /\ x.key = 0 /\ x.kind = p.kind /\ x.base = p.base
      /\ x.seen = p.seen /\ x.draft = p.draft /\ x.edited = p.edited /\ x.plan = p.plan
  BY <1>1, <1>5 DEF Pages
<1>9. /\ y \in Pages /\ y.pc = "open" /\ y.key = 0 /\ y.kind = p.kind
  BY <1>1, <1>3, <1>5 DEF Pages
<1>10. /\ z \in Pages /\ z.pc = "open" /\ z.key = p.key /\ z.kind = p.kind /\ z.base = p.base
       /\ z.plan = p.plan
  BY <1>1 DEF Pages
<1> HIDE DEF x, y, z
<1>11. CASE q = NoPage
  BY <1>2, <1>11
<1>12. CASE q = x /\ p.kind = "patch"
  <2>1. KeyFits(x) /\ ReadFrom(x, History, live)
    BY <1>1, <1>8, <1>12 DEF KeyFits, ReadFrom
  <2> QED BY <2>1, <1>8, <1>12
<1>13. CASE q = y /\ a = "widens"
  <2>1. KeyFits(y) /\ ReadFrom(y, History, live)
    BY <1>1, <1>4, <1>9, <1>13 DEF KeyFits, ReadFrom
  <2> QED BY <2>1, <1>9, <1>13
<1>14. CASE q = z /\ p.kind \in {"attach", "update"}
  <2>1. KeyFits(z) /\ ReadFrom(z, History, live)
    BY <1>1, <1>10, <1>14 DEF KeyFits, ReadFrom
  <2>2. q.key # 0
    BY <1>1, <1>10, <1>14 DEF KeyFits
  <2>3. q # AfterAnswer(p, a)
    BY <2>2, <1>2, <1>7, <1>8, <1>9
  <2> QED BY <2>1, <2>3, <1>10, <1>14 DEF p, a
<1>15. CASE q = p /\ p.kind = "patch"
  <2>1. q.key # 0
    BY <1>1, <1>15 DEF KeyFits
  <2>2. q # AfterAnswer(p, a)
    BY <2>1, <1>2, <1>7, <1>8, <1>9
  <2> QED BY <2>2, <1>1, <1>15 DEF p, a
<1> QED BY <1>6, <1>11, <1>12, <1>13, <1>14, <1>15

\* commitChange.
LEMMA CommitKeeps ==
    ASSUME ConfigInv, NEW e \in Editors, page[e].pc = "ready", page[e].kind # "delete",
           release = "current", Commits(e)
    PROVE  ConfigInv'
<1> DEFINE p == page[e]
           a == CommitAnswer(p)
           b == Answer(a)
<1>1. /\ a \in {"replayed", "conflict", "invalid", "widens", "unchanged", "committed"}
      /\ a \in Refusals => ~KeyUsed(p.key)
  BY DEF CommitAnswer, Refusals
<1>2. /\ b \in Answers /\ (b \in Refusals => a \in Refusals) /\ (a = "committed" => b = "ok")
  BY <1>1 DEF Answer, Answers, Refusals
<1>3. p.key \in Nat \ {0} /\ p.key <= Len(shown)
  BY PageIs DEF KeyFits
<1>4. /\ Len(shown) \in Nat /\ Len(shown) <= MaxRequests /\ shown \in Seq(Answers)
      /\ row \in Definitions /\ live \subseteq Tools /\ others \in 0..MaxOthers
      /\ lifecycle \in {"ready", "retired"}
  BY ConfigFacts DEF ConfigInv, ConfigTypeOK
<1>5. /\ lifecycle' = lifecycle /\ live' = live /\ release' = release
      /\ a # "committed" => journal' = History /\ row' = row
      /\ a = "committed" => /\ journal' = Append(History, Revision(Mirror(Draft(p)), p.kind, p))
                            /\ row' = Projected(Mirror(Draft(p)))
  BY DEF Commits
<1>6. PICK q \in {AfterAnswer(p, a), AfterLoss(p)} :
        /\ page' = [page EXCEPT ![e] = q]
        /\ \/ shown' = [shown EXCEPT ![p.key] = b] /\ q = AfterAnswer(p, a) /\ others' = others
           \/ shown' = shown /\ Other
  BY DEF Commits
<1>7. /\ q \in Pages /\ KeyFits(q) /\ ReadFrom(q, History, live) /\ q.key \in {0, p.key}
      /\ q = AfterAnswer(p, a) => q.key = 0
  BY AfterCommit
<1>8. others' \in 0..MaxOthers
  BY <1>4, <1>6, ConfigurationAssumption DEF Other
<1>9. a \in Refusals => Unused(History, p.key)
  BY <1>1, <1>3, NotUsed
<1>10. \/ shown' = shown
       \/ shown' = [shown EXCEPT ![p.key] = b] /\ q.key = 0
  BY <1>6, <1>7
<1>11. Len(shown') <= MaxRequests
  BY <1>4, <1>10
<1> HIDE DEF a, b, p
<1>12. CASE a # "committed"
  <2>1. /\ journal' = History /\ UNCHANGED <<row, lifecycle, live, release>>
        /\ page' = [page EXCEPT ![e] = q]
    BY <1>5, <1>6, <1>12
  <2>2. \/ shown' = shown /\ q.key \in {0, page[e].key}
        \/ /\ page[e].key # 0 /\ shown' = [shown EXCEPT ![page[e].key] = b] /\ q.key = 0
           /\ b \in Answers /\ (b \in Refusals => Unused(History, page[e].key))
    BY <1>2, <1>3, <1>7, <1>9, <1>10 DEF p
  <2> QED BY <1>7, <1>8, <1>11, <2>1, <2>2, PageStep
<1>13. CASE a = "committed"
  <2> DEFINE d == Draft(p)
             r == Revision(Mirror(d), p.kind, p)
  <2>1. /\ r \in Revisions /\ r.def = Mirror(d) /\ r.key = p.key
        /\ d \in Definitions /\ Bare(d) /\ Bare(r.def) /\ GrowsByGrant(r, Current.perms)
    BY <1>13, CommitGrows DEF a, p
  <2>2. journal' = Append(History, r) /\ row' = Projected(Mirror(d))
    BY <1>5, <1>13
  <2> HIDE DEF d, r
  <2>3. row' \in Definitions /\ Agrees(r.def, row', live', release')
    BY <1>4, <1>5, <2>1, <2>2, ProjectedAgrees
  <2>4. /\ Extends(journal, journal')
        /\ \A i \in 1..Len(journal') : i > Len(journal) => journal'[i].key \in {0, page[e].key}
    BY <1>3, <2>1, <2>2, JournalGrows DEF p
  <2>5. \/ shown' = shown /\ q.key \in {0, page[e].key}
        \/ /\ page[e].key # 0 /\ shown' = [shown EXCEPT ![page[e].key] = b] /\ q.key = 0
           /\ b \in Answers /\ (b \in Refusals => Unused(journal', page[e].key))
    <3>1. b \notin Refusals
      BY <1>2, <1>13 DEF Refusals
    <3> QED BY <3>1, <1>2, <1>3, <1>7, <1>10 DEF p
  <2>6. page' = [page EXCEPT ![e] = q]
    BY <1>6
  <2>7. /\ KeysFit(journal', page', shown') /\ page' \in [Editors -> Pages]
        /\ shown' \in Seq(Answers) /\ Len(shown') >= Len(shown)
    BY <1>7, <2>4, <2>5, <2>6, KeysStillFit
  <2>8. \A f \in Editors : page'[f] = page[f] \/ ReadFrom(page'[f], History, live)
    <3>1. page \in [Editors -> Pages]
      BY ConfigFacts
    <3> QED BY <1>7, <2>6, <3>1
  <2>9. r.key <= Len(shown)
    BY <1>3, <2>1
  <2>10. live' \in SUBSET live /\ lifecycle' \in {"ready", "retired"} /\ release' \in {"current", "old"}
    BY <1>4, <1>5
  <2> QED BY <1>8, <1>11, <2>1, <2>2, <2>3, <2>7, <2>8, <2>9, <2>10, WriteStep
<1> QED BY <1>12, <1>13

-----------------------------------------------------------------------------
\* Deleting an entry nothing attaches and nothing implies changes nobody's lists.
LEMMA CompileWithout ==
    ASSUME NEW attach \in [Tools -> Modes], NEW l \in SUBSET Tools, NEW t \in l, attach[t] = "none",
           ~HeldByImplication(attach, l, t)
    PROVE  Compile(attach, l) = Compile(attach, l \ {t})
<1> DEFINE b == Compile(attach, l)
           k == l \ {t}
           c == Compile(attach, k)
<1>1. k \in SUBSET Tools /\ t \in Tools
  OBVIOUS
<1>2. /\ b \in [Tools -> Levels]
      /\ b["run"] = IF "run" \notin l THEN "none"
                    ELSE IF attach["run"] = "allow" THEN "allow"
                    ELSE IF attach["run"] = "disabled" THEN "deny" ELSE "none"
      /\ b["write"] = IF "write" \in l /\ attach["write"] = "allow" THEN "allow"
                      ELSE IF "write" \in l /\ attach["write"] = "disabled" THEN "deny"
                      ELSE IF ~("run" \in l /\ attach["run"] = "allow") THEN "none"
                      ELSE IF "write" \in l THEN "allow" ELSE "deny"
  BY CompileIs
<1>3. /\ c \in [Tools -> Levels]
      /\ c["run"] = IF "run" \notin k THEN "none"
                    ELSE IF attach["run"] = "allow" THEN "allow"
                    ELSE IF attach["run"] = "disabled" THEN "deny" ELSE "none"
      /\ c["write"] = IF "write" \in k /\ attach["write"] = "allow" THEN "allow"
                      ELSE IF "write" \in k /\ attach["write"] = "disabled" THEN "deny"
                      ELSE IF ~("run" \in k /\ attach["run"] = "allow") THEN "none"
                      ELSE IF "write" \in k THEN "allow" ELSE "deny"
  BY <1>1, CompileIs
<1>4. t = "write" => ~("run" \in l /\ attach["run"] = "allow")
  <2> SUFFICES ASSUME t = "write", "run" \in l, attach["run"] = "allow"
               PROVE  FALSE
    OBVIOUS
  <2>1. "run" \in Granted(attach, l) /\ "write" \in Implied("run")
    BY ToolsAre DEF Granted
  <2>2. "write" \in Implications(attach, l)
    BY <2>1 DEF Implications
  <2> QED BY <2>2 DEF HeldByImplication
<1> HIDE DEF b, c
<1>5. b["run"] = c["run"] /\ b["write"] = c["write"]
  BY <1>1, <1>2, <1>3, <1>4, ToolsAre
<1>6. \A x \in Tools : b[x] = c[x]
  BY <1>5, ToolsAre
<1>7. b = c
  BY <1>2, <1>3, <1>6
<1> QED BY <1>7 DEF b, c

\* A removal that widens nothing leaves the entry implied by nothing.
LEMMA ClearedIsFree ==
    ASSUME NEW attach \in [Tools -> Modes], NEW l \in SUBSET Tools, NEW t \in l, attach[t] # "none",
           ~HeldByImplication(attach, l, t),
           WidenedTools(Compile(attach, l), Compile([attach EXCEPT ![t] = "none"], l)) = {}
    PROVE  ~HeldByImplication([attach EXCEPT ![t] = "none"], l, t)
<1> DEFINE a == [attach EXCEPT ![t] = "none"]
           b == Compile(attach, l)
           c == Compile(a, l)
<1>1. /\ a \in [Tools -> Modes] /\ a[t] = "none" /\ t \in Tools
      /\ \A x \in Tools : x # t => a[x] = attach[x]
  BY DEF Modes
<1> HIDE DEF a
<1> SUFFICES ASSUME HeldByImplication(a, l, t) PROVE FALSE
  BY DEF a
<1>2. PICK x \in Granted(a, l) : t \in Implied(x)
  BY DEF HeldByImplication, Implications
<1>3. x = "run" /\ t = "write" /\ "run" \in l /\ a["run"] = "allow"
  BY <1>1, <1>2, ToolsAre DEF Granted
<1>4. attach["run"] = "allow"
  BY <1>1, <1>3, ToolsAre
<1>5. "run" \in Granted(attach, l) /\ "write" \in Implied("run")
  BY <1>3, <1>4, ToolsAre DEF Granted
<1>6. attach["write"] = "disabled"
  BY <1>3, <1>5 DEF HeldByImplication, Implications
<1>7. b["write"] = "deny"
  BY <1>3, <1>6, CompileIs, ToolsAre
<1>8. c["write"] = "allow"
  <2>1. /\ c["write"] = IF "write" \in l /\ a["write"] = "allow" THEN "allow"
                      ELSE IF "write" \in l /\ a["write"] = "disabled" THEN "deny"
                      ELSE IF ~("run" \in l /\ a["run"] = "allow") THEN "none"
                      ELSE IF "write" \in l THEN "allow" ELSE "deny"
    BY <1>1, CompileIs
  <2> QED BY <2>1, <1>1, <1>3
<1>9. "write" \in WidenedTools(b, c)
  <2> HIDE DEF b, c
  <2> QED BY <1>7, <1>8, ToolsAre DEF WidenedTools
<1> QED BY <1>9 DEF a

\* deleteCatalogEntry.
LEMMA DeleteKeeps ==
    ASSUME ConfigInv, NEW e \in Editors, Delete(e)
    PROVE  ConfigInv'
<1> DEFINE p == page[e]
           t == p.tool
           attached == row.managed /\ row.attach[t] # "none"
           cleared == [Current EXCEPT !.attach[t] = "none"]
           answer == IF t \notin live \/ GrantedByLists(t) \/ GrantedByImplication(t) THEN "invalid"
                  ELSE IF attached # (p.seen.attach[t] # "none") THEN "conflict"
                  ELSE IF attached /\ Widening(cleared) # {} THEN "invalid" ELSE "ok"
           r == Revision(Mirror(cleared), "delete", p)
<1>1. /\ AtOpen(e, "delete") /\ Len(shown) < MaxRequests
      /\ shown' = Append(shown, answer) /\ page' = [page EXCEPT ![e] = NoPage]
      /\ live' = IF answer = "ok" THEN live \ {t} ELSE live
      /\ IF answer = "ok" /\ attached
         THEN journal' = Append(History, r) /\ row' = Projected(Mirror(cleared))
         ELSE UNCHANGED <<journal, row>>
      /\ UNCHANGED <<lifecycle, release, others>>
  BY DEF Delete
<1>2. /\ answer \in Answers
      /\ answer = "ok" => /\ t \in live /\ ~GrantedByImplication(t)
                          /\ attached => Widening(cleared) = {}
  BY DEF Answers
<1>3. /\ p \in Pages /\ p.key = 0 /\ p.kind = "delete" /\ "delete" \in RequestKinds
      /\ t \in Tools /\ p.accept \in SUBSET Tools /\ release = "current"
  <2>1. p \in Pages /\ ReadFrom(p, History, live) /\ KeyFits(p) /\ p.pc = "open"
        /\ p.kind = "delete" /\ release = "current"
    BY <1>1, PageIs DEF AtOpen
  <2> QED BY <2>1 DEF KeyFits, ReadFrom, Pages
<1>4. /\ journal \in Seq(Revisions) /\ live \subseteq Tools /\ page \in [Editors -> Pages]
      /\ shown \in Seq(Answers) /\ Len(shown) \in Nat /\ row \in Definitions
      /\ Newest(journal) \in Definitions /\ MaxRequests \in Nat /\ Len(journal) \in Nat
      /\ DOMAIN journal = 1..Len(journal)
      /\ others \in 0..MaxOthers /\ lifecycle \in {"ready", "retired"}
  BY ConfigFacts DEF ConfigInv, ConfigTypeOK
<1>5. /\ Agrees(Newest(journal), row, live, "current") /\ SoundJournal(journal, Len(shown))
      /\ \A f \in Editors : ReadFrom(page[f], journal, live)
  BY <1>3 DEF ConfigInv
<1>6. /\ Agrees(Current, row, live, "current") /\ Current \in Definitions /\ Bare(Current)
      /\ SoundJournal(History, Len(shown))
      /\ Current.managed = Newest(journal).managed /\ Current.attach = Newest(journal).attach
  BY <1>3, HistoryIs
<1>7. NoPage \in Pages /\ NoPage.key = 0 /\ KeyFits(NoPage) /\ ReadFrom(NoPage, History, live)
      /\ \A j, l : ReadFrom(NoPage, j, l)
  BY Empties, NoPageFits
<1> HIDE DEF answer, attached, cleared, r
<1>8. /\ shown' \in Seq(Answers) /\ Len(shown') = Len(shown) + 1 /\ Len(shown') <= MaxRequests
      /\ Len(shown') \in Nat
  BY <1>1, <1>2, <1>4
<1>9. CASE answer = "ok" /\ attached
  <2> DEFINE c == Current
             at == [c.attach EXCEPT ![t] = "none"]
             k == live \ {t}
  <2>1. /\ c \in Definitions /\ c.attach \in [Tools -> Modes] /\ c.managed \in BOOLEAN
        /\ c.perms \in [Tools -> Levels] /\ c.in \in BOOLEAN /\ row.managed \in BOOLEAN
    BY <1>4, <1>6 DEF Definitions
  <2>2. row.managed = TRUE /\ row.attach[t] # "none"
    BY <1>9, <2>1 DEF attached
  <2>3. c.managed = TRUE /\ c.attach = row.attach /\ Newest(journal).attach = row.attach
        /\ Newest(journal).managed = TRUE
    BY <1>5, <1>6, <2>2 DEF Agrees
  <2>4. c.in = TRUE /\ c.perms = Compile(c.attach, live)
    BY <1>6, <2>1, <2>3 DEF Bare, Agrees
  <2>5. t \in live /\ ~HeldByImplication(c.attach, live, t) /\ Widening(cleared) = {}
    BY <1>2, <1>9, <2>3 DEF GrantedByImplication
  <2>6. cleared = [c EXCEPT !.attach = at]
    BY DEF cleared
  <2>7. at \in [Tools -> Modes] /\ at[t] = "none"
    BY <1>3, <2>1 DEF Modes
  <2>8. c.attach[t] # "none"
    BY <2>2, <2>3
  <2> HIDE DEF c
  <2>9. WidenedTools(Compile(c.attach, live), Compile(at, live)) = {}
    <3> HIDE DEF at
    <3>1. cleared.attach = at
      BY <2>1, <2>6, <2>7 DEF Definitions
    <3> QED BY <2>3, <2>5, <3>1 DEF Widening, c
  <2>10. ~HeldByImplication(at, live, t)
    BY <1>4, <2>1, <2>5, <2>8, <2>9, ClearedIsFree
  <2> HIDE DEF at
  <2>11. /\ cleared \in Definitions /\ cleared.in = TRUE /\ cleared.managed = TRUE
         /\ cleared.attach = at
    BY <2>1, <2>3, <2>4, <2>6, <2>7 DEF Definitions
  <2>12. Compile(at, live) = Compile(at, k)
    BY <1>4, <2>5, <2>7, <2>10, CompileWithout
  <2> DEFINE m == Mirror(cleared)
  <2>13. /\ m \in Definitions /\ m.in = TRUE /\ m.managed = TRUE /\ m.attach = at
         /\ m.perms = Compile(at, live)
    BY <1>4, <2>11, MirrorIs
  <2>14. Bare(cleared) /\ Bare(m)
    BY <2>11, <2>13 DEF Bare
  <2>15. Projected(m) \in Definitions /\ Agrees(m, Projected(m), live, "current")
    BY <1>4, <2>11, <2>14, ProjectedAgrees
  <2> HIDE DEF m
  <2>16. /\ r \in Revisions /\ r.def = m /\ r.by = "delete" /\ r.key = 0 /\ r.accept = p.accept
    <3>1. "delete" \in RequestKinds \cup {"apply", "backfill", "lifecycle", "old"}
      BY <1>3
    <3> QED BY <1>3, <2>13, <3>1, RevisionIs DEF r, m
  <2>17. GrowsByGrant(r, Current.perms)
    <3>1. WidenedTools(c.perms, Compile(at, live)) \subseteq p.accept
      BY <2>4, <2>9
    <3>2. Abilities(Compile(at, live)) \subseteq Abilities(c.perms) \cup Unlocked(p.accept)
      BY <1>3, <1>4, <2>1, <2>7, <3>1, WidenedUnlocks
    <3> QED BY <3>2, <2>13, <2>16 DEF GrowsByGrant, c
  <2>18. journal' = Append(History, r) /\ row' = Projected(m) /\ live' = k
    BY <1>1, <1>9 DEF m
  <2>19. Agrees(r.def, row', live', release')
    BY <1>1, <1>3, <2>12, <2>13, <2>15, <2>16, <2>18 DEF Agrees
  <2>20. /\ Extends(journal, journal')
         /\ \A i \in 1..Len(journal') : i > Len(journal) => journal'[i].key \in {0, page[e].key}
    <3>1. r.key <= Len(shown) /\ Bare(r.def)
      BY <1>4, <2>14, <2>16
    <3>2. \A i \in 1..Len(journal') : i > Len(journal) => journal'[i].key \in {0, r.key}
      BY <2>16, <2>17, <2>18, <3>1, JournalGrows
    <3>3. Extends(journal, journal')
      BY <2>16, <2>17, <2>18, <3>1, JournalGrows
    <3> QED BY <3>2, <3>3, <1>3, <2>16
  <2>21. /\ KeysFit(journal', page', shown') /\ page' \in [Editors -> Pages]
         /\ Len(shown') >= Len(shown)
    BY <1>1, <1>2, <1>3, <1>7, <2>20, KeysStillFit
  <2>22. \A f \in Editors : page'[f] = page[f] \/ ReadFrom(page'[f], History, live)
    BY <1>1, <1>4, <1>7
  <2>23. /\ r.key <= Len(shown) /\ Bare(r.def) /\ row' \in Definitions /\ live' \in SUBSET live
         /\ lifecycle' \in {"ready", "retired"} /\ release' \in {"current", "old"}
         /\ others' \in 0..MaxOthers
    <3>1. r.key <= Len(shown) /\ Bare(r.def)
      BY <1>4, <2>14, <2>16
    <3>2. row' \in Definitions /\ live' \in SUBSET live
      BY <2>15, <2>18
    <3>3. lifecycle' = lifecycle /\ release' = release /\ others' = others
      BY <1>1
    <3> QED BY <1>3, <1>4, <3>1, <3>2, <3>3
  <2> QED BY <1>8, <2>16, <2>17, <2>18, <2>19, <2>21, <2>22, <2>23, WriteStep
<1>10. CASE ~(answer = "ok" /\ attached)
  <2> DEFINE d == Newest(journal)
  <2>1. journal' = journal /\ row' = row
    BY <1>1, <1>10
  <2>2. live' \in SUBSET live /\ Agrees(d, row, live', "current")
    <3>1. CASE answer = "ok"
      <4>1. ~(row.managed /\ row.attach[t] # "none")
        BY <3>1, <1>10 DEF attached
      <4>2. t \in live /\ ~GrantedByImplication(t) /\ live' = live \ {t}
        BY <1>1, <1>2, <3>1
      <4>3. d.managed \in BOOLEAN /\ d.attach \in [Tools -> Modes] /\ row.managed = d.managed
            /\ row.attach = d.attach
        BY <1>4, <1>5 DEF Definitions, Agrees
      <4>4. d.managed = TRUE => Compile(d.attach, live) = Compile(d.attach, live \ {t})
        <5>1. ASSUME d.managed = TRUE
              PROVE  d.attach[t] = "none" /\ ~HeldByImplication(d.attach, live, t)
          BY <4>1, <4>2, <4>3, <5>1 DEF GrantedByImplication
        <5> QED BY <5>1, <4>2, <4>3, <1>4, CompileWithout
      <4> HIDE DEF d
      <4>5. Agrees(d, row, live, "current")
        BY <1>5 DEF d
      <4> QED BY <4>2, <4>4, <4>5 DEF Agrees
    <3>2. CASE answer # "ok"
      BY <3>2, <1>1, <1>5
    <3> QED BY <3>1, <3>2
  <2>3. Extends(journal, journal')
    BY <1>4, <2>1 DEF Extends
  <2>4. \A i \in 1..Len(journal') : i > Len(journal) => journal'[i].key \in {0, page[e].key}
    BY <1>4, <2>1
  <2>5. /\ KeysFit(journal', page', shown') /\ page' \in [Editors -> Pages]
    BY <1>1, <1>2, <1>3, <1>7, <2>3, <2>4, KeysStillFit
  <2>6. SoundJournal(journal', Len(shown'))
    BY <1>4, <1>5, <1>8, <2>1, SoundForMore
  <2>7. \A f \in Editors : ReadFrom(page'[f], journal', live')
    <3> TAKE f \in Editors
    <3>1. page'[f] = NoPage \/ page'[f] = page[f]
      BY <1>1, <1>4
    <3>2. ReadFrom(page[f], journal', live')
      BY <1>4, <1>5, <2>2, <2>3, StillRead
    <3> QED BY <3>1, <3>2, <1>7
  <2>8. ConfigTypeOK'
    <3>1. journal' \in Seq(Revisions) /\ journal' # <<>> /\ release \in {"current", "old"}
      BY <1>3, <2>6 DEF SoundJournal
    <3>2. live' \subseteq Tools
      BY <1>4, <2>2
    <3> QED BY <1>1, <1>4, <1>8, <2>1, <2>5, <3>1, <3>2 DEF ConfigTypeOK, Answers
  <2>9. Agrees(Newest(journal'), row', live', release')
    BY <1>1, <1>3, <2>1, <2>2
  <2> QED BY <2>5, <2>6, <2>7, <2>8, <2>9 DEF ConfigInv
<1> QED BY <1>9, <1>10

-----------------------------------------------------------------------------
\* A revision under no key leaves every page and every answer as it fits.
LEMMA UnkeyedFits ==
    ASSUME ConfigInv, Extends(journal, journal'), page' = page, shown' = shown,
           \A i \in 1..Len(journal') : i > Len(journal) => journal'[i].key = 0
    PROVE  KeysFit(journal', page', shown')
<1>1. KeysFit(journal, page, shown) /\ Len(journal) \in Nat /\ DOMAIN journal = 1..Len(journal)
  BY ConfigFacts DEF ConfigInv
<1>2. /\ DOMAIN journal' = 1..Len(journal') /\ Len(journal') \in Nat
      /\ \A i \in 1..Len(journal) : journal'[i] = journal[i]
  BY DEF Extends
<1>3. \A k \in Nat \ {0} : Unused(journal, k) => Unused(journal', k)
  BY <1>1, <1>2 DEF Unused
<1>4. \A k \in 1..Len(shown) : k \in Nat \ {0}
  BY ConfigFacts
<1> QED BY <1>1, <1>3, <1>4 DEF KeysFit

\* A revision no request asked for.
LEMMA RecordKeeps ==
    ASSUME ConfigInv, NEW d \in Definitions, Bare(d), NEW by \in {"apply", "lifecycle", "old"},
           journal' = Append(History, Revision(d, by, NoPage)),
           row' \in Definitions, Agrees(d, row', live, release),
           UNCHANGED <<live, page, shown, release>>,
           lifecycle' \in {"ready", "retired"}, others' \in 0..MaxOthers
    PROVE  ConfigInv'
<1> DEFINE r == Revision(d, by, NoPage)
<1>1. r \in Revisions /\ r.def = d /\ r.by = by /\ r.key = 0
  <2>1. by \in RequestKinds \cup {"apply", "backfill", "lifecycle", "old"}
    OBVIOUS
  <2>2. NoPage \in Pages /\ NoPage.key = 0
    BY Empties
  <2> QED BY <2>1, <2>2, RevisionIs
<1>2. journal' = Append(History, r)
  OBVIOUS
<1> HIDE DEF r
<1>3. /\ Len(shown) \in Nat /\ page \in [Editors -> Pages] /\ shown \in Seq(Answers)
      /\ Len(shown) <= MaxRequests /\ release \in {"current", "old"}
  BY ConfigFacts DEF ConfigInv, ConfigTypeOK
<1>4. GrowsByGrant(r, Current.perms) /\ r.key <= Len(shown) /\ Bare(r.def)
  BY <1>1, <1>3 DEF GrowsByGrant
<1>5. Extends(journal, journal')
  BY <1>1, <1>2, <1>4, JournalGrows
<1>6. \A i \in 1..Len(journal') : i > Len(journal) => journal'[i].key \in {0, r.key}
  BY <1>1, <1>2, <1>4, JournalGrows
<1>7. KeysFit(journal', page', shown')
  BY <1>1, <1>5, <1>6, UnkeyedFits
<1>8. /\ page' \in [Editors -> Pages] /\ shown' \in Seq(Answers) /\ Len(shown') >= Len(shown)
      /\ Len(shown') <= MaxRequests /\ live' \in SUBSET live /\ release' \in {"current", "old"}
      /\ \A e \in Editors : page'[e] = page[e] \/ ReadFrom(page'[e], History, live)
  BY <1>3
<1>9. Agrees(r.def, row', live', release')
  BY <1>1
<1> QED BY <1>1, <1>2, <1>4, <1>7, <1>8, <1>9, WriteStep

\* findLastConfiguredAgent: the first revision configures the agent, so there is a last one that does.
LEMMA LastConfiguredIs ==
    ASSUME ConfigInv
    PROVE  LastConfigured \in Definitions /\ Bare(LastConfigured)
<1> DEFINE n == Len(journal)
           S == {i \in 1..n : journal[i].def.in}
           T == {n - i : i \in S}
<1>1. /\ n \in Nat /\ n >= 1 /\ DOMAIN journal = 1..n
      /\ \A i \in 1..n : journal[i].def \in Definitions /\ Bare(journal[i].def)
      /\ journal[1].def.in
  <2>1. journal \in Seq(Revisions) /\ n \in Nat /\ n >= 1 /\ DOMAIN journal = 1..n
    BY ConfigFacts
  <2>2. \A i \in 1..n : journal[i] \in Revisions
    BY <2>1
  <2> QED BY <2>1, <2>2 DEF ConfigInv, SoundJournal, Revisions
<1> HIDE DEF n
<1>2. T \in SUBSET Nat /\ n - 1 \in T
  BY <1>1
<1>3. PICK t \in T : \A m \in T : ~(<<m, t>> \in OpToRel(<, Nat))
  BY <1>2, NatLessThanWellFounded, WFMin
<1>4. \A m \in T : ~(m < t)
  BY <1>2, <1>3 DEF OpToRel
<1>5. PICK i \in S : t = n - i
  BY <1>3
<1>6. \A j \in S : ~(n - j < n - i)
  BY <1>4, <1>5
<1>7. \A j \in 1..n : journal[j].def.in => j <= i
  BY <1>1, <1>6
<1> DEFINE P(x) == journal[x].def.in /\ \A j \in DOMAIN journal : journal[j].def.in => j <= x
           c == CHOOSE x \in DOMAIN journal : P(x)
<1>8. i \in DOMAIN journal /\ P(i)
  BY <1>1, <1>5, <1>7
<1>9. c \in DOMAIN journal
  <2> HIDE DEF P
  <2> QED BY <1>8
<1>10. LastConfigured = journal[c].def
  BY DEF LastConfigured
<1> QED BY <1>1, <1>9, <1>10

\* applyConfig, requestAgentRetire and requestAgentRestore.
LEMMA ConfiguredKeeps ==
    ASSUME ConfigInv,
           \/ \E list \in LegacyLists, in \in BOOLEAN : Apply(list, in)
           \/ RetireRow \/ Restore
    PROVE  ConfigInv'
<1>1. /\ row \in Definitions /\ live \subseteq Tools /\ lifecycle \in {"ready", "retired"}
      /\ others \in 0..MaxOthers /\ MaxOthers \in Nat
  BY ConfigFacts, ConfigurationAssumption DEF ConfigInv, ConfigTypeOK
<1>2. Absent \in Definitions /\ Bare(Absent)
  BY Empties
<1>3. ASSUME NEW d \in Definitions, Bare(d), NEW by \in {"apply", "lifecycle"}, Records(d, by),
             lifecycle' \in {"ready", "retired"}, others' \in 0..MaxOthers
      PROVE  ConfigInv'
  <2> DEFINE m == Mirror(d)
  <2>1. /\ journal' = Append(History, Revision(m, by, NoPage)) /\ row' = Projected(m)
        /\ UNCHANGED <<live, page, shown, release>>
    BY <1>3 DEF Records
  <2>2. m \in Definitions /\ Bare(m)
    BY <1>1, <1>3, MirrorIs DEF Bare
  <2>3. Projected(m) \in Definitions /\ Agrees(m, Projected(m), live, release)
    BY <1>1, <1>3, ProjectedAgrees
  <2> HIDE DEF m
  <2> QED BY <1>3, <2>1, <2>2, <2>3, RecordKeeps
<1>4. Other => others' \in 0..MaxOthers
  BY <1>1 DEF Other
<1>5. ASSUME NEW list \in LegacyLists, NEW in \in BOOLEAN, Apply(list, in) PROVE ConfigInv'
  <2> DEFINE x == [Current EXCEPT !.in = TRUE]
             y == [x EXCEPT !.enabled = TRUE]
             z == [y EXCEPT !.perms = list]
             d == IF in THEN [Current EXCEPT !.in = TRUE, !.enabled = TRUE, !.perms = list] ELSE Absent
  <2>1. Current \in Definitions /\ list \in [Tools -> Levels]
    BY HistoryIs, ConfigurationAssumption
  <2>2. x \in Definitions /\ x.in = TRUE
    BY <2>1 DEF Definitions
  <2>3. y \in Definitions /\ y.in = TRUE
    <3> HIDE DEF x
    <3> QED BY <2>2 DEF Definitions
  <2>4. z \in Definitions /\ z.in = TRUE
    <3> HIDE DEF y
    <3> QED BY <2>1, <2>3 DEF Definitions
  <2>5. z = [Current EXCEPT !.in = TRUE, !.enabled = TRUE, !.perms = list]
    BY <2>1 DEF Definitions
  <2> HIDE DEF z
  <2>6. d \in Definitions /\ Bare(d)
    BY <1>2, <2>4, <2>5 DEF Bare
  <2>7. Records(d, "apply") /\ Other /\ lifecycle' = lifecycle
    BY <1>5 DEF Apply
  <2> HIDE DEF d
  <2> QED BY <1>1, <1>3, <1>4, <2>6, <2>7
<1>6. CASE RetireRow
  <2>1. Records(Absent, "lifecycle") /\ Other /\ lifecycle' = "retired"
    BY <1>6 DEF RetireRow
  <2> QED BY <1>2, <1>3, <1>4, <2>1
<1>7. CASE Restore
  <2>1. Records(Revived(LastConfigured), "lifecycle") /\ others' = others /\ lifecycle' = "ready"
    BY <1>7 DEF Restore
  <2>2. Revived(LastConfigured) \in Definitions /\ Bare(Revived(LastConfigured))
    BY LastConfiguredIs, RevivedIs
  <2> QED BY <1>1, <1>3, <2>1, <2>2
<1> QED BY <1>5, <1>6, <1>7

\* An older release runs for a while.
LEMMA ReleaseKeeps ==
    ASSUME ConfigInv,
           \/ Downgrade \/ OldToggle \/ Upgrade \/ \E list \in LegacyLists : OldApply(list)
    PROVE  ConfigInv'
<1>1. /\ row \in Definitions /\ live \subseteq Tools /\ lifecycle \in {"ready", "retired"}
      /\ others \in 0..MaxOthers /\ MaxOthers \in Nat /\ release \in {"current", "old"}
      /\ journal \in Seq(Revisions) /\ journal # <<>> /\ page \in [Editors -> Pages]
      /\ shown \in Seq(Answers) /\ Len(shown) <= MaxRequests /\ Len(journal) \in Nat
      /\ Newest(journal) \in Definitions
  BY ConfigFacts, ConfigurationAssumption DEF ConfigInv, ConfigTypeOK
<1>2. ASSUME journal' \in {journal, History}, row' \in Definitions,
             Agrees(Newest(journal'), row', live, release'), release' \in {"current", "old"},
             others' \in 0..MaxOthers, UNCHANGED <<lifecycle, live, page, shown>>
      PROVE  ConfigInv'
  <2>1. /\ SoundJournal(journal', Len(shown)) /\ Extends(journal, journal')
        /\ \A i \in 1..Len(journal') : i > Len(journal) => journal'[i].key = 0
    <3>1. /\ SoundJournal(journal, Len(shown)) /\ Extends(journal, journal)
          /\ \A i \in 1..Len(journal) : i > Len(journal) => journal[i].key = 0
      BY <1>1 DEF ConfigInv, Extends
    <3>2. /\ SoundJournal(History, Len(shown)) /\ Extends(journal, History)
          /\ \A i \in 1..Len(History) : i > Len(journal) => History[i].key = 0
      BY HistoryIs
    <3> QED BY <1>2, <3>1, <3>2
  <2>2. KeysFit(journal', page', shown')
    BY <1>2, <2>1, UnkeyedFits
  <2>3. \A e \in Editors : ReadFrom(page'[e], journal', live')
    <3> TAKE e \in Editors
    <3>1. ReadFrom(page[e], journal, live) /\ page[e] \in Pages
      BY <1>1 DEF ConfigInv
    <3>2. ReadFrom(page[e], journal', live)
      BY <1>1, <2>1, <3>1, StillRead
    <3> QED BY <1>2, <3>2
  <2>4. ConfigTypeOK'
    <3>1. journal' \in Seq(Revisions) /\ journal' # <<>>
      BY <2>1 DEF SoundJournal
    <3> QED BY <1>1, <1>2, <3>1 DEF ConfigTypeOK, Answers
  <2> QED BY <1>2, <2>1, <2>2, <2>3, <2>4 DEF ConfigInv
<1>3. Agrees(Newest(journal), row, live, release)
  BY DEF ConfigInv
<1>4. CASE Downgrade
  <2>1. release' = "old" /\ UNCHANGED <<journal, row, lifecycle, live, page, shown, others>>
    BY <1>4 DEF Downgrade
  <2>2. Agrees(Newest(journal'), row', live, release')
    BY <1>3, <2>1 DEF Agrees
  <2> QED BY <1>1, <1>2, <2>1, <2>2
<1>5. CASE OldToggle
  <2> DEFINE en == ~row.enabled
             w == [row EXCEPT !.enabled = en]
  <2>1. /\ row' = w /\ Other /\ UNCHANGED <<journal, lifecycle, live, page, shown, release>>
    BY <1>5 DEF OldToggle
  <2>2. en \in BOOLEAN
    OBVIOUS
  <2> HIDE DEF en
  <2>3. /\ w \in Definitions /\ w.in = row.in /\ w.managed = row.managed /\ w.attach = row.attach
        /\ w.perms = row.perms
    BY <1>1, <2>2 DEF Definitions
  <2> HIDE DEF w
  <2>4. Agrees(Newest(journal'), row', live, release')
    BY <1>3, <2>1, <2>3 DEF Agrees
  <2>5. others' \in 0..MaxOthers
    BY <1>1, <2>1 DEF Other
  <2>6. row' \in Definitions /\ release' \in {"current", "old"} /\ journal' = journal
    BY <1>1, <2>1, <2>3
  <2> QED BY <1>2, <2>1, <2>4, <2>5, <2>6
<1>6. CASE Upgrade
  <2> DEFINE d == Newest(journal)
             x == [row EXCEPT !.managed = d.managed]
             w == [x EXCEPT !.attach = d.attach]
  <2>1. /\ release' = "current" /\ journal' = History /\ row' = Reconciled
        /\ UNCHANGED <<lifecycle, live, page, shown, others>>
    BY <1>6 DEF Upgrade
  <2>2. /\ Agrees(Current, row, live, release) /\ Current.managed = d.managed
        /\ Current.attach = d.attach
    BY HistoryIs
  <2>3. d.managed \in BOOLEAN /\ d.attach \in [Tools -> Modes]
    BY <1>1 DEF Definitions
  <2>4. Reconciled = [row EXCEPT !.managed = d.managed, !.attach = d.attach]
    BY DEF Reconciled
  <2> HIDE DEF d
  <2>5. /\ x \in Definitions /\ x.in = row.in /\ x.managed = d.managed /\ x.perms = row.perms
    BY <1>1, <2>3 DEF Definitions
  <2>6. Reconciled = w
    BY <1>1, <2>4 DEF Definitions
  <2> HIDE DEF x
  <2>7. /\ w \in Definitions /\ w.in = row.in /\ w.managed = d.managed /\ w.attach = d.attach
        /\ w.perms = row.perms
    BY <2>3, <2>5 DEF Definitions
  <2> HIDE DEF w
  <2>8. Agrees(Current, w, live, "current")
    BY <2>2, <2>7 DEF Agrees
  <2>9. Agrees(Newest(journal'), row', live, release')
    BY <2>1, <2>6, <2>8 DEF Current
  <2>10. row' \in Definitions /\ release' \in {"current", "old"} /\ others' \in 0..MaxOthers
    BY <1>1, <2>1, <2>6, <2>7
  <2> QED BY <1>2, <2>1, <2>9, <2>10
<1>7. ASSUME NEW list \in LegacyLists, OldApply(list) PROVE ConfigInv'
  <2> DEFINE c == Newest(journal)
             na == NoAttachments
             x == [c EXCEPT !.perms = list, !.managed = FALSE, !.attach = na]
             d == [x EXCEPT !.enabled = TRUE]
             y == [row EXCEPT !.perms = list]
             w == [y EXCEPT !.enabled = TRUE]
  <2>1. /\ release = "old" /\ row.in /\ Other
        /\ journal' = Append(History, Revision(d, "old", NoPage))
        /\ row' = [row EXCEPT !.perms = list, !.enabled = TRUE]
        /\ UNCHANGED <<lifecycle, live, page, shown, release>>
    BY <1>7 DEF OldApply
  <2>2. list \in [Tools -> Levels] /\ na \in [Tools -> Modes] /\ row.in = TRUE /\ c \in Definitions
        /\ c.in = TRUE
    BY <1>1, <1>3, <2>1, Empties, ConfigurationAssumption DEF Definitions, Agrees
  <2> HIDE DEF c, na
  <2>3. x \in Definitions /\ x.in = TRUE /\ x.managed = FALSE /\ x.attach = na /\ x.perms = list
    BY <2>2 DEF Definitions
  <2> HIDE DEF x
  <2>4. d \in Definitions /\ d.in = TRUE /\ d.managed = FALSE /\ d.attach = na /\ d.perms = list
    BY <2>3 DEF Definitions
  <2>5. y \in Definitions /\ y.in = TRUE /\ y.perms = list
    BY <1>1, <2>2 DEF Definitions
  <2>6. row' = w
    BY <1>1, <2>1, <2>2 DEF Definitions
  <2> HIDE DEF y
  <2>7. w \in Definitions /\ w.in = TRUE /\ w.perms = list
    BY <2>5 DEF Definitions
  <2> HIDE DEF d, w
  <2>8. Bare(d) /\ Agrees(d, row', live, release) /\ row' \in Definitions
    BY <2>1, <2>4, <2>6, <2>7 DEF Bare, Agrees
  <2>9. others' \in 0..MaxOthers /\ lifecycle' \in {"ready", "retired"}
    BY <1>1, <2>1 DEF Other
  <2> QED BY <2>1, <2>4, <2>8, <2>9, RecordKeeps
<1> QED BY <1>4, <1>5, <1>6, <1>7

-----------------------------------------------------------------------------
\* A configuration written by hand, or imported with its attachments.
LEMMA ConfigInitKeeps == ConfigInit => ConfigInv
<1> SUFFICES ASSUME ConfigInit PROVE ConfigInv
  OBVIOUS
<1>1. PICK list \in LegacyLists, hub \in BOOLEAN :
        LET attach == IF hub THEN Conversion(list, Tools) ELSE NoAttachments
        IN  row = [in |-> TRUE, enabled |-> TRUE, managed |-> hub, attach |-> attach,
                   perms |-> IF hub THEN Compile(attach, Tools) ELSE list]
  BY DEF ConfigInit
<1> DEFINE attach == IF hub THEN Conversion(list, Tools) ELSE NoAttachments
           lists == IF hub THEN Compile(attach, Tools) ELSE list
<1>2. /\ journal = <<Revision(row, "apply", NoPage)>> /\ lifecycle = "ready" /\ live = Tools
      /\ page = [e \in Editors |-> NoPage] /\ shown = <<>> /\ release = "current" /\ others = 0
  BY DEF ConfigInit
<1>3. list \in [Tools -> Levels] /\ MaxRequests \in Nat /\ MaxOthers \in Nat
  BY ConfigurationAssumption
<1>4. attach \in [Tools -> Modes]
  BY <1>3, Empties, ConversionIs
<1>5. lists \in [Tools -> Levels] /\ (hub = TRUE => lists = Compile(attach, Tools))
  <2> HIDE DEF attach
  <2> QED BY <1>3, <1>4, CompileIs
<1>6. row = [in |-> TRUE, enabled |-> TRUE, managed |-> hub, attach |-> attach, perms |-> lists]
  BY <1>1
<1> HIDE DEF attach, lists
<1>7. /\ row \in Definitions /\ row.in = TRUE /\ row.managed = hub /\ row.attach = attach
      /\ row.perms = lists
  BY <1>4, <1>5, <1>6 DEF Definitions
<1> DEFINE r == Revision(row, "apply", NoPage)
<1>8. r \in Revisions /\ r.def = row /\ r.key = 0
  <2>1. "apply" \in RequestKinds \cup {"apply", "backfill", "lifecycle", "old"}
    OBVIOUS
  <2>2. NoPage \in Pages /\ NoPage.key = 0
    BY Empties
  <2> QED BY <1>7, <2>1, <2>2, RevisionIs
<1>9. journal = <<r>>
  BY <1>2
<1> HIDE DEF r
<1>10. /\ journal \in Seq(Revisions) /\ journal # <<>> /\ Len(journal) = 1 /\ DOMAIN journal = {1}
       /\ journal[1] = r /\ Len(shown) = 0 /\ shown \in Seq(Answers)
  BY <1>2, <1>8, <1>9
<1>11. SoundJournal(journal, Len(shown))
  BY <1>7, <1>8, <1>10 DEF SoundJournal, Bare
<1>12. Agrees(Newest(journal), row, live, release)
  BY <1>2, <1>5, <1>7, <1>8, <1>10 DEF Agrees, Newest
<1>13. NoPage \in Pages /\ NoPage.key = 0 /\ KeyFits(NoPage) /\ \A j, l : ReadFrom(NoPage, j, l)
  BY Empties, NoPageFits
<1>14. page \in [Editors -> Pages] /\ \A e \in Editors : page[e] = NoPage
  BY <1>2, <1>13
<1>15. KeysFit(journal, page, shown)
  BY <1>10, <1>13, <1>14 DEF KeysFit
<1>16. ConfigTypeOK
  BY <1>2, <1>3, <1>7, <1>10, <1>14 DEF ConfigTypeOK, Answers
<1> QED BY <1>11, <1>12, <1>13, <1>14, <1>15, <1>16 DEF ConfigInv

\* No step of any request, apply, retirement or release breaks the invariant.
LEMMA ConfigStepKeeps == ConfigInv /\ [ConfigNext]_configVars => ConfigInv'
<1> SUFFICES ASSUME ConfigInv, [ConfigNext]_configVars PROVE ConfigInv'
  OBVIOUS
<1>1. CASE UNCHANGED configVars
  BY <1>1 DEF configVars, ConfigInv, ConfigTypeOK, SoundJournal, Agrees, ReadFrom, KeysFit, Newest
<1>2. ASSUME NEW e \in Editors,
             \/ OpenPatch(e) \/ OpenAttach(e) \/ OpenUpdate(e) \/ OpenDetach(e) \/ OpenAdopt(e)
             \/ OpenDelete(e) \/ OpenBundle(e)
      PROVE  ConfigInv'
  BY <1>2, OpenKeeps
<1>3. ASSUME NEW e \in Editors, ReviewPatch(e) PROVE ConfigInv'
  BY <1>3, ReviewKeeps
<1>4. ASSUME NEW e \in Editors,
             \/ ResolveAttach(e) \/ ResolveUpdate(e) \/ ResolveDetach(e) \/ ResolveAdopt(e)
             \/ ResolveRollback(e) \/ ResolveImport(e)
      PROVE  ConfigInv'
  BY <1>4, ResolveKeeps
<1>5. ASSUME NEW e \in Editors,
             \/ SendPatch(e) \/ SendAttach(e) \/ SendUpdate(e) \/ SendDetach(e) \/ SendAdopt(e)
             \/ SendBundle(e)
      PROVE  ConfigInv'
  <2>1. Commits(e) /\ page[e].pc = "ready" /\ release = "current" /\ page[e].kind # "delete"
    BY <1>5 DEF SendPatch, SendAttach, SendUpdate, SendDetach, SendAdopt, SendBundle, AtReady
  <2> QED BY <2>1, CommitKeeps
<1>6. ASSUME NEW e \in Editors, Delete(e) PROVE ConfigInv'
  BY <1>6, DeleteKeeps
<1>7. CASE \/ \E list \in LegacyLists, in \in BOOLEAN : Apply(list, in)
           \/ RetireRow \/ Restore
  BY <1>7, ConfiguredKeeps
<1>8. CASE \/ Downgrade \/ OldToggle \/ Upgrade \/ \E list \in LegacyLists : OldApply(list)
  BY <1>8, ReleaseKeeps
<1> QED BY <1>1, <1>2, <1>3, <1>4, <1>5, <1>6, <1>7, <1>8 DEF ConfigNext

\* The inductive invariant holds throughout.
THEOREM ConfigInvHolds == ConfigSpec => []ConfigInv
BY ConfigInitKeeps, ConfigStepKeeps, PTL DEF ConfigSpec

\* Every revision, page and answer is one the schema and the forms allow, whatever the requests race.
THEOREM ConfigTypeCorrect == ConfigSpec => []ConfigTypeOK
<1>1. ConfigInv => ConfigTypeOK
  BY DEF ConfigInv
<1> QED BY <1>1, ConfigInvHolds, PTL

\* loadEffectivePermissionsIn enforces what the active revision records, over deletions of catalog
\* entries, rollbacks and the applies of an older release.
THEOREM EnforcedIsRecorded == ConfigSpec => []EnforcedAsRecorded
<1>1. ConfigInv => EnforcedAsRecorded
  <2> SUFFICES ASSUME ConfigInv, release = "current" PROVE
         Newest(journal).in = row.in /\ (row.in => Enforced = Newest(journal).perms)
    BY DEF EnforcedAsRecorded
  <2> DEFINE d == Newest(journal)
  <2>1. Agrees(d, row, live, release) /\ row.in \in BOOLEAN /\ row.managed \in BOOLEAN
    BY ConfigFacts DEF ConfigInv, Definitions
  <2> HIDE DEF d
  <2>2. d.in = row.in
    BY <2>1 DEF Agrees
  <2>3. CASE row.managed = TRUE
    BY <2>1, <2>2, <2>3 DEF Agrees, Enforced, d
  <2>4. CASE row.managed = FALSE
    BY <2>1, <2>2, <2>4 DEF Agrees, Enforced, d
  <2> QED BY <2>1, <2>3, <2>4
<1> QED BY <1>1, ConfigInvHolds, PTL

\* changeSetWidenings and legacyConversionAttachments: a detachment, a deletion or an adoption adds
\* only what a person confirmed, and attaching a tool never undoes the denial of another.
THEOREM AccessIsGranted == ConfigSpec => []AccessGrowsOnlyByGrant
<1>1. ConfigInv => AccessGrowsOnlyByGrant
  BY DEF ConfigInv, SoundJournal, GrowsByGrant, AccessGrowsOnlyByGrant
<1> QED BY <1>1, ConfigInvHolds, PTL

\* Idempotency keys: a submission that was refused has committed nothing, whatever answers were lost
\* and however often it was sent.
THEOREM RefusalsAreTrue == ConfigSpec => []AnswersAreTrue
<1>1. ConfigInv => AnswersAreTrue
  <2> SUFFICES ASSUME ConfigInv, NEW k \in DOMAIN shown, shown[k] \in {"conflict", "invalid", "widens"}
               PROVE  ~KeyUsed(k)
    BY DEF AnswersAreTrue
  <2>1. k \in 1..Len(shown)
    BY ConfigFacts
  <2>2. Unused(journal, k)
    BY <2>1 DEF ConfigInv, KeysFit, Refusals
  <2> QED BY <2>2 DEF Unused, KeyUsed
<1> QED BY <1>1, ConfigInvHolds, PTL

-----------------------------------------------------------------------------
\* The end of a sequence that was appended to.
LEMMA LastOfAppend ==
    ASSUME NEW S, NEW s \in Seq(S), NEW x
    PROVE  Len(Append(s, x)) = Len(s) + 1 /\ Append(s, x)[Len(s) + 1] = x
<1> DEFINE T == S \cup {x}
<1>1. s \in Seq(T) /\ x \in T
  OBVIOUS
<1> HIDE DEF T
<1> QED BY <1>1

\* What a step may add to the journal: what a read records, a revision under no key, or the commit
\* of a request under its own.
LEMMA JournalStep ==
    ASSUME ConfigInv, ConfigNext
    PROVE  \/ journal' = journal \/ journal' = History
           \/ \E r : journal' = Append(History, r) /\ r.key = 0
           \/ \E e \in Editors :
                /\ page[e].pc = "ready" /\ page[e].kind # "delete" /\ release = "current"
                /\ CommitAnswer(page[e]) = "committed"
                /\ journal' = Append(History,
                                Revision(Mirror(Draft(page[e])), page[e].kind, page[e]))
<1>0. \A d, by, p : Revision(d, by, p).key = p.key
  BY DEF Revision
<1>1. ASSUME NEW e \in Editors,
             \/ OpenPatch(e) \/ OpenAttach(e) \/ OpenUpdate(e) \/ OpenDetach(e) \/ OpenAdopt(e)
             \/ OpenDelete(e) \/ OpenBundle(e)
      PROVE  journal' = History
  BY <1>1 DEF OpenPatch, OpenAttach, OpenUpdate, OpenDetach, OpenAdopt, OpenDelete, OpenBundle, Opens
<1>2. ASSUME NEW e \in Editors,
             \/ ReviewPatch(e) \/ ResolveAttach(e) \/ ResolveUpdate(e) \/ ResolveDetach(e)
             \/ ResolveAdopt(e) \/ ResolveRollback(e) \/ ResolveImport(e)
      PROVE  journal' = History
  BY <1>2 DEF ReviewPatch, ResolveAttach, ResolveUpdate, ResolveDetach, ResolveAdopt, ResolveRollback,
              ResolveImport, SettleVerdict, Proceed, Refuse, Reload
<1>3. ASSUME NEW e \in Editors,
             \/ SendPatch(e) \/ SendAttach(e) \/ SendUpdate(e) \/ SendDetach(e) \/ SendAdopt(e)
             \/ SendBundle(e)
      PROVE  \/ journal' = History
             \/ /\ page[e].pc = "ready" /\ page[e].kind # "delete" /\ release = "current"
                /\ CommitAnswer(page[e]) = "committed"
                /\ journal' = Append(History,
                                Revision(Mirror(Draft(page[e])), page[e].kind, page[e]))
  <2>1. Commits(e) /\ page[e].pc = "ready" /\ release = "current" /\ page[e].kind # "delete"
    BY <1>3 DEF SendPatch, SendAttach, SendUpdate, SendDetach, SendAdopt, SendBundle, AtReady
  <2> QED BY <2>1 DEF Commits
<1>4. ASSUME NEW e \in Editors, Delete(e)
      PROVE  journal' = journal \/ \E r : journal' = Append(History, r) /\ r.key = 0
  <2>1. page[e].key = 0
    BY <1>4, PageIs DEF Delete, AtOpen, KeyFits
  <2> QED BY <1>0, <1>4, <2>1 DEF Delete
<1>5. CASE \/ \E list \in LegacyLists, in \in BOOLEAN : Apply(list, in)
           \/ RetireRow \/ Restore
  <2>1. \E d, by : journal' = Append(History, Revision(d, by, NoPage))
    BY <1>5 DEF Apply, RetireRow, Restore, Records
  <2> QED BY <1>0, <2>1, Empties
<1>6. CASE Downgrade \/ OldToggle \/ Upgrade
  BY <1>6 DEF Downgrade, OldToggle, Upgrade
<1>7. CASE \E list \in LegacyLists : OldApply(list)
  <2>1. \E d, by : journal' = Append(History, Revision(d, by, NoPage))
    BY <1>7 DEF OldApply
  <2> QED BY <1>0, <2>1, Empties
<1> QED BY <1>1, <1>2, <1>3, <1>4, <1>5, <1>6, <1>7 DEF ConfigNext

\* rebaseDraft and the base revisions: over conflicts and reloads, a patch replaces only the values
\* its editor had before them.
THEOREM EditsAreSeen == ConfigSpec => NoUnseenOverwrite
<1> DEFINE Overwrites ==
             \A e \in Editors :
               /\ page[e].kind = "patch" /\ page[e].pc = "ready"
               /\ Len(journal') > Len(History) /\ journal'[Len(journal')].key = page[e].key
               => \A f \in page[e].draft : Current[f] = page[e].edited[f]
<1>1. ConfigInv /\ ConfigNext => Overwrites
  <2> SUFFICES ASSUME ConfigInv, ConfigNext, NEW e \in Editors,
                      page[e].kind = "patch", page[e].pc = "ready",
                      Len(journal') > Len(History), journal'[Len(journal')].key = page[e].key
               PROVE  \A f \in page[e].draft : Current[f] = page[e].edited[f]
    OBVIOUS
  <2>1. page[e].key # 0
    BY PageIs DEF KeyFits
  <2>2. History \in Seq(Revisions) /\ Len(History) \in Nat /\ Len(journal) <= Len(History)
        /\ Len(journal) \in Nat
    BY HistoryIs, ConfigFacts DEF SoundJournal, Extends
  <2>3. \A r : journal' = Append(History, r) => r.key = page[e].key
    <3> TAKE r
    <3>1. Len(Append(History, r)) = Len(History) + 1 /\ Append(History, r)[Len(History) + 1] = r
      BY <2>2, LastOfAppend
    <3> QED BY <3>1
  <2>4. ~(journal' = journal) /\ ~(journal' = History)
    BY <2>2
  <2>5. ~ \E r : journal' = Append(History, r) /\ r.key = 0
    BY <2>1, <2>3
  <2>6. PICK f \in Editors :
           /\ page[f].pc = "ready" /\ page[f].kind # "delete" /\ release = "current"
           /\ CommitAnswer(page[f]) = "committed"
           /\ journal' = Append(History, Revision(Mirror(Draft(page[f])), page[f].kind, page[f]))
    BY <2>4, <2>5, JournalStep
  <2>7. page[f].key = page[e].key
    BY <2>3, <2>6 DEF Revision
  <2>8. f = e
    BY <2>1, <2>7 DEF ConfigInv, KeysFit
  <2>9. page[e].base = Len(History)
    BY <2>6, <2>8 DEF CommitAnswer
  <2>10. page[e].seen = Current /\ \A g \in page[e].draft : page[e].seen[g] = page[e].edited[g]
    BY <2>9, CurrentIsRead
  <2> QED BY <2>10
<1>2. ConfigInv /\ [ConfigNext]_configVars => [Overwrites]_configVars
  BY <1>1
<1> QED BY <1>2, ConfigInvHolds, PTL DEF ConfigSpec, NoUnseenOverwrite, Overwrites
=============================================================================
