SPECIFICATION Spec
CONSTANTS
    e1 = e1
    e2 = e2
    reply = reply
    other = other
    approval = approval
    Events = {e1}
    Conditions = {reply, approval}
    Approval = approval
    Answers <- OnePostAnswers
    MaxRuns = 1
    MaxAttempts = 2
    MaxCoalesced = 1
    Holds = {"none", "budget"}
    Activities = {"crash", "lose_job", "lose_timer", "redeliver", "reconcile", "pause"}
INVARIANT PublishedOnce
PROPERTY LostMeansSilent
