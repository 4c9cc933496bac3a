SPECIFICATION Spec
CONSTANTS
    e1 = e1
    e2 = e2
    reply = reply
    other = other
    approval = approval
    Events = {e1, e2}
    Conditions = {reply, other, approval}
    Approval = approval
    Answers <- BothWaitsAnswered
    MaxRuns = 1
    MaxAttempts = 1
    MaxCoalesced = 2
    Holds = {"none", "quota"}
    Activities = {"delete", "pause", "disable", "kill"}
INVARIANTS
    WaitingCanResume
    OneResumption
    MissedAnswersAreSeen
