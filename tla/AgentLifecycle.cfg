SPECIFICATION Spec
CONSTANTS
    e1 = e1
    e2 = e2
    reply = reply
    other = other
    approval = approval
    Events = {e1}
    Conditions = {reply, approval}
    Approval = approval
    Answers <- OnePostAnswers
    MaxRuns = 2
    MaxAttempts = 1
    MaxCoalesced = 1
    Holds = {"none"}
    Activities = {"pause", "kill", "disable", "redrive", "grant", "delete"}
INVARIANT RunMatchesState
PROPERTY WorkIsNotLost
