SPECIFICATION FairSpec
CONSTANTS
    e1 = e1
    e2 = e2
    reply = reply
    other = other
    approval = approval
    Events = {e1}
    Conditions = {reply, approval}
    Approval = approval
    Answers <- OnePostAnswers
    MaxRuns = 2
    MaxAttempts = 1
    MaxCoalesced = 1
    Holds = {"none", "quota", "unresolved"}
    Activities = {"crash", "lose_job", "lose_timer", "dead_letter", "reconcile"}
PROPERTIES
    EveryRunEnds
    WorkIsTaken
