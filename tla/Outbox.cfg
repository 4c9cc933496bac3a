SPECIFICATION FairSpec
CONSTANTS
    Deliveries = {d1, d2, d3}
    MaxAttempts = 3
    MaxRedrives = 2
    MaxJobs = 2
    Faults = {"crash", "lose_job"}
PROPERTIES
    RetiredNeverPosts
    KeepsPromise
CHECK_DEADLOCK FALSE
