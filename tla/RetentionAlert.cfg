SPECIFICATION SceneSpec
CONSTANTS
    Scenes = {"retention"}
    a1 = a1
    a2 = a2
    c1 = c1
    c2 = c2
    r1 = r1
    r2 = r2
    r3 = r3
    dev = dev
    m1 = m1
    m2 = m2
    m3 = m3
    x2 = x2
    NoSession = NoSession
    Jobs = {1, 2}
    Agents = {a1, a2}
    Conversations = {c1, c2}
    Setups <- SomeSetups
    Concurrency = 2
    MaxAccess = 2
    MaxFailures = 1
    Builds = {r1, r2, r3, dev}
    Development = {dev}
    Shipped <- SomeShipped
    Expanding = {m2}
    QueueSchema <- SomeQueues
    Published <- SomePublished
    Programs = {1}
    MaxAccidents = 2
    MaxArchives = 1
    Processes = {p1, p2}
    Stale = 2
    Stable = 2
    SweepEvery = 1
    Keep = 3
    MaxBacklog = 2
    MaxChecks = 2
    Threshold = 3
    Reminder = 4
    MaxSuccessAge = 3
    RetentionEvery = 1
    TickEvery = 2
    MaxDrops = 3
INVARIANT NeverSucceededFires
CHECK_DEADLOCK FALSE
