SPECIFICATION SceneSpec
CONSTANTS
    Scenes = {"approvals", "listener", "membership", "connector", "configuration"}
    a1 = a1
    r1 = r1
    r2 = r2
    root = root
    reply = reply
    own = own
    foreign = foreign
    None = None
    NoAccount = NoAccount
    Approvals = {a1}
    Runners = {r1, r2}
    Faults = {"crash", "lose", "repeat"}
    Posts = {root, reply}
    Threads <- BothThreads
    Root <- ThreadRoot
    Margin = 2
    MaxTime = 3
    MaxGen = 2
    MaxFaults = 1
    ListenerFaults = {"error", "crash", "disconnect", "lose_frame", "retire"}
    MaxChanges = 3
    MaxEdits = 2
    MaxMembershipFaults = 1
    MembershipFaults = {"erase", "busy", "crash", "error", "stale_add"}
    Messages = {1, 2, 3}
    Accounts = {own, foreign}
    FirstAccount = own
    Owner <- OwnerOf
    Unreadable = {2}
    PageSize = 1
    MaxListed = 1
    Overlap = 1
    MaxMail = 2
    MaxUpsets = 2
    Editors = {e1, e2}
    LegacyLists <- Lists
    RequestKinds = {"patch", "attach", "update", "detach", "adopt", "delete", "rollback", "import"}
    MaxRequests = 2
    MaxOthers = 1
SYMMETRY Symmetry
INVARIANTS
    EffectsAreApproved
    NothingSkipped
    
    MailIsNotLost
    AckedIsSynced
    
    AccessGrowsOnlyByGrant
    
PROPERTIES
    
    NoForeignMail
    
CHECK_DEADLOCK FALSE
