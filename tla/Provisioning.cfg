SPECIFICATION FairSpec
CONSTANTS
    x = x
    y = y
    home = home
    away = away
    Names = {x, y}
    Teams = {home, away}
    Published = {x}
    Wanted = {{}, {x}, {x, y}}
    MaxOps = 3
    MaxEdits = 2
    MaxFaults = 1
INVARIANTS
    RetiredHasNoAccess
    ReadyIsMember
PROPERTY EveryOperationEnds
CHECK_DEADLOCK FALSE
