SPECIFICATION FairSpec
CONSTANTS
    x = x
    y = y
    home = home
    away = away
    Names = {x}
    Teams = {home, away}
    Published = {x}
    Wanted = {{}, {x}}
    MaxOps = 3
    MaxEdits = 2
    MaxFaults = 1
INVARIANT DriftIsCaught
CHECK_DEADLOCK FALSE
