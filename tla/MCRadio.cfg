SPECIFICATION RadioSpec
CONSTANTS
    short = short
    long = long
    bad = bad
    Airtime <- Lengths
    Percent = 50
    Urgencies = {1, 2}
    Frames = {short, long, bad}
    BadFrames = {bad}
    Depth = 2
    Window = 4
    Grace = 1
    MaxTime = 16
    MaxSends = 3
    LastSend = 3
INVARIANTS TypeOK DutyKept AirKept
PROPERTIES UrgentFirst RadioMovesOn
CHECK_DEADLOCK FALSE
