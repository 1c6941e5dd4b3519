CONSTANTS
    Fds = {1, 2}
    MaxConns = 2
    MaxFrames = 2
    Pieces = 2
SPECIFICATION FairSpec
INVARIANTS TypeOK NothingLeftBehind StaysRegistered OwnWholeFrames
PROPERTIES SendReturns HandlersEnd
CHECK_DEADLOCK FALSE
