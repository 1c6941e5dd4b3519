CONSTANTS
    Base = 8
    Magic <- OneByteMagic
    LenBytes = 1
    IdBytes = 2
    TopicLenBytes = 1
    UpFrames <- EachRequest
    Events <- EventAndDeadLetter
    MaxFrames = 2
    MaxConns = 2
CHECK_DEADLOCK FALSE
SPECIFICATION Spec
INVARIANTS UpstreamAsSent DownstreamAsSent
