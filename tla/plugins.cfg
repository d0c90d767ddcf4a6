SPECIFICATION FairSpec
CONSTANTS
    HyprMaxJobs = 2
    HyprMaxPending = 1
    HyprMaxQueue = 2
    HyprMaxLinks = 2
    HyprMaxLines = 1
    SqlMaxDbs = 2
    SqlMaxJobs = 3
    WsMaxSockets = 1
    WsMaxDials = 2
    WsMaxFrames = 1
    WsMaxDepth = 2
    VideoMaxLoads = 2
    VideoMaxTime = 3
    IntMax = 131071
    WideMax = 524287
    SafeMax = 262143
    BeforeNul <- MCBeforeNul
    SigMax = 3
    SigCallbacks = {c1, c2}
    SigBodies <- MCSigBodies
    SigEncode <- AppendValues
    SigDecode <- ValueToJson
    Types <- MCTypes
    Values <- MCValues
    Height <- HeightOf
    WriteValue <- AppendValue
    ReadValue <- ValueToJson
    ReadReply <- DecodeReply
    Plain <- PlainTree
    Modest <- ModestTree
    Conforms <- ConformsTree
INVARIANT HyprNoPromiseForgotten
INVARIANT HyprConnectionIsReal
INVARIANT SqlOneStaleUse
INVARIANT WsEventsAccounted
INVARIANT VideoClockNeverNegative
INVARIANT VideoNoOldFrame
INVARIANT SigBodyArrives
INVARIANT SigNoneMissed
PROPERTY JoinsEnd
PROPERTY RequestsSettle
CHECK_DEADLOCK FALSE
