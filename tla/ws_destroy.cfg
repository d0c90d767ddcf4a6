\* The loop callback of a ws event destroys its own socket.
SPECIFICATION WsFairSpec
CONSTANTS
    WsMaxSockets = 1
    WsMaxDials = 1
    WsMaxFrames = 1
    WsMaxDepth = 1
PROPERTY WsCallbackMayDestroy
CHECK_DEADLOCK FALSE
