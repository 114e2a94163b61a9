SPECIFICATION IpcFairSpec
CONSTANTS
    Connections = {c1, c2, c3}
    MaxFds = 2
    Room = 1
    Pieces = {"command", "text"}
    Chunk = 2
    MaxLine = 1
    MaxSent = 1
    MaxEvents = 0
CHECK_DEADLOCK FALSE
PROPERTIES EveryoneServed
