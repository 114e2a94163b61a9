SPECIFICATION IpcSpec
CONSTANTS
    Connections = {c1, c2}
    MaxFds = 2
    Room = 3
    Pieces = {"subscribe", "unsubscribe", "command", "text"}
    Chunk = 2
    MaxLine = 1
    MaxSent = 2
    MaxEvents = 1
CHECK_DEADLOCK FALSE
INVARIANTS SubscriptionIsOwn DisconnectionIsOwn NoEventMissed AnsweredInOrder LinesWholeUnlessDoomed
SYMMETRY ConnectionSymmetry
