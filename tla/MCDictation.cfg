CONSTANTS
    Helpers = {h1, h2}
    MaxPresses = 3
    Requests = {"toggle", "stop"}
    Sessions = {1, 2}
    NoSession = NoSession
    MaxLives = 2
    QueueRoom = 1
SPECIFICATION DictationSpec
INVARIANTS TranscriptReachesWaiter RecordingIsMarked
PROPERTIES ReportIsOwn EveryPressEnds
