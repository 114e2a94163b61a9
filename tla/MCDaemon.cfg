SPECIFICATION DaemonStopSpec
CONSTANTS
    Sessions = {1, 2}
    NoSession = NoSession
    Capacity = 1
    MaxOpens = 3
    MaxBuffers = 1
INVARIANTS BackendExclusive PreviewNeverInterrupted NoLostWakeup CallbackTargetAlive RecordingNeverRefused CleanExit
PROPERTIES SignalStops EveryRecordingAnswered
