SPECIFICATION QueueStopSpec
CONSTANTS
    Sessions = {j1, j2, j3}
    Capacity = 2
    NoSession = NoSession
INVARIANTS AbortStands JobsAccounted IdleMeansBackendFree
PROPERTIES ImplementsLedger EveryJobAnswered
