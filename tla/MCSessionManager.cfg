SPECIFICATION SessionSpec
CONSTANTS
    Sessions = {1, 2, 3}
    NoSession = NoSession
    Capacity = 1
    MaxOpens = 3
    MaxBuffers = 2
INVARIANTS OneDevice AudioIsOwnAndWhole StartFindsDeviceClosed PublishedLivesAreLegal CaptureViewsAgree ResultsInOrder
PROPERTIES UsesQueueProperly
