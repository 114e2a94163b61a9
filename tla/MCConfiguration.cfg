SPECIFICATION ConfigSpec
CONSTANTS
    Checked = {"default_language"}
    Enumerated = {"model_load_policy"}
    Plain = {"auto_clipboard"}
INVARIANTS DiskHoldsAcknowledged ObserversFollow
PROPERTY FaultsReportedOnce
