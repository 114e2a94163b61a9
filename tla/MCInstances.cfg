SPECIFICATION InstancesSpec
CONSTANTS
    Daemons = {d1, d2}
    NoFile = NoFile
    PipeRoom = 2
    TextSizes = {1, 3}
    MaxCopies = 1
INVARIANTS ChildLeavesNoTrace FileFollowsOwner
PROPERTIES CopyReturns
