SPECIFICATION InstancesSpec
CONSTANTS
    Daemons = {d1}
    NoFile = NoFile
    PipeRoom = 2
    TextSizes = {1, 3}
    MaxCopies = 1
PROPERTIES BlocksUpToTimeout
