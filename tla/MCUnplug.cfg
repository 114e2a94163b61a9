SPECIFICATION DeviceSpec
CONSTANTS
    MaxOpens = 2
    MaxBuffers = 3
INVARIANTS UnplugIsSeen
