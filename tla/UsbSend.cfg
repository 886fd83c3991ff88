CONSTANTS
    Report = {neutral, pressed}
    Neutral = neutral
    Frames = 3
    Wait = 2
    Hosts <- AllHosts
    MaxUpdates = 3
    MaxRequests = 2
SPECIFICATION UsbFairSpec
INVARIANTS WellFormed RightEndpoint
PROPERTIES SendReturns HostUpToDate
