CONSTANTS
    Report = {neutral, pressed}
    Neutral = neutral
    Frames = 3
    Wait = 2
    Hosts <- HostileHost
    MaxUpdates = 1
    MaxRequests = 1
SPECIFICATION UsbSpec
INVARIANT ResetUnconfigures
