\* A block found while the node goes away.
SPECIFICATION MinerSpec
CONSTANTS
    Devices = {gpu0, gpu1}
    MaxJobs = 2
    MaxTip = 2
PROPERTIES
    FoundIsRetained
CHECK_DEADLOCK FALSE
