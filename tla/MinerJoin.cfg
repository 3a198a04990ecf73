\* A channel full of progress messages when the job is cancelled.
SPECIFICATION MinerFairSpec
CONSTANTS
    Devices = {gpu0}
    MaxJobs = 1
    MaxTip = 2
PROPERTIES
    MineWorkReturns
CHECK_DEADLOCK FALSE
