\* The host and the guest may each wait for the other to read, for ever: that is
\* what this run shows, so a deadlock is not reported as one.
SPECIFICATION CancelSpec
CONSTANTS
    PipeCap = 1
    BigCells = 2
    MaxReq = 3
    Garbles = FALSE
    Commands <- LoadOnly
PROPERTY CancelledBundleReturns
CHECK_DEADLOCK FALSE
