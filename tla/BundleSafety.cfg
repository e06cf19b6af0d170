SPECIFICATION CancelSpec
CONSTANTS
    PipeCap = 2
    BigCells = 2
    MaxReq = 3
    Garbles = TRUE
    Commands <- AllCommands
INVARIANTS TypeOK RequestInv SuccessIsComplete NoLostRequest
PROPERTIES CancellationNamed PromiseKept
PROPERTIES CancelledBundleReturns EveryoneLeaves
