SPECIFICATION ChildSpec
CONSTANTS
    Definitions = {1, 2, 3}
    Attempts <- MCAttempts
    Outputs <- MCOutputs
    Inputs = {i1, i2}
    Reserve = 1
    MaxGoals = 2
    MaxEdits = 1
    MaxJobs = 1
    MaxMessages = 1
    MaxChildren = 2
    None = None
    AdapterError = AdapterError
SYMMETRY MCSymmetry
CONSTRAINT Bounded
INVARIANTS
    ChargesCover
    UnresolvedHeld
PROPERTY
    LateResultsHeld
