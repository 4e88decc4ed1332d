SPECIFICATION Spec
CONSTANTS
    Definitions = {1, 2}
    Attempts <- MCAttempts
    Outputs <- MCOutputs
    Inputs = {i1}
    Reserve = 1
    MaxGoals = 2
    MaxEdits = 1
    MaxJobs = 0
    MaxMessages = 1
    None = None
    AdapterError = AdapterError
PROPERTY
    CancelledStays
