\* A schedule with a source around turns, one user message, one evaluation,
\* changes of scope, cancellations and restarts; a second one beside it.
SPECIFICATION Spec
CONSTANTS
    clock = clock
    watch = watch
    Schedules <- MCSchedules
    Pinned <- MCPinned
    MaxFires = 2
    Attempts = 2
    MaxEvents = 1
    MaxEntries = 3
    User = User
    None = None
CONSTRAINT SecondPlain
CHECK_DEADLOCK FALSE
INVARIANTS
    WakeupsAccounted
    StopsHold
