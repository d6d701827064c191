\* Three calls of one request: an original and two repeats, with and without
\* ticks, deadlines and a shutdown.  No symmetry: liveness is checked.
\* A companion that failed to start, or was shut down, takes no further step.
SPECIFICATION LifecycleFairSpec
CHECK_DEADLOCK FALSE
CONSTANTS
    Calls = {c1, c2, c3}
    RequestIds = {i1}
    Payloads = {on}
    ConfiguredPayloads = {on}
    ExecutionErrors = {}
    MaxIdempotencyRecords = 1
    MaxActions = 1
    MaxAuditLines = 10
    TornWrites = FALSE
    None = None
INVARIANTS
    ShutdownLeavesNothingOpen
PROPERTIES
    NothingRunsAfterShutdown
    ShutdownReturns
    EveryCallAnswered
