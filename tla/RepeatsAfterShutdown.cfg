\* A repeated call, a deadline and a shutdown.
SPECIFICATION Spec
CONSTANTS
    Calls = {c1, c2, c3}
    RequestIds = {i1, i2}
    Payloads = {on}
    ConfiguredPayloads = {on}
    ExecutionErrors = {}
    MaxIdempotencyRecords = 2
    MaxActions = 2
    MaxAuditLines = 10
    TornWrites = FALSE
    None = None
SYMMETRY Symmetry
INVARIANTS
    RepeatsShareTheOriginalResult
