\* Three calls, two identifiers, one enabled and one disabled action; no
\* identifier is evicted and no line is rotated away.
SPECIFICATION Spec
CONSTANTS
    Calls = {c1, c2, c3}
    RequestIds = {i1, i2}
    Payloads = {on, off}
    ConfiguredPayloads = {on}
    ExecutionErrors = {"teleport_rejected"}
    MaxIdempotencyRecords = 2
    MaxActions = 1
    MaxAuditLines = 10
    TornWrites = FALSE
    None = None
SYMMETRY Symmetry
INVARIANTS
    TypeOK
    RefusalsAreTruthful
    ReportsAreTruthful
    AtMostOncePerRequest
    AuditedBeforeExecution
    OneFatePerEntry
PROPERTIES
    ReportsAreFinal
    KeepsThePromise
