\* The limits: a ledger of one identifier, files of one line, and a restart at any
\* point.
SPECIFICATION RestartSpec
CONSTANTS
    Calls = {c1, c2, c3}
    RequestIds = {i1, i2}
    Payloads = {on}
    ConfiguredPayloads = {on}
    ExecutionErrors = {}
    MaxIdempotencyRecords = 1
    MaxActions = 1
    MaxAuditLines = 1
    TornWrites = FALSE
    MaxRestarts = 1
    None = None
SYMMETRY Symmetry
INVARIANTS
    RepeatsHaveALiveOriginal
    LedgerMatchesOrder
PROPERTIES
    RetainedIdsAreKnown
