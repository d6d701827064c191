\* Two restarts at any point; a write that fails may leave a fragment; the files
\* have room for every line, the ledger for every identifier.
SPECIFICATION RestartSpec
CONSTANTS
    Calls = {c1, c2, c3}
    RequestIds = {i1, i2}
    Payloads = {on}
    ConfiguredPayloads = {on}
    ExecutionErrors = {}
    MaxIdempotencyRecords = 2
    MaxActions = 1
    MaxAuditLines = 10
    TornWrites = TRUE
    MaxRestarts = 2
    None = None
SYMMETRY Symmetry
INVARIANTS
    AtMostOnceUnlessForgotten
    JournalAnswersAreTruthful
    UnknownMeansAccepted
