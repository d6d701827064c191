\* Two players, two sessions, a buffer of three records, one client for each
\* kind of filter, limits below, at and above what is in the buffer.
SPECIFICATION Spec
CONSTANTS
    Players = {p1, p2}
    Filters = {None, p1}
    Capacity = 3
    Limits = {1, 2}
    MaxSessions = 2
    MaxTime = 1
    None = None
INVARIANTS
    TypeOK
    EventIdsMatchRecords
    SessionsTellTheirStory
    ChronologicalUnlessSetBack
    PollingMissesNothingElse
