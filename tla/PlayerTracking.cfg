\* Two players on three controller addresses, logins of one player may overlap,
\* and a queue of two joins that a third login finds full.
SPECIFICATION Spec
CONSTANTS
    Players = {p1, p2}
    Controllers = {k1, k2, k3}
    MaxPendingJoins = 2
    None = None
SYMMETRY Symmetry
INVARIANTS
    TypeOK
    NoDanglingControllers
    ActiveUnderOwnController
    NothingIsLeftOfAbsentPlayers
    SoleLoginsAreTracked
