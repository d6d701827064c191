\* One player who reconnects before the old connection is closed.
SPECIFICATION Spec
CONSTANTS
    Players = {p1}
    Controllers = {k1, k2}
    MaxPendingJoins = 2
    None = None
INVARIANTS
    ConnectedPlayersAreTracked
