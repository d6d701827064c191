\* Two players on two controller addresses, a queue of one join, every request in
\* every state, and an engine that keeps ticking and sampling.
SPECIFICATION FairSpec
CONSTANTS
    Players = {p1, p2}
    Controllers = {k1, k2}
    MaxPendingJoins = 1
    None = None
    Unset = Unset
INVARIANTS
    TeleportsMoveWhomTheyName
    ConnectedPlayersAreTeleported
PROPERTIES
    ActivePlayersAreLocated
