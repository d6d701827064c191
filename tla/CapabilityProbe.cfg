\* One player-relative action and the location action are enabled; the function
\* both need and the object only map teleports need come and go.
SPECIFICATION FairSpec
CONSTANTS
    Configured = {"teleportAdminToPlayer", "teleportPlayerToLocation"}
    MayLack = {"collision_function", "utility_object"}
INVARIANTS
    TypeOK
    TornOnlyByAProbe
    SupportAgreesBetweenProbes
PROPERTIES
    RecoversWithoutRestart
    WithdrawsSupport
