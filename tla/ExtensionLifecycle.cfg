\* Three initializations in a process, any number of processes, configuration
\* files of up to four lines.
SPECIFICATION Spec
CONSTANTS
    MaxPort = 7
    LongRange = 16
    DefaultPort = 5
    MaxInits = 3
    ConfigFiles <- MCConfigFiles
INVARIANTS
    TypeOK
    ConfigurationMeansItsLastLines
    HooksFindTheirTargets
PROPERTIES
    CredentialsSurviveRestarts
