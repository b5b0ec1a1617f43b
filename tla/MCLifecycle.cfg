SPECIFICATION Spec
CONSTANT
    Configs <- MCConfigs
INVARIANTS
    TypeOK
    OnlyConsistentIsServed
    PathsActOnTheirButtons
    PingEndsFirst
PROPERTIES
    ConsistentIsServed
    StoppedServerLogsOff
