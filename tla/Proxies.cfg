SPECIFICATION FairSpec
CONSTANTS
    LowerCase <- MCLowerCase
    Configs <- MCConfigs
    Scripts <- MCScripts
    DialTimeout = 1
    IdleTimeout = 2
    MaxData = 1
    MaxFaults <- MCMaxFaults
    AnyPort = AnyPort
    NoPort = NoPort
    EmptyPort = EmptyPort
    Never = Never
INVARIANTS
    OnlyAllowed
    RefusedRightly
    StreamsInOrder
    EndAfterAll
    AnswersInOrder
    NoLeak
    NoMutualWait
PROPERTIES
    WaitsEnd
    EndPassedOn
    CloseEnds
    TunnelsLast
CHECK_DEADLOCK FALSE
