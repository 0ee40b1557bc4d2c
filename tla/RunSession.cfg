SPECIFICATION FairSessionSpec
CONSTANTS
    term = term
    usr1 = usr1
    Kill = Kill
    Signals = {term, usr1}
    StopSignals = {term}
    Deadly = {term}
    Cap = 2
    Codes = {0, 2}
    Deaths = {11}
    MaxSignals = 3
    MaxInt = 31
    MiB = 4
    Period = 2
    MinQuota = 1
    NumCPU = 2
    NaN = NaN
    Settings <- MCSettings
    MaxOutput = 1
INVARIANTS
    PassedOn
    GraceRespected
    CleanEnd
    ExitTellsEnd
    TerminalRestored
    OutputShown
    LimitsInForce
PROPERTIES
    StopEndsRun
CHECK_DEADLOCK FALSE
