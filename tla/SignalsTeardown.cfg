SPECIFICATION Spec
CONSTANTS
    term = term
    quit = quit
    usr1 = usr1
    Kill = Kill
    Signals = {term, quit, usr1}
    StopSignals = {term}
    Deadly = {term, quit}
    Cap = 2
    Codes = {0, 2}
    Deaths = {9, 11}
    MaxSignals = 4
INVARIANTS
    CleanupStillRuns
CHECK_DEADLOCK FALSE
