SPECIFICATION Spec
CONSTANTS
    p1 = p1
    p2 = p2
    n1 = n1
    debian = debian
    alpine = alpine
    Procs = {p1, p2}
    Names = {n1}
    Images = {debian, alpine}
    Sessions = {TRUE}
    ForeignFiles = FALSE
    None = None
    Absent = Absent
    Damaged = Damaged
SYMMETRY ProcImageSymmetry
INVARIANTS
    OneCommandPerName
    NoRemovalUnderContainer
    LiveStateIsOwn
    ChosenImageRuns
    ScopeHasState
    ClearedForCreate
    RmLeavesNothing
PROPERTIES
    ImplementsService
