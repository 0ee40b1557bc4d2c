SPECIFICATION FairSpec
CONSTANTS
    p1 = p1
    p2 = p2
    n1 = n1
    debian = debian
    Procs = {p1, p2}
    Names = {n1}
    Images = {debian}
    Sessions = {TRUE, FALSE}
    ForeignFiles = TRUE
    None = None
    Absent = Absent
    Damaged = Damaged
PROPERTIES
    EveryProcessEnds
