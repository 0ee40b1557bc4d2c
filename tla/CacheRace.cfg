SPECIFICATION FairSpec
CONSTANTS
    p1 = p1
    p2 = p2
    d1 = d1
    Procs = {p1, p2}
    Digests = {d1}
    NLayers = 2
    LayersOf <- MCLayersOf
    Faults = FALSE
    NoTree = NoTree
    None = None
PROPERTIES
    InstallsWhole
