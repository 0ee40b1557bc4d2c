SPECIFICATION Spec
CONSTANTS
    p1 = p1
    d1 = d1
    Procs = {p1}
    Digests = {d1}
    NLayers = 2
    LayersOf <- MCLayersOf
    Faults = TRUE
    NoTree = NoTree
    None = None
INVARIANTS
    ReturnsWhole
