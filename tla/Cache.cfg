SPECIFICATION Spec
CONSTANTS
    p1 = p1
    d1 = d1
    d2 = d2
    Procs = {p1}
    Digests = {d1, d2}
    NLayers = 3
    LayersOf <- MCLayersOf
    Faults = TRUE
    NoTree = NoTree
    None = None
INVARIANTS
    ReturnsWholeUnlessCut
    NeverMixed
