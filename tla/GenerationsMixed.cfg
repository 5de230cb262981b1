CONSTANTS
    g1 = g1  g2 = g2  g3 = g3  i1 = i1  i2 = i2  h1 = h1  h2 = h2
    None = None  Stray = Stray
    Gens <- TwoGens
    Incs <- TwoIncs
    Handles <- TwoHandles
    MaxLegacy = 2
    MaxFaults = 0
    UnlinkWhileOpen = TRUE
    TornUnlink = FALSE
    TornCreate = TRUE
SPECIFICATION Spec
SYMMETRY Symmetry
INVARIANTS BundleConsistent
CHECK_DEADLOCK FALSE
