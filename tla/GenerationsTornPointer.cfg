CONSTANTS
    g1 = g1  g2 = g2  g3 = g3  i1 = i1  i2 = i2  h1 = h1  h2 = h2
    None = None  Stray = Stray
    Gens <- TwoGens
    Incs <- OneInc
    Handles <- TwoHandles
    MaxLegacy = 1
    MaxFaults = 3
    UnlinkWhileOpen = FALSE
    TornUnlink = TRUE
    TornCreate = TRUE
SPECIFICATION Spec
SYMMETRY Symmetry
INVARIANTS PointerIntact
CHECK_DEADLOCK FALSE
