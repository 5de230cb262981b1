CONSTANTS
    g1 = g1  g2 = g2  g3 = g3  i1 = i1  i2 = i2  h1 = h1  h2 = h2
    None = None  Stray = Stray
    Gens <- TwoGens
    Incs <- OneInc
    Handles <- TwoHandles
    MaxLegacy = 1
    MaxFaults = 0
    UnlinkWhileOpen = FALSE
    TornUnlink = FALSE
    TornCreate = TRUE
SPECIFICATION Spec
SYMMETRY Symmetry
INVARIANTS OrdinaryWaits
CHECK_DEADLOCK FALSE
