CONSTANTS
    g1 = g1  g2 = g2  g3 = g3  i1 = i1  i2 = i2  h1 = h1  h2 = h2
    None = None  Stray = Stray
    Gens <- TwoGens
    Incs <- TwoIncs
    Handles <- TwoHandles
    MaxLegacy = 2
    MaxFaults = 1
    UnlinkWhileOpen = TRUE
    TornUnlink = TRUE
    TornCreate = TRUE
SPECIFICATION Spec
SYMMETRY Symmetry
INVARIANTS LatestIsActive OpenGenerationsKept RegistryFindsHandle ReclaimComplete
CHECK_DEADLOCK FALSE
