CONSTANTS
    c1 = c1  c2 = c2  c3 = c3
    r1 = r1  r2 = r2
    None = None
    Calls <- ThreeCalls
    Roots <- TwoRoots
    Operations <- AllOperations
    Cap = 1
    MaxLives = 2
    FaultyClose = TRUE
SPECIFICATION Spec
SYMMETRY Symmetry
INVARIANTS OpenStoresAreAnsweredFor SeatsAreAccounted NoCallIsStranded
PROPERTIES LeasedStoreStaysOpen
