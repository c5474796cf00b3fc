CONSTANTS
    Driver = {d1, d2, d3, d4}
    Request = {r1}
    Place = {0, 1, 3}
    Pickup = {0}
    None = None
    SEARCH_RADIUS_M = 1
    MAX_CANDIDATES = 3
    MAX_OFFERS = 2
SYMMETRY SymmetricIds
SPECIFICATION SelectionSpec
INVARIANTS
    NearestFreeFirst
    PassedOverOnlyByCount
