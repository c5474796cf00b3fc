CONSTANTS
    Tenant = {t1}
    Passenger = {p1, p2}
    DriverId = {d1}
    Ride = {r1, r2}
    Socket = {s1}
    Nil = Nil
    MAX_CANDIDATES = 1
    MAX_OFFERS = 1
    Faults = {"database", "redis", "redisLoss", "crash"}
    RealtimeFaults = {"disconnect", "relay", "crash", "database"}
SYMMETRY SymmetricIds
SPECIFICATION HopinSpec
INVARIANTS
    PositionsGoToTheirPassenger
PROPERTIES
    ImplementsRealtime
