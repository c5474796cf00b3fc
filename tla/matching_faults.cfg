SPECIFICATION Spec
CONSTANTS
    Tenant = {t1, t2}
    Passenger = {p1}
    DriverId = {d1, d2, d3}
    Ride = {r1, r2}
    Nil = Nil
    MAX_CANDIDATES = 3
    MAX_OFFERS = 2
    Faults = {"database", "commit", "redis", "redisLoss", "crash"}
SYMMETRY SymmetricIds
INVARIANTS
    TypeOK
    OneCustodian
    OfferArmed
    SettledIsQuiet
    MatchedIsLastOffered
    RedisFollowsLedger
    AnnouncedIsCommitted
PROPERTIES
    ImplementsOfferLoop
