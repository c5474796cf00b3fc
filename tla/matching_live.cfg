SPECIFICATION FairSpec
CONSTANTS
    Tenant = {t1, t2}
    Passenger = {p1}
    DriverId = {d1, d2}
    Ride = {r1, r2}
    Nil = Nil
    MAX_CANDIDATES = 2
    MAX_OFFERS = 2
    Faults = {}

INVARIANTS
    EveryRequestKept
PROPERTIES
    ImplementsFairOfferLoop
    NoDriverIsAnnounced
    MatchedDriverGetsBusy
