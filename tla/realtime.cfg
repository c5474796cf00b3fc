CONSTANTS
    Tenant = {t1, t2}
    Passenger = {p1, p2}
    DriverId = {d1}
    Ride = {r1, r2}
    Socket = {s1}
    Nil = Nil
    Faults = {"disconnect", "relay", "crash", "database"}
SPECIFICATION FairSpec
INVARIANTS
    RealtimeTypeOK
    RoomsAreTheirs
    NewsIsTrue
    NothingMissed
PROPERTY OutcomeIsLearned
