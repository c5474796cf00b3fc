CONSTANTS
    Tenant = {t1, t2}
    Passenger = {p1}
    DriverId = {d1, d2}
    Ride = {r1}
    Connection = {k1, k2, k3}
    Nil = Nil
    Faults = {"database", "commit"}
SPECIFICATION StoreFairSpec
INVARIANTS
    StoreTypeOK
    EventsTellTheRide
    OneEntryPerMatch
    ToldIsCommitted
PROPERTIES
    LegalTransitions
    LedgerSpec
    ConnectionsReturn
