CONSTANTS
    Tenant = {t1, t2}
    Passenger = {p1}
    DriverId = {d1}
    Ride = {r1, r2}
    Nil = Nil
    Call = {c1}
    Region = {ireland, london}
    EURegion = {ireland}
SYMMETRY SymmetricIds
SPECIFICATION Spec
INVARIANTS
    DraftsCiteTheRide
    OnlyRolesLeave
    EventsReachTheState
