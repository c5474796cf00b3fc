CONSTANT Ride = {r1, r2}
SPECIFICATION Spec
INVARIANT
    NothingPublishedLate
CHECK_DEADLOCK FALSE
