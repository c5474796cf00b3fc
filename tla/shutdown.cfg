CONSTANT Ride = {r1, r2, r3}
SPECIFICATION FairSpec
INVARIANTS
    ShutdownTypeOK
    HooksDrain
PROPERTY ShutdownEnds
CHECK_DEADLOCK FALSE
