CONSTANTS
    Tenant = {t1, t2}
    Connection = {k1, k2}
    Caller = {c1, c2, c3}
    MaxStatements = 1
    Nil = Nil
SPECIFICATION FairSpec
INVARIANTS
    SeesOwnRows
PROPERTY
    EveryCallEnds
