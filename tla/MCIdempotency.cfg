SPECIFICATION FairSpec
CONSTANTS
    r1 = r1
    r2 = r2
    r3 = r3
    k1 = k1
    Request = {r1, r2, r3}
    Key = {k1}
    KeyOf <- WithUnkeyed
    NoKey = NoKey
    Nobody = Nobody
    InFlightTTL = 2
    CompletedTTL = 1
    HandlerLimit = 1
INVARIANTS
    TypeOK
    ExclusiveClaim
    ReplayIsGenuine
    EffectOnce
PROPERTIES
    ImplementsGuard
    KeyUnblocked
CHECK_DEADLOCK FALSE
