SPECIFICATION Spec
CONSTANTS
    Keys = {k1}
    k1 = k1
    Capacity = 2
    Window = 4
    Second = 2
    Horizon = 16
INVARIANTS TypeOK RetryAfterSuffices BurstBounded
PROPERTIES ImplementsBucket
