SPECIFICATION HistorySpec
CONSTANTS
    None = None
    r1 = r1  r2 = r2  r3 = r3
    p1 = p1  p2 = p2
    d1 = d1  d2 = d2
    Rides = {r1, r2, r3}
    Riders = {p1, p2}
    Drivers = {d1, d2}
    Fares = {2500, 2814}
    Limit = 1
SYMMETRY MCTwins
INVARIANTS PagesMissNothing ViewsAgree
PROPERTIES Settled
\* Every ride ends.
CHECK_DEADLOCK FALSE
