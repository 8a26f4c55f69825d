SPECIFICATION Spec
CONSTANTS
    u1 = u1  d1 = d1  x1 = x1  q1 = q1  q2 = q2
    None = None
    Passengers = {u1}
    Drivers = {d1}
    Strangers = {x1}
    Durations = {1, 9999}
    MaxDuration = 9999
    Requests = {q1, q2}
    Horizon = 2
    MaxBans = 2
    Faults = TRUE
SYMMETRY MCTwins
INVARIANTS TypeOK BanOnRecord LiftOnRecord
PROPERTIES HistoryKept
