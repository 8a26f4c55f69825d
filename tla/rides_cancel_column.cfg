SPECIFICATION Spec
CONSTANTS
    None = None
    r1 = r1
    p1 = p1
    d1 = d1
    d2 = d2
    q1 = q1
    q2 = q2
    Rides <- MCRides
    Riders <- MCRiders
    Drivers <- MCOneDriver
    Requests <- MCRequests
    Distance <- MCDistance
    RatePerKm = 1200
    MinimumFare = 2500
    CancelledByWidth = 20
    Faults = FALSE
INVARIANTS
    CancelNeverFails
