SPECIFICATION TripFairSpec
CONSTANTS
    None = None
    r1 = r1  r2 = r2
    p1 = p1  d1 = d1
    q1 = q1  q2 = q2
    here = here
    Rides = {r1, r2}
    Riders = {p1}
    Drivers = {d1}
    Requests = {q1, q2}
    Owner <- MCOwner
    Watched = {d1}
    Places = {here}
    Distance <- MCDistance
    RatePerKm = 1200
    MinimumFare = 2500
    CancelledByWidth = 36
    Faults = FALSE
INVARIANTS NearbyAreFree SuspensionDecides
PROPERTIES AssignedAvailable CancelEndsRide
