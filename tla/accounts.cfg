SPECIFICATION AccountsFairSpec
CONSTANTS
    u1 = u1  u2 = u2  u3 = u3
    t1 = t1  t2 = t2  t3 = t3
    q1 = q1  q2 = q2
    n1 = n1
    None = None
    Users = {u1, u2, u3}
    Tokens = {t1, t2, t3}
    Requests = {q1, q2}
    Overlapping = {u1, u2, u3}
    Faults = FALSE
    Phones = {n1}
    Roles = {"rider", "driver"}
    Client = q1
    MaxFailures = 1
INVARIANTS AccountsTypeOK TwinsAreUnnormalized RegisteredGetsIn
PROPERTIES RegistrationRecovers BreachEndsSessions
