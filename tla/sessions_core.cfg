SPECIFICATION Spec
CONSTANTS
    u1 = u1  u2 = u2
    t1 = t1  t2 = t2  t3 = t3  t4 = t4
    q1 = q1  q2 = q2
    None = None
    Users = {u1, u2}
    Tokens = {t1, t2, t3, t4}
    Requests = {q1, q2}
    Overlapping = {u1}
    Faults = TRUE
SYMMETRY MCTwins
INVARIANTS RotationRevokes ReuseRefused OneSuccessor EndIsFinal
