SPECIFICATION Spec
CONSTANTS
    a1 = a1
    c1 = c1  c2 = c2
    q1 = q1  q2 = q2
    None = None
    Accounts = {a1}
    Codes = {c1, c2}
    Requests = {q1, q2}
    Faults = TRUE
SYMMETRY MCTwins
INVARIANTS TypeOK GuessesBounded UsesBounded LastSmsCounts LockIsEarned
