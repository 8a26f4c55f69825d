SPECIFICATION FairSpec
CONSTANTS
    q1 = q1  q2 = q2
    Requests = {q1, q2}
    MaxConns = 2
    MaxCalls = 2
INVARIANTS TypeOK
PROPERTIES Served HealthAnswers SignalEndsProcess
\* The process ends.
CHECK_DEADLOCK FALSE
