SPECIFICATION Spec
CONSTANTS
    q1 = q1  q2 = q2
    Requests = {q1, q2}
    MaxConns = 2
    MaxCalls = 2
INVARIANTS GracefulShutdown
\* The process ends.
CHECK_DEADLOCK FALSE
