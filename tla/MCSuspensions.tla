--------------------------- MODULE MCSuspensions ---------------------------
(* Small instances of Suspensions.  Requests are served alike.             *)
EXTENDS Suspensions, TLC

CONSTANTS u1, d1, x1, q1, q2

MCTwins == Permutations({q1, q2})
=============================================================================
