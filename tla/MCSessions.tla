----------------------------- MODULE MCSessions -----------------------------
(* Small instances of Sessions.  Tokens are random and requests are served *)
(* alike, so permuting either changes nothing.                             *)
EXTENDS Sessions, TLC

CONSTANTS u1, u2, t1, t2, t3, t4, q1, q2

MCTwins == Permutations({t1, t2, t3, t4}) \cup Permutations({q1, q2})
=============================================================================
