------------------------------- MODULE MCOtp -------------------------------
(* Small instances of Otp.  Codes are random, requests served alike.       *)
EXTENDS Otp, TLC

CONSTANTS a1, c1, c2, q1, q2

MCTwins == Permutations({c1, c2}) \cup Permutations({q1, q2})
=============================================================================
