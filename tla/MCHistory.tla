----------------------------- MODULE MCHistory -----------------------------
(* Three rides, so that a rider has a page to skip; two riders and drivers. *)
EXTENDS History, TLC

CONSTANTS r1, r2, r3, p1, p2, d1, d2    \* model values

MCTwins == Permutations(Rides) \cup Permutations(Riders) \cup Permutations(Drivers)
=============================================================================
