------------------------------ MODULE MCRides ------------------------------
(* Small instances of the ride handlers. *)
EXTENDS Rides, TLC

CONSTANTS r1, p1, d1, d2, q1, q2    \* model values

MCRides    == {r1}
MCRiders   == {p1}
MCDrivers  == {d1, d2}
MCRequests == {q1, q2}

\* 2.345 km at 12.00 per km, above the minimum of 25.00.
MCDistance == [r \in Rides |-> 2345]

MCOneDriver == {d1}

Twins == Permutations(MCDrivers) \cup Permutations(MCRequests)
=============================================================================
