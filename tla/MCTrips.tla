------------------------------ MODULE MCTrips ------------------------------
(* A rider and a driver, each with one app; two rides, one place. *)
EXTENDS Trips

CONSTANTS r1, r2, p1, d1, q1, q2, here    \* model values

MCDistance == [r \in Rides |-> 2345]

MCOwner == [q \in Requests |-> IF q = q1 THEN p1 ELSE d1]
=============================================================================
