--------------------------- MODULE RideLifecycle ---------------------------
(***************************************************************************)
(* What the table rides promises, with every request taken as one atomic   *)
(* event: the promise README.md ("Ride State Machine") and ARCHITECTURE.md *)
(* ("Concurrency Safety") make to the two apps.  No handler appears here:  *)
(* Rides.tla has the handlers and is shown to implement this module.       *)
(***************************************************************************)
EXTENDS RideModel

CONSTANT Fares      \* the fares a completed ride may be charged

ASSUME FaresAssumption == Fares \subseteq Nat

VARIABLE rides

Init == rides = [r \in Rides |-> NoRow]

\* A rider asks for a ride.
Request(r) ==
    /\ rides[r] = NoRow
    /\ \E p \in Riders : rides' = [rides EXCEPT ![r] = RequestedRow(p)]

\* Mutant: whoever accepts last drives.
AcceptLast(r) ==
    /\ rides[r].status \in {"REQUESTED", "ACCEPTED"}
    /\ \E d \in Drivers :
          rides' = [rides EXCEPT ![r].status = "ACCEPTED", ![r].driver = d]

\* The first driver to accept is written into the row, once.
Accept(r) ==
    /\ rides[r].status = "REQUESTED"
    /\ rides[r].driver = None
    /\ \E d \in Drivers :
          rides' = [rides EXCEPT ![r].status = "ACCEPTED", ![r].driver = d]

\* The assigned driver moves on, one state at a time.
Advance(r) ==
    /\ rides[r].driver # None
    /\ \E s \in {"EN_ROUTE", "ARRIVED", "IN_PROGRESS"} :
          /\ <<rides[r].status, s>> \in transitionMatrix
          /\ rides' = [rides EXCEPT ![r].status = s]

\* Completing charges the fare, in the same step.
Complete(r) ==
    /\ rides[r].driver # None
    /\ rides[r].status = "IN_PROGRESS"
    /\ \E f \in Fares :
          rides' = [rides EXCEPT ![r].status = "COMPLETED", ![r].fare = f]

\* Mutants: a cancelled ride is charged; a completed ride can be cancelled.
CancelCharged(r) ==
    /\ rides[r].status \in CancelableStates
    /\ \E u \in {rides[r].passenger, rides[r].driver} \ {None} : \E f \in Fares :
          rides' = [rides EXCEPT ![r].status = "CANCELLED", ![r].fare = f,
                                 ![r].cancelled_by = u]

CancelLate(r) ==
    /\ rides[r].status \in CancelableStates \cup {"COMPLETED"}
    /\ \E u \in {rides[r].passenger, rides[r].driver} \ {None} :
          rides' = [rides EXCEPT ![r].status = "CANCELLED",
                                 ![r].cancelled_by = u]

\* A party of the ride cancels it, from any state that is not terminal.
Cancel(r) ==
    /\ rides[r].status \in CancelableStates
    /\ \E u \in {rides[r].passenger, rides[r].driver} \ {None} :
          rides' = [rides EXCEPT ![r].status = "CANCELLED",
                                 ![r].cancelled_by = u]

Next == \E r \in Rides : \/ Request(r)
                         \/ Accept(r)
                         \/ Advance(r)
                         \/ Complete(r)
                         \/ Cancel(r)

Spec == Init /\ [][Next]_rides

-----------------------------------------------------------------------------
(* Every row is consistent: no ride in progress without a driver, no fare  *)
(* without a completed ride, no cancellation without one of its parties.   *)
RowsConsistent == \A r \in Rides : RowConsistent(rides[r])

(* A ride's passenger never changes, its driver never changes once          *)
(* assigned, and nothing at all changes once it is completed or cancelled. *)
Settled ==
    [][\A r \in Rides :
          /\ rides[r].passenger # None => rides'[r].passenger = rides[r].passenger
          /\ rides[r].driver # None => rides'[r].driver = rides[r].driver
          /\ IsTerminal(rides[r].status) => rides'[r] = rides[r]]_rides
=============================================================================
