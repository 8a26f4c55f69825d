------------------------------- MODULE Views -------------------------------
(***************************************************************************)
(* The handlers that only read: each is the answer it gives over the       *)
(* tables.  t is the table rides, order the completed rides as ORDER BY    *)
(* completed_at DESC lists them, location and available the columns of     *)
(* drivers.  The SELECT of a handler is one statement and sees one         *)
(* snapshot; RiderRides makes two.                                         *)
(***************************************************************************)
EXTENDS RideModel, Sequences, FiniteSets, FiniteSetsExt, Functions

\* The rides GetRide answers with 200: to a party of the ride, 404 to others.
GetRide(t, u) == {r \in Rides : t[r] # NoRow /\ u \in {t[r].passenger, t[r].driver}}

\* Without ?status= (filter None) a rider lists every ride they asked for and
\* a driver the requests nobody has taken; with it, a driver lists any ride
\* without a driver, the ones cancelled before an acceptance included.
ListRides(t, u, filter) ==
    IF u \in Riders
    THEN {r \in Rides : t[r].passenger = u /\ filter \in {None, t[r].status}}
    ELSE {r \in Rides : /\ t[r].driver = None
                        /\ t[r].status = IF filter = None THEN "REQUESTED"
                                                          ELSE filter}

\* The rides of S that the order lists before r, and r.
UpTo(order, S, r) ==
    {x \in S : \E i, j \in DOMAIN order : i <= j /\ order[i] = x /\ order[j] = r}

\* WHERE passenger_id = $1 (driver_id = $1 for a driver) AND status =
\* 'COMPLETED' ORDER BY completed_at DESC: the k-th has k - 1 before it.
CompletedOf(t, order, u) ==
    LET mine == {r \in Range(order) : /\ u \in {t[r].passenger, t[r].driver}
                                      /\ t[r].status = "COMPLETED"}
    IN  [k \in 1..Cardinality(mine) |->
            CHOOSE r \in mine : Cardinality(UpTo(order, mine, r)) = k]

\* The first statement of RiderRides.
RiderRidesTotal(t, u) ==
    Cardinality({r \in Rides : t[r].passenger = u /\ t[r].status = "COMPLETED"})

\* The second: LIMIT and OFFSET over the list.
RiderRidesPage(t, order, u, limit, offset) ==
    LET all == CompletedOf(t, order, u)
    IN  SubSeq(all, offset + 1, Min({offset + limit, Len(all)}))

DriverRides(t, order, d) == CompletedOf(t, order, d)

\* NULL when there is none (the comment above the handler says 404).
PassengerLastRide(t, order, u) ==
    LET all == CompletedOf(t, order, u)
    IN  IF all = <<>> THEN None ELSE Head(all)

\* SUM(fare): NULLs do not count.
SumOfFares(t, S) ==
    MapThenSumSet(LAMBDA r : t[r].fare, {r \in S : t[r].fare # None})

\* The sum of the fares has no condition on the status.
RiderStats(t, u) ==
    LET mine == {r \in Rides : t[r].passenger = u}
    IN  [total_trips     |-> Cardinality(mine),
         completed_trips |-> Cardinality({r \in mine : t[r].status = "COMPLETED"}),
         total_spent     |-> SumOfFares(t, mine)]

\* LEFT JOIN rides ... COUNT(r.id).
GetPassengerTrips(t, u) == Cardinality({r \in Rides : t[r].passenger = u})

\* Of one day: completed_at::date = CURRENT_DATE holds for every ride.
DashboardStats(t) ==
    LET completed == {r \in Rides : t[r].status = "COMPLETED"}
    IN  [pending_rides |-> Cardinality({r \in Rides : t[r].status = "REQUESTED"}),
         rides_today   |-> Cardinality(completed),
         revenue_today |-> SumOfFares(t, completed)]

-----------------------------------------------------------------------------
(* The views that show where drivers are.  A location is None until the    *)
(* first UpdateLocation that finds the driver available.                   *)

\* The live map: ARRIVED is not in the list of the WHERE.
ActiveRides(t, location) ==
    {r \in Rides : /\ t[r].status \in {"ACCEPTED", "EN_ROUTE", "IN_PROGRESS"}
                   /\ location[t[r].driver] # None}

\* near are the places ST_DWithin accepts (of NULL it says NULL).
NearbyDrivers(available, location, near) ==
    {d \in Drivers : available[d] /\ location[d] \in near}
=============================================================================
