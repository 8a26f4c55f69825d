----------------------------- MODULE RideModel -----------------------------
(***************************************************************************)
(* The ride: its status machine (internal/model/ride.go), its row in the   *)
(* table rides (migration 000001_init) and its fare (CalcFare in           *)
(* internal/api/ride.go).  Constant level only: the abstract life cycle    *)
(* and the detailed handlers both extend this module.                      *)
(***************************************************************************)
EXTENDS Integers

CONSTANTS
    Rides,      \* the UUIDs gen_random_uuid() may hand out for rides
    Riders,     \* ids of the rows of the table users
    Drivers,    \* ids of the rows of the table drivers
    None        \* SQL NULL

ASSUME RideModelAssumption ==
    /\ None \notin Riders \cup Drivers
    /\ None \notin Int

-----------------------------------------------------------------------------
(* The status machine. *)

RideStatus == {"REQUESTED", "ACCEPTED", "EN_ROUTE", "ARRIVED",
               "IN_PROGRESS", "COMPLETED", "CANCELLED"}

IsTerminal(s) == s \in {"COMPLETED", "CANCELLED"}

transitionMatrix ==
    { <<"REQUESTED",   "ACCEPTED">>,    <<"REQUESTED",   "CANCELLED">>,
      <<"ACCEPTED",    "EN_ROUTE">>,    <<"ACCEPTED",    "CANCELLED">>,
      <<"EN_ROUTE",    "ARRIVED">>,     <<"EN_ROUTE",    "CANCELLED">>,
      <<"ARRIVED",     "IN_PROGRESS">>, <<"ARRIVED",     "CANCELLED">>,
      <<"IN_PROGRESS", "COMPLETED">>,   <<"IN_PROGRESS", "CANCELLED">> }

\* CanTransitionTo returning nil.
CanTransitionTo(s, target) ==
    /\ ~IsTerminal(s)
    /\ \/ s = "IN_PROGRESS" /\ target = "CANCELLED"
       \/ <<s, target>> \in transitionMatrix

CancelableStates == {s \in RideStatus : <<s, "CANCELLED">> \in transitionMatrix}

-----------------------------------------------------------------------------
(* The row.  "NO_ROW" is the status of a UUID that is not in the table. *)

RideRow == [status       : RideStatus \cup {"NO_ROW"},
            passenger    : Riders \cup {None},
            driver       : Drivers \cup {None},
            fare         : Nat \cup {None},
            cancelled_by : Riders \cup Drivers \cup {None}]

NoRow == [status |-> "NO_ROW", passenger |-> None, driver |-> None,
          fare |-> None, cancelled_by |-> None]

\* INSERT INTO rides: the columns the statement does not name start as NULL.
RequestedRow(p) == [status |-> "REQUESTED", passenger |-> p, driver |-> None,
                    fare |-> None, cancelled_by |-> None]

\* What the columns of one row say together, whoever wrote them last.
RowConsistent(row) ==
    /\ row.status = "NO_ROW" => row = NoRow
    /\ row.status # "NO_ROW" => row.passenger # None
    /\ row.status = "REQUESTED" => row.driver = None
    /\ row.status \in RideStatus \ {"REQUESTED", "CANCELLED"}
          => row.driver # None
    /\ row.fare # None <=> row.status = "COMPLETED"
    /\ row.cancelled_by # None <=> row.status = "CANCELLED"
    /\ row.cancelled_by \in {row.passenger, row.driver, None}

-----------------------------------------------------------------------------
(* CalcFare in hundredths: metres times hundredths per kilometre, rounded   *)
(* half up, never below the minimum.                                       *)

CalcFare(metres, ratePerKm, minimum) ==
    LET fare == (metres * ratePerKm + 500) \div 1000
    IN  IF fare < minimum THEN minimum ELSE fare
=============================================================================
