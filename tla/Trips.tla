------------------------------- MODULE Trips -------------------------------
(***************************************************************************)
(* A rider and drivers whose apps send one request at a time, over the     *)
(* handlers of Rides, with the position of the drivers (UpdateLocation in  *)
(* internal/api/driver.go) and the views that show it.  Requests of one    *)
(* person no longer race with each other, those of different people do,    *)
(* and the admin suspends and lifts suspensions at any moment.             *)
(***************************************************************************)
EXTENDS Rides, Views

CONSTANTS
    Places,     \* the points a driver may report
    Owner,      \* whose app sends the request: one for each person
    Watched     \* the accounts an administrator suspends, a bound

ASSUME TripsAssumption ==
    /\ None \notin Places
    /\ Owner \in [Requests -> Riders \cup Drivers]
    /\ \A p, q \in Requests : Owner[p] = Owner[q] => p = q
    /\ Watched \subseteq Riders \cup Drivers

VARIABLES
    location,   \* drivers.location
    taken,      \* the ride accepted since the driver last toggled, else None
    onDuty,     \* has the driver gone online during a ride not yet over
    standing    \* the actor was free, barred, or neither ("mixed") all along

tripVars == <<vars, location, taken, onDuty, standing>>

TripInit ==
    /\ Init
    /\ location = [d \in Drivers |-> None]
    /\ taken    = [d \in Drivers |-> None]
    /\ onDuty   = [d \in Drivers |-> FALSE]
    /\ standing = [q \in Requests |-> "free"]

-----------------------------------------------------------------------------
(* The steps of Rides, and what they do to the history variables.          *)

UnderWay(t, d) == {r \in Rides : t[r].driver = d /\ ~IsTerminal(t[r].status)}

\* What the requests did to the drivers' flags.
Record ==
    /\ taken' = [d \in Drivers |->
          LET answered(pcs, ops) == \E q \in Requests :
                  /\ Owner[q] = d /\ req[q].pc \in pcs
                  /\ req[q].op \in ops /\ req'[q].pc = "done"
          IN  CASE answered({"flag"}, {"accept"}) ->
                       req[CHOOSE q \in Requests : Owner[q] = d].ride
                [] answered({"toggle"}, ToggleOps) -> None
                [] OTHER -> taken[d]]
    /\ onDuty' = [d \in Drivers |->
          /\ UnderWay(rides', d) # {}
          /\ \/ onDuty[d]
             \/ \E q \in Requests :
                   /\ Owner[q] = d /\ req[q].pc = "toggle"
                   /\ req[q].op = "online" /\ req'[q].pc = "done"]

\* The requests that suspendGuard is in front of.
GuardedOps == {"create", "accept", "online"}

\* An app waits for the answer to its last request.  Which new UUID a ride
\* is given makes no difference.
TripSubmit(q) ==
    /\ Submit(q)
    /\ req'[q].actor = Owner[q]
    /\ req'[q].op = "create" => req'[q].ride = CHOOSE r \in Rides : Addressed("create", r)
    /\ standing' = [standing EXCEPT ![q] =
                       IF req'[q].op \in GuardedOps /\ suspended[Owner[q]]
                       THEN "barred" ELSE "free"]
    /\ UNCHANGED <<location, taken, onDuty>>

TripHandler(q) == Handler(q) /\ Record /\ UNCHANGED <<location, standing>>

TripClose(q) ==
    /\ Close(q)
    /\ standing' = [standing EXCEPT ![q] = "free"]
    /\ UNCHANGED <<location, taken, onDuty>>

\* An administrator changes an account, whatever it is doing.
TripAdmin(u) ==
    /\ IF suspended[u] THEN Unsuspend(u) ELSE Suspend(u)
    /\ standing' = [q \in Requests |->
          IF req[q].actor = u /\ req[q].op \in GuardedOps
          THEN "mixed" ELSE standing[q]]
    /\ UNCHANGED <<location, taken, onDuty>>

\* One conditional UPDATE: it stores the position of an available driver
\* only, and answers 200 in any case.
UpdateLocation(d) ==
    /\ available[d]
    /\ \E place \in Places : location' = [location EXCEPT ![d] = place]
    /\ UNCHANGED <<vars, taken, onDuty, standing>>

\* An answer is read before anybody asks or changes anything else: reading it
\* commutes with that, so this leaves out no interleaving of the calls.
AllRead == \A q \in Requests : req[q].pc # "done"

TripNext ==
    \/ \E q \in Requests : TripHandler(q) \/ TripClose(q)
    \/ AllRead /\ \E q \in Requests : TripSubmit(q)
    \/ AllRead /\ \E u \in Watched : TripAdmin(u)
    \/ AllRead /\ \E d \in Drivers : UpdateLocation(d)

TripSpec == TripInit /\ [][TripNext]_tripVars

\* Without faults every call is answered: net/http runs each handler in a
\* goroutine of its own, no handler holds a connection between two calls.
TripFairSpec ==
    TripSpec /\ \A q \in Requests : WF_vars(Handler(q))

-----------------------------------------------------------------------------

\* The driver has no request under way.
AtRest(d) == \A q \in Requests :
    Owner[q] = d => req[q].pc \in {"idle", "done"}

(* NearbyDrivers offers riders the drivers who are free: one with a ride   *)
(* under way only after going online during it (ToggleAvailability does    *)
(* not look at rides).  And a driver who has a position, accepted a ride   *)
(* and has not toggled since is in somebody's view: offered to riders or   *)
(* on the live map, but for two gaps of the code.  The map leaves out the  *)
(* ARRIVED (admin_map.go:48), and cancelling a ride (ride.go:476) does not *)
(* make its driver available again, as completing it does.                 *)
NearbyAreFree == \A d \in Drivers : AtRest(d) =>
    LET offered == d \in NearbyDrivers(available, location, Places)
    IN  /\ offered => UnderWay(rides, d) = {} \/ onDuty[d]
        /\ taken[d] # None /\ location[d] # None /\ ~offered =>
               \/ taken[d] \in ActiveRides(rides, location)
               \/ rides[taken[d]].status \in {"ARRIVED", "CANCELLED"}

(* "El conductor debe estar disponible" (ride.go:503), and not suspended:  *)
(* whoever was suspended during the whole request creates no ride, takes   *)
(* none and does not go online, even when completing a ride has put the    *)
(* driver online (ride.go:938); whoever was free during all of it is never *)
(* told that the account is suspended.                                     *)
SuspensionDecides == \A q \in Requests :
    req[q].op \in GuardedOps =>
        /\ standing[q] = "barred" => req[q].pc # "flag" /\ req[q].code \notin {200, 201}
        /\ standing[q] = "free"   => req[q].code # 403

(* "El conductor debe estar disponible" (ride.go:503): when a driver sends *)
(* one request at a time, the availability read two calls before the       *)
(* assignment still holds when the ride is assigned.                       *)
AssignedAvailable ==
    [][\A r \in Rides : rides[r].driver # rides'[r].driver =>
          available[rides'[r].driver]]_tripVars
=============================================================================
