------------------------------- MODULE Rides -------------------------------
(***************************************************************************)
(* The ride handlers of internal/api/ride.go and the availability handler  *)
(* of internal/api/driver.go, one action per call a handler makes to the   *)
(* database.  A handler holds no lock and opens no transaction: what it    *)
(* read may be stale when it writes, and every other request may run       *)
(* between two of its calls.                                               *)
(*                                                                         *)
(* The answers that depend on no stored state (400 for a malformed body or *)
(* path, 401 without a token) are left out: they change nothing.  The role *)
(* check of the routes in cmd/server/main.go decides who may submit what.  *)
(***************************************************************************)
EXTENDS RideModel

CONSTANTS
    Requests,           \* the requests the server can be serving at a time
    Distance,           \* metres from pickup to dropoff, fixed at creation
    RatePerKm,          \* config: hundredths per kilometre
    MinimumFare,        \* config: hundredths
    CancelledByWidth,   \* width of the column rides.cancelled_by
    Faults              \* may calls to the database fail, may the process die

UuidTextLen == 36       \* length of uuid.UUID.String()

ASSUME RidesAssumption ==
    /\ Riders \cap Drivers = {}         \* two tables of random UUIDs
    /\ None \notin Rides
    /\ Distance \in [Rides -> Nat]
    /\ RatePerKm \in Nat
    /\ MinimumFare \in Nat
    /\ CancelledByWidth \in Nat
    /\ Faults \in BOOLEAN

VARIABLES
    rides,          \* the table rides
    available,      \* drivers.available
    suspended,      \* suspended_until > now(), in users and in drivers
    req             \* the requests being served

vars == <<rides, available, suspended, req>>

RiderOps    == {"create", "cancel"}
AdvanceOps  == {"en-route", "arrived", "start", "complete"}
RideOps     == {"accept", "cancel"} \cup AdvanceOps
ToggleOps   == {"online", "offline"}
DriverOps   == RideOps \cup ToggleOps
Ops         == RiderOps \cup DriverOps

\* pc names the next call to the database; seen is the status the handler
\* read; code is the HTTP status answered.
RequestState ==
    [op    : Ops \cup {"none"},
     actor : Riders \cup Drivers \cup {None},
     ride  : Rides \cup {None},
     pc    : {"idle", "guard", "available", "select", "update", "insert",
              "toggle", "flag", "done"},
     seen  : RideStatus \cup {"NO_ROW"},
     code  : {0, 200, 201, 400, 403, 404, 409, 500}]

Idle == [op |-> "none", actor |-> None, ride |-> None, pc |-> "idle",
         seen |-> "NO_ROW", code |-> 0]

TypeOK ==
    /\ rides     \in [Rides -> RideRow]
    /\ available \in [Drivers -> BOOLEAN]
    /\ suspended \in [Riders \cup Drivers -> BOOLEAN]
    /\ req       \in [Requests -> RequestState]

Init ==
    /\ rides     = [r \in Rides |-> NoRow]
    /\ available = [d \in Drivers |-> FALSE]
    /\ suspended = [u \in Riders \cup Drivers |-> FALSE]
    /\ req       = [q \in Requests |-> Idle]

-----------------------------------------------------------------------------
(* Arrival of a request, its answer, and the moves between two calls.      *)

FirstCall(op) == CASE op \in {"create", "accept", "online"} -> "guard"
                   [] op = "offline"                        -> "toggle"
                   [] OTHER                                 -> "select"

\* For a creation, ride is the UUID the database will draw: nobody else's.
Addressed(op, r) ==
    IF op = "create"
    THEN /\ r \in Rides /\ rides[r] = NoRow
         /\ \A p \in Requests : req[p].op = "create" => req[p].ride # r
    ELSE (r = None) <=> (op \in ToggleOps)

Submit(q) ==
    /\ req[q] = Idle
    /\ \E op \in Ops, u \in Riders \cup Drivers, r \in Rides \cup {None} :
          /\ IF u \in Riders THEN op \in RiderOps ELSE op \in DriverOps
          /\ Addressed(op, r)
          /\ req' = [req EXCEPT ![q] =
                 [op |-> op, actor |-> u, ride |-> r, pc |-> FirstCall(op),
                  seen |-> "NO_ROW", code |-> 0]]
    /\ UNCHANGED <<rides, available, suspended>>

Reply(q, code) ==
    req' = [req EXCEPT ![q] = [@ EXCEPT !.pc = "done", !.code = code]]

Goto(q, pc) == req' = [req EXCEPT ![q].pc = pc]

\* The client has read the answer.
Close(q) ==
    /\ req[q].pc = "done"
    /\ req' = [req EXCEPT ![q] = Idle]
    /\ UNCHANGED <<rides, available, suspended>>

-----------------------------------------------------------------------------
(* The calls.                                                              *)

\* Mutant: the answer of the guard is not looked at.
SuspendGuardIgnored(q) ==
    /\ req[q].pc = "guard"
    /\ Goto(q, CASE req[q].op = "create" -> "insert"
                 [] req[q].op = "accept" -> "available"
                 [] OTHER                -> "toggle")
    /\ UNCHANGED <<rides, available, suspended>>

SuspendGuard(q) ==
    /\ req[q].pc = "guard"
    /\ IF suspended[req[q].actor]
       THEN Reply(q, 403)
       ELSE Goto(q, CASE req[q].op = "create" -> "insert"
                      [] req[q].op = "accept" -> "available"
                      [] OTHER                -> "toggle")
    /\ UNCHANGED <<rides, available, suspended>>

InsertRide(q) ==
    /\ req[q].pc = "insert"
    /\ rides[req[q].ride] = NoRow       \* PRIMARY KEY
    /\ rides' = [rides EXCEPT ![req[q].ride] = RequestedRow(req[q].actor)]
    /\ Reply(q, 201) \/ (Faults /\ Reply(q, 500))
    /\ UNCHANGED <<available, suspended>>

\* Mutant: the availability is left to the app.
CheckAvailableNot(q) ==
    /\ req[q].pc = "available"
    /\ Goto(q, "select")
    /\ UNCHANGED <<rides, available, suspended>>

CheckAvailable(q) ==
    /\ req[q].pc = "available"
    /\ IF available[req[q].actor] THEN Goto(q, "select") ELSE Reply(q, 400)
    /\ UNCHANGED <<rides, available, suspended>>

Target(op) == CASE op = "accept"   -> "ACCEPTED"
                [] op = "cancel"   -> "CANCELLED"
                [] op = "en-route" -> "EN_ROUTE"
                [] op = "arrived"  -> "ARRIVED"
                [] op = "start"    -> "IN_PROGRESS"
                [] op = "complete" -> "COMPLETED"

\* Mutant: who cancels is not compared with the ride's parties.
HasAccessToCancel(op, u, row) ==
    /\ row # NoRow
    /\ op \notin {"accept", "cancel"} => u = row.driver

\* Whom the handler lets past the SELECT: anyone else is told 404.
HasAccess(op, u, row) ==
    /\ row # NoRow
    /\ CASE op = "accept" -> TRUE
         [] op = "cancel" -> u \in {row.passenger, row.driver}
         [] OTHER         -> u = row.driver

\* Mutant: the transition is left to the UPDATE.
SelectRideUnchecked(q) ==
    /\ req[q].pc = "select"
    /\ IF HasAccess(req[q].op, req[q].actor, rides[req[q].ride])
       THEN req' = [req EXCEPT ![q].pc = "update",
                               ![q].seen = rides[req[q].ride].status]
       ELSE Reply(q, 404)
    /\ UNCHANGED <<rides, available, suspended>>

SelectRide(q) ==
    /\ req[q].pc = "select"
    /\ LET op  == req[q].op
           u   == req[q].actor
           row == rides[req[q].ride]
       IN  CASE ~HasAccess(op, u, row) -> Reply(q, 404)
             [] HasAccess(op, u, row) /\ op = "accept" /\ row.passenger = u
                  -> Reply(q, 403)
             [] OTHER
                  -> IF CanTransitionTo(row.status, Target(op))
                     THEN req' = [req EXCEPT ![q] =
                             [@ EXCEPT !.pc = "update", !.seen = row.status]]
                     ELSE Reply(q, 400)
    /\ UNCHANGED <<rides, available, suspended>>

\* Mutants: the WHEREs without the columns that guard against races, and a
\* list of cancelable states that stops at the pickup.
WhereIdOnly(op, row) == row # NoRow

WhereReassigns(op, row) ==
    CASE op = "accept"   -> row.status \in {"REQUESTED", "ACCEPTED"}
      [] op = "cancel"   -> row.status \in CancelableStates
      [] op = "en-route" -> row.status = "ACCEPTED"
      [] op = "arrived"  -> row.status = "EN_ROUTE"
      [] op = "start"    -> row.status = "ARRIVED"
      [] op = "complete" -> row.status = "IN_PROGRESS"

WhereNotOnBoard(op, row) ==
    CASE op = "accept"   -> row.driver = None /\ row.status = "REQUESTED"
      [] op = "cancel"   -> row.status \in CancelableStates \ {"IN_PROGRESS"}
      [] op = "en-route" -> row.status = "ACCEPTED"
      [] op = "arrived"  -> row.status = "EN_ROUTE"
      [] op = "start"    -> row.status = "ARRIVED"
      [] op = "complete" -> row.status = "IN_PROGRESS"

\* The WHERE of the conditional UPDATE.
WhereMatches(op, row) ==
    CASE op = "accept"   -> row.driver = None /\ row.status = "REQUESTED"
      [] op = "cancel"   -> row.status \in CancelableStates
      [] op = "en-route" -> row.status = "ACCEPTED"
      [] op = "arrived"  -> row.status = "EN_ROUTE"
      [] op = "start"    -> row.status = "ARRIVED"
      [] op = "complete" -> row.status = "IN_PROGRESS"

\* Mutants: the wrong id is bound to driver_id; the fare is answered but not
\* stored.
UpdatedMisbound(op, u, r) ==
    [rides[r] EXCEPT !.status = Target(op),
                     !.driver = IF op = "accept" THEN rides[r].passenger ELSE @]

UpdatedUnpaid(op, u, r) ==
    [rides[r] EXCEPT !.status = Target(op),
                     !.driver = IF op = "accept" THEN u ELSE @,
                     !.cancelled_by = IF op = "cancel" THEN u ELSE @]

\* Its SET.
Updated(op, u, r) ==
    LET row == [rides[r] EXCEPT !.status = Target(op)]
    IN  CASE op = "accept"   -> [row EXCEPT !.driver = u]
          [] op = "complete" -> [row EXCEPT !.fare =
                                   CalcFare(Distance[r], RatePerKm, MinimumFare)]
          [] op = "cancel"   -> [row EXCEPT !.cancelled_by = u]
          [] OTHER           -> row

\* userID.String() does not fit the column cancelled_by.
TooLong(op) == op = "cancel" /\ CancelledByWidth < UuidTextLen

\* Accepting and completing go on to the driver's flag.  When the database
\* commits but the connection is lost, the handler answers 500.
UpdateApplied(q) ==
    /\ req[q].pc = "update"
    /\ ~TooLong(req[q].op)
    /\ WhereMatches(req[q].op, rides[req[q].ride])
    /\ rides' = [rides EXCEPT ![req[q].ride] =
                    Updated(req[q].op, req[q].actor, req[q].ride)]
    /\ \/ IF req[q].op \in {"accept", "complete"}
          THEN Goto(q, "flag")
          ELSE Reply(q, 200)
       \/ Faults /\ Reply(q, 500)
    /\ UNCHANGED <<available, suspended>>

\* Mutant: RowsAffected is not looked at.
UpdateMissedUnnoticed(q) ==
    /\ req[q].pc = "update"
    /\ ~WhereMatches(req[q].op, rides[req[q].ride])
    /\ Reply(q, 200)
    /\ UNCHANGED <<rides, available, suspended>>

UpdateMissed(q) ==
    /\ req[q].pc = "update"
    /\ ~WhereMatches(req[q].op, rides[req[q].ride])
    /\ Reply(q, 409)
    /\ UNCHANGED <<rides, available, suspended>>

\* PostgreSQL rejects the value; whether it does so when no row matches
\* depends on the plan (a constant is coerced when the plan is made).
UpdateRejected(q) ==
    /\ req[q].pc = "update"
    /\ TooLong(req[q].op)
    /\ Reply(q, 500)
    /\ UNCHANGED <<rides, available, suspended>>

\* Mutant: the literal of the other handler is pasted.
SetFlagDown(q) ==
    /\ req[q].pc = "flag"
    /\ available' = [available EXCEPT ![req[q].actor] = FALSE]
    /\ Reply(q, 200)
    /\ UNCHANGED <<rides, suspended>>

SetFlag(q) ==
    /\ req[q].pc = "flag"
    /\ available' = [available EXCEPT ![req[q].actor] = (req[q].op = "complete")]
    /\ Reply(q, 200)
    /\ UNCHANGED <<rides, suspended>>

Toggle(q) ==
    /\ req[q].pc = "toggle"
    /\ available' = [available EXCEPT ![req[q].actor] = (req[q].op = "online")]
    /\ Reply(q, 200) \/ (Faults /\ Reply(q, 500))
    /\ UNCHANGED <<rides, suspended>>

\* A call fails before it does anything (or the client hangs up: the calls
\* run under r.Context()).  The flag is "non-critical": logged, still 200.
DbError(q) ==
    /\ Faults
    /\ req[q].pc \notin {"idle", "done"}
    /\ Reply(q, IF req[q].pc = "flag" THEN 200 ELSE 500)
    /\ UNCHANGED <<rides, available, suspended>>

-----------------------------------------------------------------------------
(* The handlers.                                                           *)

CreateRide(q) == req[q].op = "create" /\ (SuspendGuard(q) \/ InsertRide(q))

CancelRide(q) ==
    /\ req[q].op = "cancel"
    /\ SelectRide(q) \/ UpdateApplied(q) \/ UpdateMissed(q) \/ UpdateRejected(q)

AcceptRide(q) ==
    /\ req[q].op = "accept"
    /\ \/ SuspendGuard(q) \/ CheckAvailable(q) \/ SelectRide(q)
       \/ UpdateApplied(q) \/ UpdateMissed(q) \/ SetFlag(q)

AdvanceRide(q, op) ==
    /\ req[q].op = op
    /\ SelectRide(q) \/ UpdateApplied(q) \/ UpdateMissed(q)

EnRouteRide(q) == AdvanceRide(q, "en-route")
ArrivedRide(q) == AdvanceRide(q, "arrived")
StartRide(q)   == AdvanceRide(q, "start")

CompleteRide(q) ==
    \/ AdvanceRide(q, "complete")
    \/ req[q].op = "complete" /\ SetFlag(q)

ToggleAvailability(q) ==
    /\ req[q].op \in ToggleOps
    /\ SuspendGuard(q) \/ Toggle(q)

Handler(q) ==
    \/ CreateRide(q) \/ CancelRide(q) \/ AcceptRide(q) \/ EnRouteRide(q)
    \/ ArrivedRide(q) \/ StartRide(q) \/ CompleteRide(q)
    \/ ToggleAvailability(q)

\* The process is killed between two calls: nobody is answered.
Killed(q) ==
    /\ Faults
    /\ req[q].pc \notin {"idle", "done"}
    /\ req' = [req EXCEPT ![q] = Idle]
    /\ UNCHANGED <<rides, available, suspended>>

\* An administrator suspends or bans an account, or lifts the suspension;
\* a temporary ban also ends by itself, when suspended_until has passed.
Suspend(u) ==
    /\ suspended' = [suspended EXCEPT ![u] = TRUE]
    /\ UNCHANGED <<rides, available, req>>

Unsuspend(u) ==
    /\ suspended' = [suspended EXCEPT ![u] = FALSE]
    /\ UNCHANGED <<rides, available, req>>

Next ==
    \/ \E q \in Requests :
          Submit(q) \/ Handler(q) \/ DbError(q) \/ Killed(q) \/ Close(q)
    \/ \E u \in Riders \cup Drivers : Suspend(u) \/ Unsuspend(u)

Spec == Init /\ [][Next]_vars

-----------------------------------------------------------------------------
(* What the handlers promise.                                              *)

\* The rows implement the atomic life cycle.
Lifecycle == INSTANCE RideLifecycle WITH
    Fares <- {CalcFare(Distance[r], RatePerKm, MinimumFare) : r \in Rides}

(* README.md ("Ride State Machine"): whatever the handlers interleave,     *)
(* fail or lose, each ride behaves as if its requests came one at a time.  *)
RefinesLifecycle == Lifecycle!Spec

RowsConsistent == \A r \in Rides : RowConsistent(rides[r])

\* The request's UPDATE is in the table and the handler knows it.
Won(q) == \/ req[q].pc = "flag"
          \/ req[q].pc = "done" /\ req[q].code = 200 /\ req[q].op \in RideOps

StatusRank(s) == CASE s = "NO_ROW"      -> 0
                   [] s = "REQUESTED"   -> 1
                   [] s = "ACCEPTED"    -> 2
                   [] s = "EN_ROUTE"    -> 3
                   [] s = "ARRIVED"     -> 4
                   [] s = "IN_PROGRESS" -> 5
                   [] s = "COMPLETED"   -> 6
                   [] s = "CANCELLED"   -> 7

(* An answer of success stays true: the driver told 200 for an accept is   *)
(* the driver of the ride for good, the ride told started is never seen    *)
(* earlier than started, the one told cancelled or completed stays so, for *)
(* the one who asked and with the fare of its distance.                    *)
AnswersHold == \A q \in Requests :
    LET row == rides[req[q].ride]
    IN  /\ Won(q) =>
             /\ StatusRank(row.status) >= StatusRank(Target(req[q].op))
             /\ req[q].op \in {"cancel", "complete"}
                   => row.status = Target(req[q].op)
             /\ req[q].op = "cancel" => row.cancelled_by = req[q].actor
             /\ req[q].op # "cancel" => row.driver = req[q].actor
             /\ req[q].op = "complete" => row.fare =
                   CalcFare(Distance[req[q].ride], RatePerKm, MinimumFare)
        /\ req[q].code = 201 => row.passenger = req[q].actor

(* ARCHITECTURE.md ("Concurrency Safety"): of two requests for the same    *)
(* step of the same ride one wins.  Never do both hear 200, and a ride is  *)
(* never told both completed and cancelled.                                *)
OneWinner == \A p, q \in Requests :
    p # q /\ Won(p) /\ Won(q) /\ req[p].ride = req[q].ride =>
        /\ req[p].op # req[q].op
        /\ ~(req[p].op = "complete" /\ req[q].op = "cancel")

(* "409 si otro request ya cambio el estado": a conflict is never spurious,*)
(* the ride has moved on since the handler read it, and one that could not *)
(* be cancelled is over.                                                   *)
ConflictIsGenuine == \A q \in Requests :
    req[q].pc = "done" /\ req[q].code = 409 =>
        LET s == rides[req[q].ride].status
        IN  /\ StatusRank(s) > StatusRank(req[q].seen)
            /\ req[q].op = "cancel" => IsTerminal(s)

\* Whose request a ride may take a step for.
Entitled(op, u, row) ==
    /\ op = "cancel" => u \in {row.passenger, row.driver}
    /\ op = "accept" => row.driver = None
    /\ op \notin {"accept", "cancel"} => u = row.driver

(* Only the ride's driver moves it on, only its passenger or its driver    *)
(* cancels it, and only a ride without a driver is accepted.  None of the  *)
(* UPDATEs names who asked: the SELECT did, one call earlier, and it must  *)
(* still be so when the row is written.                                    *)
OnlyPartiesAct ==
    [][\A r \in Rides :
          rides[r].status \notin {rides'[r].status, "NO_ROW"} =>
              \E q \in Requests :
                  /\ req[q].pc = "update" /\ req[q].ride = r
                  /\ Target(req[q].op) = rides'[r].status
                  /\ Entitled(req[q].op, req[q].actor, rides[r])]_vars

(* A cancellation past its checks ends the ride, even when it loses the    *)
(* race: what it lost to can only be another end of the ride.              *)
CancelEndsRide == \A r \in Rides :
    (\E q \in Requests : /\ req[q].op = "cancel"
                         /\ req[q].pc = "update"
                         /\ req[q].ride = r)
        ~> IsTerminal(rides[r].status)

-----------------------------------------------------------------------------
(* What the documentation promises and the handlers do not keep: with the  *)
(* column cancelled_by as migration 000001_init declares it.               *)

(* "Response: 200 {id, status: CANCELLED}" (ride.go:415) or a 4xx: without *)
(* any fault of the database, no cancellation is answered 500.             *)
CancelNeverFails == \A q \in Requests :
    ~(req[q].op = "cancel" /\ req[q].pc = "done" /\ req[q].code = 500)
=============================================================================
