---------------------------- MODULE TripsProofs ----------------------------
(***************************************************************************)
(* Apps that send one request at a time: a driver who checked to be        *)
(* available is so at the assignment, a suspension decides, and the flag,  *)
(* the position and the rides of a driver stay in step, for any number of  *)
(* people, rides and places.                                               *)
(*                                                                         *)
(* The argument: a driver's flag and toggles are written by the driver's   *)
(* own requests alone, of which there is one at a time; what others do to  *)
(* a driver's rides can only end one (OthersStep).  The last two theorems  *)
(* are about a database that does not fail: a lost answer leaves the flag  *)
(* as it was before the ride.                                              *)
(***************************************************************************)
EXTENDS Trips, RidesProofs

TripTypes ==
    /\ location \in [Drivers -> Places \cup {None}]
    /\ taken    \in [Drivers -> Rides \cup {None}]
    /\ onDuty   \in [Drivers -> BOOLEAN]
    /\ standing \in [Requests -> {"free", "barred", "mixed"}]

\* A request is its owner's.
Owned == \A q \in Requests : req[q] = Idle \/ req[q].actor = Owner[q]

\* A request that suspendGuard is in front of, and the account meanwhile.
Judged(q) ==
    req[q].op \in GuardedOps =>
        /\ standing[q] = "barred" =>
              /\ suspended[Owner[q]]
              /\ req[q].pc \in {"guard", "done"}
              /\ req[q].code \notin {200, 201}
        /\ standing[q] = "free" => ~suspended[Owner[q]] /\ req[q].code # 403

\* Between the check of the flag and the assignment.
StillAvailable(q) ==
    req[q].op = "accept" /\ req[q].pc \in {"select", "update"} =>
        available[Owner[q]]

\* The inductive invariant, whatever fails.
TInv ==
    /\ IInv
    /\ TripTypes
    /\ Owned
    /\ \A q \in Requests : Judged(q) /\ StillAvailable(q)

-----------------------------------------------------------------------------
(* What is left of it when nothing fails.                                  *)

\* A request of the driver is about to write the flag after its ride.
AtFlag(d, op) == \E q \in Requests :
    Owner[q] = d /\ req[q].op = op /\ req[q].pc = "flag"

\* The ride of an acceptance whose driver's flag is not yet written.
JustTaken(q) ==
    req[q].op = "accept" /\ req[q].pc = "flag" =>
        rides[req[q].ride].status \in {"ACCEPTED", "CANCELLED"}

\* Without going online during a ride, one ride at a time and none available.
OneRide(d) ==
    ~onDuty[d] =>
        /\ \A r, s \in UnderWay(rides, d) : r = s
        /\ UnderWay(rides, d) # {} => ~available[d] \/ AtFlag(d, "accept")
        /\ AtFlag(d, "complete") => UnderWay(rides, d) = {}

\* The ride last taken is the driver's, and completing it raised the flag.
TakenOk(d) ==
    taken[d] # None =>
        /\ rides[taken[d]].driver = d
        /\ rides[taken[d]].status = "COMPLETED" =>
              available[d] \/ AtFlag(d, "complete")

FInv ==
    /\ TInv
    /\ \A q \in Requests : JustTaken(q)
    /\ \A d \in Drivers : OneRide(d) /\ TakenOk(d)

-----------------------------------------------------------------------------
(* Whose a request is.                                                     *)

LEMMA Private ==
    /\ \A q \in Requests : Owner[q] \in Riders \cup Drivers
    /\ \A p, q \in Requests : Owner[p] = Owner[q] => p = q
    /\ None \notin Places
BY TripsAssumption

LEMMA OwnRequest ==
    ASSUME TInv, NEW q \in Requests, req[q].pc # "idle"
    PROVE  req[q].actor = Owner[q]
BY DEF TInv, Owned, Idle

-----------------------------------------------------------------------------
(* The steps of Trips are steps of Rides.                                  *)

LEMMA TripStepIsStep == [TripNext]_tripVars => [Next]_vars
<1>1. ASSUME NEW u \in Watched, TripAdmin(u) PROVE Next
  BY <1>1, TripsAssumption DEF TripAdmin, Next
<1>2. ASSUME NEW d \in Drivers, UpdateLocation(d) PROVE UNCHANGED vars
  BY <1>2 DEF UpdateLocation
<1>3. ASSUME NEW q \in Requests, TripHandler(q) \/ TripClose(q) \/ TripSubmit(q)
      PROVE  Next
  BY <1>3 DEF TripHandler, TripClose, TripSubmit, Next
<1> QED BY <1>1, <1>2, <1>3 DEF TripNext, tripVars

-----------------------------------------------------------------------------
(* The invariant that faults leave.                                        *)

LEMMA JudgedKept ==
    ASSUME TInv, NEW q \in Requests, Handler(q), standing' = standing,
           NEW p \in Requests
    PROVE  Judged(p)'
<1>1. IInv /\ Judged(q) /\ Judged(p)
  BY DEF TInv
<1>2. suspended' = suspended /\ req[q].pc \notin {"idle", "done"}
  BY <1>1, HandlerMoves
<1>3. req[q].actor = Owner[q]
  BY <1>2, OwnRequest
<1>4. CASE p # q
  <2>1. req'[p] = req[p]
    BY <1>1, <1>4, HandlerMoves DEF Moves
  <2> QED BY <1>1, <1>2, <2>1 DEF Judged
<1>5. CASE p = q
  <2> SUFFICES ASSUME req'[q].op \in GuardedOps
               PROVE  /\ standing[q] = "barred" =>
                            /\ suspended[Owner[q]]
                            /\ req'[q].pc \in {"guard", "done"}
                            /\ req'[q].code \notin {200, 201}
                      /\ standing[q] = "free" =>
                            ~suspended[Owner[q]] /\ req'[q].code # 403
    BY <1>2, <1>5 DEF Judged
  <2>1. req[q].op \in GuardedOps
    BY <1>1, HandlerMoves DEF Moves
  <2>2. /\ standing[q] = "barred" => suspended[Owner[q]] /\ req[q].pc = "guard"
        /\ standing[q] = "free" => ~suspended[Owner[q]]
    BY <1>1, <1>2, <2>1 DEF Judged
  <2>3. CASE SuspendGuard(q)
    BY <1>1, <1>3, <2>2, <2>3, GuardMoves DEF Moves
  <2>4. CASE InsertRide(q)
    BY <1>1, <2>2, <2>4, InsertMoves DEF Moves
  <2>5. CASE CheckAvailable(q)
    BY <1>1, <2>2, <2>5, AvailableMoves DEF Moves
  <2>6. CASE SelectRide(q)
    BY <1>1, <2>2, <2>6, SelectMoves DEF Moves
  <2>7. CASE UpdateApplied(q)
    BY <1>1, <2>2, <2>7, AppliedMoves DEF Moves
  <2>8. CASE UpdateMissed(q) \/ UpdateRejected(q)
    BY <1>1, <2>2, <2>8, RefusedMoves DEF Moves
  <2>9. CASE SetFlag(q)
    BY <1>1, <2>2, <2>9, FlagMoves DEF Moves
  <2>10. CASE Toggle(q)
    BY <1>1, <2>2, <2>10, ToggleMoves DEF Moves
  <2> QED BY <2>3, <2>4, <2>5, <2>6, <2>7, <2>8, <2>9, <2>10, HandlerCalls
<1> QED BY <1>4, <1>5

LEMMA AvailableKept ==
    ASSUME TInv, NEW q \in Requests, Handler(q), NEW p \in Requests
    PROVE  StillAvailable(p)'
<1>1. IInv /\ StillAvailable(p) /\ StillAvailable(q)
  BY DEF TInv
<1>2. req[q].pc \notin {"idle", "done"}
  BY <1>1, HandlerMoves
<1>3. req[q].actor = Owner[q]
  BY <1>2, OwnRequest
<1>4. CASE p # q
  <2> SUFFICES ASSUME req[p].op = "accept", req[p].pc \in {"select", "update"}
               PROVE  available'[Owner[p]]
    BY <1>1, <1>4, HandlerMoves DEF Moves, StillAvailable
  <2>1. req[p].actor = Owner[p] /\ req[p].actor \in Drivers
    BY <1>1, OwnRequest, RequestFacts DEF CallOk, DriverOps, RideOps
  <2>2. Owner[p] # Owner[q]
    BY <1>4, Private
  <2> QED BY <1>1, <1>3, <2>1, <2>2, HandlerMoves DEF StillAvailable
<1>5. CASE p = q
  <2> SUFFICES ASSUME req[q].op = "accept", req'[q].pc \in {"select", "update"}
               PROVE  available'[Owner[q]]
    BY <1>1, <1>5, HandlerMoves DEF Moves, StillAvailable
  <2>1. SuspendGuard(q) => FALSE
    BY <1>1, GuardMoves DEF Moves
  <2>2. InsertRide(q) => FALSE
    BY <1>1, InsertMoves DEF Moves
  <2>3. CASE CheckAvailable(q)
    BY <1>1, <1>3, <2>3, AvailableMoves DEF Moves
  <2>4. CASE SelectRide(q)
    BY <1>1, <2>4, SelectMoves DEF Moves, StillAvailable
  <2>5. UpdateApplied(q) => FALSE
    BY <1>1, AppliedMoves DEF Moves
  <2>6. UpdateMissed(q) \/ UpdateRejected(q) => FALSE
    BY <1>1, RefusedMoves DEF Moves
  <2>7. SetFlag(q) => FALSE
    BY <1>1, FlagMoves DEF Moves
  <2>8. Toggle(q) => FALSE
    BY <1>1, ToggleMoves DEF Moves
  <2> QED BY <2>1, <2>2, <2>3, <2>4, <2>5, <2>6, <2>7, <2>8, HandlerCalls
<1> QED BY <1>4, <1>5

\* Requests at their last call, one for each call that may be the last of a
\* driver's request about the flag.
LEMMA LastCall ==
    ASSUME IInv, NEW q \in Requests, Handler(q), req[q].pc \in {"flag", "toggle"}
    PROVE  /\ req'[q].pc = "done"
           /\ req[q].pc = "flag" => SetFlag(q)
           /\ req[q].pc = "toggle" => Toggle(q)
<1>1. /\ ~SuspendGuard(q) /\ ~InsertRide(q) /\ ~CheckAvailable(q)
      /\ ~SelectRide(q) /\ ~UpdateApplied(q)
  BY GuardMoves, InsertMoves, AvailableMoves, SelectMoves, AppliedMoves
<1>2. ~UpdateMissed(q) /\ ~UpdateRejected(q)
  BY RefusedMoves
<1>3. SetFlag(q) \/ Toggle(q)
  BY <1>1, <1>2, HandlerCalls
<1>4. SetFlag(q) => req[q].pc = "flag" /\ req'[q].pc = "done"
  BY FlagMoves DEF Moves
<1>5. Toggle(q) => req[q].pc = "toggle" /\ req'[q].pc = "done"
  BY ToggleMoves DEF Moves
<1> QED BY <1>3, <1>4, <1>5

\* Record, read off for one driver.
LEMMA Recorded ==
    ASSUME TInv, NEW q \in Requests, Handler(q), Record
    PROVE  /\ taken' \in [Drivers -> Rides \cup {None}]
           /\ onDuty' \in [Drivers -> BOOLEAN]
           /\ \A d \in Drivers :
                 LET mine == Owner[q] = d
                 IN  /\ mine /\ req[q].pc = "flag" /\ req[q].op = "accept"
                           => taken'[d] = req[q].ride
                     /\ mine /\ req[q].pc = "toggle" => taken'[d] = None
                     /\ ~(mine /\ req[q].pc = "toggle")
                        /\ ~(mine /\ req[q].pc = "flag" /\ req[q].op = "accept")
                           => taken'[d] = taken[d]
                     /\ onDuty'[d] = (/\ UnderWay(rides', d) # {}
                                      /\ \/ onDuty[d]
                                         \/ mine /\ req[q].pc = "toggle"
                                                 /\ req[q].op = "online")
<1>1. /\ IInv /\ TripTypes /\ req \in [Requests -> RequestState]
      /\ \A p \in Requests \ {q} : req'[p] = req[p]
  BY HandlerMoves DEF TInv, IInv, TypeOK, Moves
<1>2. \A p \in Requests : req[p].ride \in Rides \cup {None}
  BY <1>1 DEF RequestState
<1> DEFINE Answered(d, pcs, ops) == \E p \in Requests :
               /\ Owner[p] = d /\ req[p].pc \in pcs
               /\ req[p].op \in ops /\ req'[p].pc = "done"
           Chosen(d) == CHOOSE p \in Requests : Owner[p] = d
           Take(d) == CASE Answered(d, {"flag"}, {"accept"}) -> req[Chosen(d)].ride
                        [] Answered(d, {"toggle"}, ToggleOps) -> None
                        [] OTHER -> taken[d]
           Duty(d) == /\ UnderWay(rides', d) # {}
                      /\ \/ onDuty[d]
                         \/ \E p \in Requests :
                               /\ Owner[p] = d /\ req[p].pc = "toggle"
                               /\ req[p].op = "online" /\ req'[p].pc = "done"
<1>3. taken' = [d \in Drivers |-> Take(d)]
  BY DEF Record
<1>4. onDuty' = [d \in Drivers |-> Duty(d)]
  BY DEF Record
<1>5. ASSUME NEW d \in Drivers
      PROVE  /\ Answered(d, {"flag"}, {"accept"}) <=>
                   Owner[q] = d /\ req[q].pc = "flag" /\ req[q].op = "accept"
             /\ Answered(d, {"toggle"}, ToggleOps) <=>
                   Owner[q] = d /\ req[q].pc = "toggle"
             /\ Duty(d) = (/\ UnderWay(rides', d) # {}
                           /\ \/ onDuty[d]
                              \/ /\ Owner[q] = d /\ req[q].pc = "toggle"
                                 /\ req[q].op = "online")
  <2>1. \A p \in Requests : req[p].pc # "done" /\ req'[p].pc = "done" => p = q
    BY <1>1
  <2>2. req[q].pc \in {"flag", "toggle"} => req'[q].pc = "done"
    BY <1>1, LastCall
  <2>3. req[q].pc = "toggle" => req[q].op \in ToggleOps
    BY <1>1, RequestFacts DEF CallOk
  <2> QED BY <2>1, <2>2, <2>3
<1>6. ASSUME NEW d \in Drivers, Owner[q] = d PROVE Chosen(d) = q
  <2>1. Chosen(d) \in Requests /\ Owner[Chosen(d)] = d
    BY <1>6, Zenon
  <2> QED BY <1>6, <2>1, Private
<1>7. ASSUME NEW d \in Drivers
      PROVE  LET accepted == Answered(d, {"flag"}, {"accept"})
                 toggled  == Answered(d, {"toggle"}, ToggleOps)
             IN  /\ accepted /\ ~toggled => Take(d) = req[Chosen(d)].ride
                 /\ ~accepted /\ toggled => Take(d) = None
                 /\ ~accepted /\ ~toggled => Take(d) = taken[d]
  BY Zenon
<1>8. ASSUME NEW d \in Drivers
      PROVE  LET mine == Owner[q] = d
             IN  /\ mine /\ req[q].pc = "flag" /\ req[q].op = "accept"
                       => Take(d) = req[q].ride
                 /\ mine /\ req[q].pc = "toggle" => Take(d) = None
                 /\ ~(mine /\ req[q].pc = "toggle")
                    /\ ~(mine /\ req[q].pc = "flag" /\ req[q].op = "accept")
                       => Take(d) = taken[d]
  <2> HIDE DEF Answered, Chosen, Take
  <2> QED BY <1>5, <1>6, <1>7
<1>9. ASSUME NEW d \in Drivers PROVE Duty(d) \in BOOLEAN
  OBVIOUS
<1> HIDE DEF Take, Duty, Answered, Chosen
<1>10. ASSUME NEW d \in Drivers PROVE Take(d) \in Rides \cup {None}
  <2>1. req[q].ride \in Rides \cup {None} /\ taken[d] \in Rides \cup {None}
    BY <1>1, <1>2 DEF TripTypes
  <2> QED BY <1>8, <2>1
<1> QED BY <1>3, <1>4, <1>5, <1>8, <1>9, <1>10

LEMMA HandlerKeeps ==
    ASSUME TInv, NEW q \in Requests, TripHandler(q)
    PROVE  TInv'
<1>1. /\ IInv /\ TripTypes /\ Handler(q) /\ Record
      /\ UNCHANGED <<location, standing>>
  BY DEF TInv, TripHandler
<1>2. IInv'
  BY <1>1, NextIInv DEF Next
<1>3. TripTypes'
  BY <1>1, Recorded DEF TripTypes
<1>4. Owned'
  <2> SUFFICES ASSUME NEW p \in Requests
               PROVE  req'[p] = Idle \/ req'[p].actor = Owner[p]
    BY DEF Owned
  <2>1. CASE p = q
    BY <1>1, <2>1, HandlerMoves, OwnRequest DEF Moves
  <2>2. CASE p # q
    BY <1>1, <2>2, HandlerMoves DEF Moves, TInv, Owned
  <2> QED BY <2>1, <2>2
<1> QED BY <1>1, <1>2, <1>3, <1>4, JudgedKept, AvailableKept DEF TInv

LEMMA SubmitKeeps ==
    ASSUME TInv, NEW q \in Requests, TripSubmit(q)
    PROVE  /\ TInv'
           /\ req[q] = Idle /\ req'[q].pc \in {"guard", "select", "toggle"}
           /\ \A p \in Requests \ {q} : req'[p] = req[p]
           /\ UNCHANGED <<rides, available, suspended, location, taken, onDuty>>
<1>1. /\ IInv /\ TripTypes /\ Submit(q) /\ req'[q].actor = Owner[q]
      /\ standing' = [standing EXCEPT ![q] =
                         IF req'[q].op \in GuardedOps /\ suspended[Owner[q]]
                         THEN "barred" ELSE "free"]
      /\ UNCHANGED <<location, taken, onDuty>>
      /\ req \in [Requests -> RequestState]
  BY DEF TInv, TripSubmit, IInv, TypeOK
<1>2. IInv'
  BY <1>1, NextIInv DEF Next
<1>3. PICK op \in Ops, u \in Riders \cup Drivers, r \in Rides \cup {None} :
         req' = [req EXCEPT ![q] =
                    [op |-> op, actor |-> u, ride |-> r, pc |-> FirstCall(op),
                     seen |-> "NO_ROW", code |-> 0]]
  BY <1>1 DEF Submit
<1>4. /\ req'[q].op = op /\ req'[q].pc = FirstCall(op) /\ req'[q].code = 0
      /\ \A p \in Requests \ {q} : req'[p] = req[p]
  BY <1>1, <1>3
<1>5. /\ op \in GuardedOps => FirstCall(op) = "guard"
      /\ FirstCall(op) \in {"guard", "select", "toggle"}
  <2>1. op \in {"create", "accept", "online"} => FirstCall(op) = "guard"
    <3>1. op # "offline" \/ op \notin {"create", "accept", "online"}
      OBVIOUS
    <3> QED BY <3>1, Zenon DEF FirstCall
  <2>2. op \notin {"create", "accept", "online"} =>
           FirstCall(op) \in {"select", "toggle"}
    BY Zenon DEF FirstCall
  <2> QED BY <2>1, <2>2 DEF GuardedOps
<1>6. TripTypes'
  BY <1>1 DEF TripTypes
<1>7. Owned'
  BY <1>1, <1>4 DEF Owned, TInv
<1>8. UNCHANGED <<rides, available, suspended>> /\ req[q] = Idle
  BY <1>1 DEF Submit
<1>9. ASSUME NEW p \in Requests PROVE Judged(p)' /\ StillAvailable(p)'
  <2>1. CASE p = q
    BY <1>1, <1>4, <1>5, <1>8, <2>1 DEF Judged, StillAvailable, TripTypes, GuardedOps
  <2>2. CASE p # q
    BY <1>1, <1>4, <1>8, <2>2 DEF Judged, StillAvailable, TripTypes, TInv
  <2> QED BY <2>1, <2>2
<1> QED BY <1>1, <1>2, <1>4, <1>5, <1>6, <1>7, <1>8, <1>9 DEF TInv

LEMMA CloseKeeps ==
    ASSUME TInv, NEW q \in Requests, TripClose(q)
    PROVE  /\ TInv'
           /\ req[q].pc = "done" /\ req'[q] = Idle
           /\ \A p \in Requests \ {q} : req'[p] = req[p]
           /\ UNCHANGED <<rides, available, suspended, location, taken, onDuty>>
<1>1. /\ IInv /\ TripTypes /\ Close(q)
      /\ standing' = [standing EXCEPT ![q] = "free"]
      /\ UNCHANGED <<location, taken, onDuty>>
      /\ req \in [Requests -> RequestState]
  BY DEF TInv, TripClose, IInv, TypeOK
<1>2. /\ req[q].pc = "done" /\ req' = [req EXCEPT ![q] = Idle]
      /\ UNCHANGED <<rides, available, suspended>>
  BY <1>1 DEF Close
<1>3. req'[q] = Idle /\ \A p \in Requests \ {q} : req'[p] = req[p]
  BY <1>1, <1>2
<1>4. IInv'
  BY <1>1, NextIInv DEF Next
<1>5. TripTypes' /\ Owned'
  BY <1>1, <1>3 DEF TripTypes, Owned, TInv
<1>6. ASSUME NEW p \in Requests PROVE Judged(p)' /\ StillAvailable(p)'
  <2>1. CASE p = q
    BY <1>3, <2>1 DEF Judged, StillAvailable, Idle, GuardedOps
  <2>2. CASE p # q
    BY <1>1, <1>2, <1>3, <2>2 DEF Judged, StillAvailable, TripTypes, TInv
  <2> QED BY <2>1, <2>2
<1> QED BY <1>1, <1>2, <1>3, <1>4, <1>5, <1>6 DEF TInv

\* The requests of the account are judged no more; the others' are as before.
LEMMA AdminKeeps ==
    ASSUME TInv, NEW u \in Watched, TripAdmin(u)
    PROVE  TInv' /\ UNCHANGED <<rides, available, req, location, taken, onDuty>>
<1>1. /\ IInv /\ TripTypes /\ u \in Riders \cup Drivers
      /\ suspended \in [Riders \cup Drivers -> BOOLEAN]
      /\ standing' = [q \in Requests |->
                         IF req[q].actor = u /\ req[q].op \in GuardedOps
                         THEN "mixed" ELSE standing[q]]
      /\ UNCHANGED <<rides, available, req, location, taken, onDuty>>
      /\ \E b \in BOOLEAN : suspended' = [suspended EXCEPT ![u] = b]
  BY TripsAssumption DEF TInv, IInv, TypeOK, TripAdmin, Suspend, Unsuspend
<1>2. IInv'
  BY TripStepIsStep, NextIInv, <1>1 DEF TripNext, TripAdmin, Next
<1>3. TripTypes' /\ Owned'
  BY <1>1 DEF TripTypes, Owned, TInv
<1>4. ASSUME NEW p \in Requests PROVE Judged(p)' /\ StillAvailable(p)'
  <2>1. StillAvailable(p)' /\ Judged(p)
    BY <1>1 DEF StillAvailable, TInv
  <2> SUFFICES ASSUME req[p].op \in GuardedOps
               PROVE  Judged(p)'
    BY <1>1, <2>1 DEF Judged
  <2>2. req[p].actor = Owner[p]
    BY DEF TInv, Owned, Idle, GuardedOps
  <2>3. CASE Owner[p] = u
    BY <1>1, <2>2, <2>3 DEF Judged
  <2>4. CASE Owner[p] # u
    <3>1. suspended'[Owner[p]] = suspended[Owner[p]] /\ standing'[p] = standing[p]
      BY <1>1, <2>2, <2>4, Private
    <3> QED BY <1>1, <2>1, <3>1 DEF Judged
  <2> QED BY <2>3, <2>4
<1> QED BY <1>1, <1>2, <1>3, <1>4 DEF TInv

LEMMA LocationKeeps ==
    ASSUME TInv, NEW d \in Drivers, UpdateLocation(d)
    PROVE  /\ TInv' /\ available[d]
           /\ \A e \in Drivers \ {d} : location'[e] = location[e]
           /\ UNCHANGED <<vars, taken, onDuty, standing>>
<1>1. /\ available[d]
      /\ \E place \in Places : location' = [location EXCEPT ![d] = place]
      /\ UNCHANGED <<vars, taken, onDuty, standing>>
  BY DEF UpdateLocation
<1>2. IInv'
  BY <1>1, NextIInv DEF TInv
<1>3. TripTypes' /\ \A e \in Drivers \ {d} : location'[e] = location[e]
  BY <1>1 DEF TInv, TripTypes
<1>4. Owned' /\ \A p \in Requests : Judged(p)' /\ StillAvailable(p)'
  BY <1>1 DEF TInv, Owned, Judged, StillAvailable, vars
<1> QED BY <1>1, <1>2, <1>3, <1>4 DEF TInv

LEMMA TripInitOk == TripInit => TInv
<1> SUFFICES ASSUME TripInit PROVE TInv
  OBVIOUS
<1>1. IInv
  BY InitIInv DEF TripInit
<1>2. TripTypes
  BY DEF TripInit, TripTypes
<1>3. \A q \in Requests : req[q] = Idle
  BY DEF TripInit, Init
<1> QED BY <1>1, <1>2, <1>3
        DEF TInv, Owned, Judged, StillAvailable, Idle, GuardedOps

LEMMA TripNextOk == TInv /\ [TripNext]_tripVars => TInv'
<1> SUFFICES ASSUME TInv, [TripNext]_tripVars PROVE TInv'
  OBVIOUS
<1>1. CASE UNCHANGED tripVars
  <2>1. IInv'
    BY <1>1, NextIInv DEF tripVars, TInv
  <2> QED BY <1>1, <2>1 DEF tripVars, vars, TInv, TripTypes, Owned, Judged,
                            StillAvailable
<1> QED BY <1>1, HandlerKeeps, CloseKeeps, SubmitKeeps, AdminKeeps,
           LocationKeeps DEF TripNext

LEMMA AlwaysTInv == TripSpec => []TInv
BY TripInitOk, TripNextOk, PTL DEF TripSpec

-----------------------------------------------------------------------------
(* What a step does to the rides of one driver.                            *)

\* Somebody else's request can only cancel them.
LEMMA OthersStep ==
    ASSUME TInv, NEW q \in Requests, Handler(q), NEW d \in Drivers,
           Owner[q] # d, NEW r \in Rides
    PROVE  \/ rides'[r] = rides[r]
           \/ rides[r].driver # d /\ rides'[r].driver # d
           \/ /\ rides[r].driver = d /\ rides'[r].driver = d
              /\ ~IsTerminal(rides[r].status)
              /\ rides'[r].status = "CANCELLED"
<1>1. /\ IInv /\ rides \in [Rides -> RideRow] /\ d # None
      /\ req[q].pc \notin {"idle", "done"}
  BY HandlerMoves, NoneIsNone DEF TInv, IInv, TypeOK
<1>2. req[q].actor = Owner[q]
  BY <1>1, OwnRequest
<1>3. CASE InsertRide(q)
  <2>1. /\ rides[req[q].ride].driver = None
        /\ rides' = [rides EXCEPT ![req[q].ride] = RequestedRow(req[q].actor)]
    BY <1>3 DEF InsertRide, NoRow
  <2>2. RequestedRow(req[q].actor).driver = None
    BY DEF RequestedRow
  <2> QED BY <1>1, <2>1, <2>2
<1>4. CASE UpdateApplied(q)
  <2> DEFINE op  == req[q].op
             o   == req[q].ride
             new == Updated(op, req[q].actor, o)
  <2>1. /\ o \in Rides /\ rides' = [rides EXCEPT ![o] = new]
        /\ Follows(rides[o], new)
        /\ new.status = Target(op)
        /\ op # "cancel" => new.driver = Owner[q]
        /\ WhereMatches(op, rides[o])
    BY <1>1, <1>2, <1>4, UpdateIsEvent, UpdateOutcome DEF UpdateApplied
  <2>2. rides[o] \in RideRow
    BY <1>1, <2>1
  <2>3. CASE o # r
    BY <1>1, <2>1, <2>3
  <2>4. CASE o = r /\ op # "cancel"
    BY <1>1, <2>1, <2>4 DEF Follows
  <2>5. CASE o = r /\ op = "cancel"
    <3>1. new.driver = rides[o].driver
      BY <2>2, <2>5 DEF Updated, RideRow
    <3>2. ~IsTerminal(rides[o].status) /\ new.status = "CANCELLED"
      BY <2>1, <2>5 DEF WhereMatches, CancelableStates, transitionMatrix,
                        IsTerminal, Target
    <3> QED BY <1>1, <2>1, <2>5, <3>1, <3>2
  <2> QED BY <2>3, <2>4, <2>5
<1>5. CASE ~InsertRide(q) /\ ~UpdateApplied(q)
  BY <1>1, <1>5, HandlerCalls, GuardMoves, AvailableMoves, SelectMoves,
     RefusedMoves, FlagMoves, ToggleMoves
<1> QED BY <1>3, <1>4, <1>5

\* The driver's own.
LEMMA OwnUpdate ==
    ASSUME TInv, NEW q \in Requests, UpdateApplied(q), Owner[q] \in Drivers
    PROVE  LET o   == req[q].ride
               row == rides[o]
           IN  /\ o \in Rides
               /\ \A r \in Rides \ {o} : rides'[r] = rides[r]
               /\ rides'[o].status = Target(req[q].op)
               /\ req[q].op = "accept" =>
                     row.driver = None /\ rides'[o].driver = Owner[q]
               /\ req[q].op # "accept" =>
                     rides'[o].driver = row.driver /\ ~IsTerminal(row.status)
               /\ req[q].op \in AdvanceOps => row.driver = Owner[q]
<1> DEFINE op  == req[q].op
           o   == req[q].ride
           row == rides[o]
           new == Updated(op, req[q].actor, o)
<1>1. /\ IInv /\ rides \in [Rides -> RideRow]
      /\ req[q].pc = "update" /\ op \in RideOps
  BY AppliedMoves DEF TInv, IInv, TypeOK
<1>2. req[q].actor = Owner[q]
  BY <1>1, OwnRequest
<1>3. /\ o \in Rides /\ rides' = [rides EXCEPT ![o] = new]
      /\ new.status = Target(op)
      /\ WhereMatches(op, row)
  BY <1>1, UpdateIsEvent, UpdateOutcome DEF UpdateApplied
<1>4. UpdateOk(req[q], row) /\ row \in RideRow
  BY <1>1, <1>3, RequestFacts DEF ReqOk
<1>5. CASE op = "accept"
  BY <1>1, <1>2, <1>3, <1>5, UpdateOutcome DEF WhereMatches, AdvanceOps
<1>6. CASE op # "accept"
  <2>1. new.driver = row.driver
    BY <1>4, <1>6 DEF Updated, RideRow
  <2>2. ~IsTerminal(row.status)
    BY <1>1, <1>3, <1>6 DEF WhereMatches, RideOps, AdvanceOps, IsTerminal,
                            CancelableStates, transitionMatrix
  <2>3. op \in AdvanceOps => row.driver = Owner[q]
    BY <1>1, <1>2, <1>4 DEF UpdateOk
  <2> QED BY <1>1, <1>3, <1>6, <2>1, <2>2, <2>3
<1> QED BY <1>5, <1>6

LEMMA OwnFlag ==
    ASSUME NEW q \in Requests, NEW d, Owner[q] = d, NEW op
    PROVE  /\ AtFlag(d, op) <=> req[q].op = op /\ req[q].pc = "flag"
           /\ AtFlag(d, op)' <=> req'[q].op = op /\ req'[q].pc = "flag"
BY Private DEF AtFlag

-----------------------------------------------------------------------------
(* The invariant of a database that does not fail.                         *)

LEMMA TakenKept ==
    ASSUME FInv, NEW q \in Requests, TripHandler(q), NEW p \in Requests
    PROVE  JustTaken(p)'
<1>1. TInv /\ IInv /\ Handler(q) /\ JustTaken(p)
  BY DEF FInv, TInv, TripHandler
<1> SUFFICES ASSUME req'[p].op = "accept", req'[p].pc = "flag"
             PROVE  rides'[req'[p].ride].status \in {"ACCEPTED", "CANCELLED"}
  BY DEF JustTaken
<1>2. CASE p = q
  <2>1. UpdateApplied(q)
    BY <1>1, <1>2, HandlerCalls, GuardMoves, InsertMoves, AvailableMoves,
       SelectMoves, RefusedMoves, FlagMoves, ToggleMoves DEF Moves
  <2>2. /\ req[q].op = "accept" /\ req'[q].ride = req[q].ride
        /\ req[q].pc = "update" /\ req[q].actor \in Drivers
    BY <1>1, <1>2, <2>1, HandlerMoves, AppliedMoves, RequestFacts
       DEF Moves, CallOk, DriverOps, RideOps
  <2>3. Owner[q] \in Drivers
    BY <1>1, <2>2, OwnRequest
  <2> QED BY <1>1, <1>2, <2>1, <2>2, <2>3, OwnUpdate DEF Target
<1>3. CASE p # q
  <2>1. req'[p] = req[p]
    BY <1>1, <1>3, HandlerMoves DEF Moves
  <2>2. /\ req[p].actor = Owner[p] /\ Owner[p] \in Drivers
        /\ req[p].ride \in Rides
    BY <1>1, <2>1, OwnRequest, RequestFacts DEF CallOk, DriverOps, RideOps
  <2>3. rides[req[p].ride].driver = Owner[p]
    BY <1>1, <2>1, <2>2, RequestFacts DEF ReqOk, AnswerOk, MWon
  <2>4. Owner[p] # Owner[q]
    BY <1>3, Private
  <2> QED BY <1>1, <2>1, <2>2, <2>3, <2>4, OthersStep DEF JustTaken
<1> QED BY <1>2, <1>3

\* A call of somebody else's request.
LEMMA OthersKeep ==
    ASSUME FInv, NEW q \in Requests, TripHandler(q), NEW d \in Drivers,
           Owner[q] # d
    PROVE  OneRide(d)' /\ TakenOk(d)'
<1>1. /\ TInv /\ IInv /\ Handler(q) /\ Record /\ OneRide(d) /\ TakenOk(d)
      /\ TripTypes
  BY DEF FInv, TInv, TripHandler
<1>2. available'[d] = available[d]
  BY <1>1, HandlerMoves, OwnRequest
<1>3. \A op : AtFlag(d, op)' <=> AtFlag(d, op)
  BY <1>1, HandlerMoves DEF AtFlag, Moves
<1>4. /\ taken'[d] = taken[d]
      /\ onDuty'[d] = (UnderWay(rides', d) # {} /\ onDuty[d])
  BY <1>1, Recorded
<1>5. UnderWay(rides', d) \subseteq UnderWay(rides, d)
  BY <1>1, OthersStep DEF UnderWay, IsTerminal
<1>6. OneRide(d)'
  BY <1>1, <1>2, <1>3, <1>4, <1>5 DEF OneRide
<1>7. TakenOk(d)'
  <2> SUFFICES ASSUME taken[d] # None
               PROVE  /\ rides'[taken[d]].driver = d
                      /\ rides'[taken[d]].status = "COMPLETED" =>
                            available'[d] \/ AtFlag(d, "complete")'
    BY <1>4 DEF TakenOk
  <2>1. taken[d] \in Rides /\ rides[taken[d]].driver = d
    BY <1>1 DEF TripTypes, TakenOk
  <2>2. \/ rides'[taken[d]] = rides[taken[d]]
        \/ /\ rides'[taken[d]].driver = d
           /\ rides'[taken[d]].status = "CANCELLED"
    BY <1>1, <2>1, OthersStep
  <2> QED BY <1>1, <1>2, <1>3, <2>1, <2>2 DEF TakenOk
<1> QED BY <1>6, <1>7

\* The UPDATE of the driver's own request.
LEMMA OwnUpdateKeeps ==
    ASSUME FInv, ~Faults, NEW q \in Requests, TripHandler(q), UpdateApplied(q),
           NEW d \in Drivers, Owner[q] = d
    PROVE  OneRide(d)' /\ TakenOk(d)'
<1> DEFINE o == req[q].ride
<1>1. /\ TInv /\ IInv /\ Handler(q) /\ Record /\ OneRide(d) /\ TakenOk(d)
      /\ TripTypes /\ StillAvailable(q)
  BY DEF FInv, TInv, TripHandler
<1>2. /\ req[q].pc = "update" /\ req[q].op \in RideOps
      /\ available' = available /\ req'[q].op = req[q].op
      /\ req'[q].pc = IF req[q].op \in {"accept", "complete"} THEN "flag" ELSE "done"
  BY <1>1, AppliedMoves DEF Moves
<1>3. /\ \A op : ~AtFlag(d, op)
      /\ \A op : AtFlag(d, op)' <=> /\ req[q].op = op
                                    /\ req[q].op \in {"accept", "complete"}
  BY <1>2, OwnFlag
<1>4. /\ taken'[d] = taken[d]
      /\ onDuty'[d] = (UnderWay(rides', d) # {} /\ onDuty[d])
  BY <1>1, <1>2, Recorded
<1>5. /\ o \in Rides
      /\ \A r \in Rides \ {o} : rides'[r] = rides[r]
      /\ rides'[o].status = Target(req[q].op)
      /\ req[q].op = "accept" =>
            rides[o].driver = None /\ rides'[o].driver = d
      /\ req[q].op # "accept" =>
            rides'[o].driver = rides[o].driver /\ ~IsTerminal(rides[o].status)
      /\ req[q].op \in AdvanceOps => rides[o].driver = d
  BY <1>1, OwnUpdate
<1>6. d # None /\ taken[d] \in Rides \cup {None}
  BY <1>1, NoneIsNone DEF TripTypes
<1>7. CASE req[q].op = "accept"
  <2>1. available[d]
    BY <1>1, <1>2, <1>7 DEF StillAvailable
  <2>2. UnderWay(rides', d) = UnderWay(rides, d) \cup {o}
    BY <1>5, <1>6, <1>7 DEF UnderWay, Target, IsTerminal
  <2>3. ~AtFlag(d, "accept") /\ AtFlag(d, "accept")' /\ ~AtFlag(d, "complete")'
    BY <1>3, <1>7
  <2>4. onDuty'[d] \/ UnderWay(rides', d) = {o}
    BY <1>1, <1>4, <2>1, <2>2, <2>3 DEF OneRide
  <2>5. OneRide(d)'
    BY <2>3, <2>4 DEF OneRide
  <2>6. TakenOk(d)'
    BY <1>1, <1>2, <1>4, <1>5, <1>6, <1>7, <2>1 DEF TakenOk
  <2> QED BY <2>5, <2>6
<1>8. CASE req[q].op = "complete"
  <2>1. o \in UnderWay(rides, d) /\ UnderWay(rides', d) = UnderWay(rides, d) \ {o}
    BY <1>5, <1>8 DEF UnderWay, Target, IsTerminal, AdvanceOps
  <2>2. OneRide(d)'
    BY <1>1, <1>4, <2>1 DEF OneRide
  <2>3. TakenOk(d)'
    BY <1>1, <1>3, <1>4, <1>5, <1>6, <1>8 DEF TakenOk, AdvanceOps
  <2> QED BY <2>2, <2>3
<1>9. CASE req[q].op \notin {"accept", "complete"}
  <2>1. Target(req[q].op) \in {"EN_ROUTE", "ARRIVED", "IN_PROGRESS", "CANCELLED"}
    BY <1>2, <1>9 DEF RideOps, AdvanceOps, Target
  <2>2. UnderWay(rides', d) \subseteq UnderWay(rides, d)
    BY <1>5, <1>9 DEF UnderWay
  <2>3. OneRide(d)'
    BY <1>1, <1>2, <1>3, <1>4, <1>9, <2>2 DEF OneRide
  <2>4. TakenOk(d)'
    BY <1>1, <1>2, <1>3, <1>4, <1>5, <1>6, <1>9, <2>1 DEF TakenOk
  <2> QED BY <2>3, <2>4
<1> QED BY <1>7, <1>8, <1>9

\* Its other calls.
LEMMA OwnKeeps ==
    ASSUME FInv, NEW q \in Requests, TripHandler(q), ~UpdateApplied(q),
           NEW d \in Drivers, Owner[q] = d
    PROVE  OneRide(d)' /\ TakenOk(d)'
<1>1. /\ TInv /\ IInv /\ Handler(q) /\ Record /\ OneRide(d) /\ TakenOk(d)
      /\ TripTypes /\ JustTaken(q)
      /\ available \in [Drivers -> BOOLEAN]
  BY DEF FInv, TInv, TripHandler, IInv, TypeOK
<1>2. req[q].actor = d
  BY <1>1, HandlerMoves, OwnRequest
<1>3. CASE \/ SuspendGuard(q) \/ CheckAvailable(q) \/ SelectRide(q)
           \/ UpdateMissed(q) \/ UpdateRejected(q)
  <2>1. /\ UNCHANGED <<rides, available>>
        /\ req[q].pc \notin {"flag", "toggle"} /\ req'[q].pc # "flag"
    BY <1>1, <1>3, GuardMoves, AvailableMoves, SelectMoves, RefusedMoves DEF Moves
  <2>2. \A op : ~AtFlag(d, op) /\ ~AtFlag(d, op)'
    BY <2>1, OwnFlag
  <2>3. /\ taken'[d] = taken[d]
        /\ onDuty'[d] = (UnderWay(rides', d) # {} /\ onDuty[d])
    BY <1>1, <2>1, Recorded
  <2> QED BY <1>1, <2>1, <2>2, <2>3 DEF OneRide, TakenOk
<1>4. CASE SetFlag(q)
  <2>1. /\ req[q].pc = "flag" /\ req[q].op \in {"accept", "complete"}
        /\ rides' = rides /\ req'[q].pc = "done"
        /\ available'[d] = (req[q].op = "complete")
    BY <1>1, <1>2, <1>4, FlagMoves DEF Moves
  <2>2. /\ \A op : ~AtFlag(d, op)'
        /\ AtFlag(d, "complete") <=> req[q].op = "complete"
        /\ AtFlag(d, "accept") <=> req[q].op = "accept"
    BY <2>1, OwnFlag
  <2>3. /\ req[q].op = "accept" => taken'[d] = req[q].ride
        /\ req[q].op = "complete" => taken'[d] = taken[d]
        /\ onDuty'[d] = (UnderWay(rides', d) # {} /\ onDuty[d])
    BY <1>1, <2>1, Recorded
  <2>4. OneRide(d)'
    BY <1>1, <2>1, <2>2, <2>3 DEF OneRide
  <2>5. CASE req[q].op = "accept"
    <3>1. rides[req[q].ride].driver = d
      BY <1>1, <1>2, <2>1, <2>5, RequestFacts DEF ReqOk, AnswerOk, MWon
    <3>2. rides[req[q].ride].status # "COMPLETED"
      BY <1>1, <2>1, <2>5 DEF JustTaken
    <3> QED BY <2>1, <2>3, <2>4, <2>5, <3>1, <3>2 DEF TakenOk
  <2>6. CASE req[q].op = "complete"
    BY <1>1, <2>1, <2>3, <2>4, <2>6 DEF TakenOk
  <2> QED BY <2>1, <2>5, <2>6
<1>5. CASE Toggle(q)
  <2>1. /\ req[q].pc = "toggle" /\ rides' = rides /\ req'[q].pc = "done"
        /\ available'[d] = (req[q].op = "online")
    BY <1>1, <1>2, <1>5, ToggleMoves DEF Moves
  <2>2. \A op : ~AtFlag(d, op) /\ ~AtFlag(d, op)'
    BY <2>1, OwnFlag
  <2>3. /\ taken'[d] = None
        /\ onDuty'[d] = (/\ UnderWay(rides', d) # {}
                         /\ onDuty[d] \/ req[q].op = "online")
    BY <1>1, <2>1, Recorded
  <2> QED BY <1>1, <2>1, <2>2, <2>3 DEF OneRide, TakenOk
<1>6. ~InsertRide(q)
  BY <1>1, <1>2, InsertMoves, RidesAssumption
<1> QED BY <1>1, <1>3, <1>4, <1>5, <1>6, HandlerCalls

\* The steps that no handler takes.
LEMMA OutsideKeeps ==
    ASSUME FInv, UNCHANGED <<rides, available, taken, onDuty>>,
           \A p \in Requests : \/ req'[p] = req[p]
                               \/ req[p].pc # "flag" /\ req'[p].pc # "flag"
    PROVE  /\ \A q \in Requests : JustTaken(q)'
           /\ \A d \in Drivers : OneRide(d)' /\ TakenOk(d)'
<1>1. \A q \in Requests : JustTaken(q)'
  BY DEF FInv, JustTaken
<1>2. \A d, op : AtFlag(d, op)' <=> AtFlag(d, op)
  BY DEF AtFlag
<1>3. ASSUME NEW d \in Drivers PROVE OneRide(d)' /\ TakenOk(d)'
  BY <1>2 DEF FInv, OneRide, TakenOk
<1> QED BY <1>1, <1>3

LEMMA FNextOk ==
    ASSUME ~Faults, FInv, [TripNext]_tripVars
    PROVE  FInv'
<1>1. TInv /\ TInv'
  BY TripNextOk DEF FInv
<1>2. CASE UNCHANGED tripVars
  <2>1. UNCHANGED <<rides, available, taken, onDuty, req>>
    BY <1>2 DEF tripVars, vars
  <2> QED BY <1>1, <2>1, OutsideKeeps DEF FInv
<1>3. ASSUME NEW q \in Requests, TripHandler(q) PROVE FInv'
  BY <1>1, <1>3, TakenKept, OthersKeep, OwnUpdateKeeps, OwnKeeps DEF FInv
<1>4. ASSUME NEW q \in Requests, TripClose(q) PROVE FInv'
  <2>1. Idle.pc # "flag"
    BY DEF Idle
  <2> QED BY <1>1, <1>4, <2>1, CloseKeeps, OutsideKeeps DEF FInv
<1>5. ASSUME NEW q \in Requests, TripSubmit(q) PROVE FInv'
  <2>1. Idle.pc # "flag"
    BY DEF Idle
  <2> QED BY <1>1, <1>5, <2>1, SubmitKeeps, OutsideKeeps DEF FInv
<1>6. ASSUME NEW u \in Watched, TripAdmin(u) PROVE FInv'
  BY <1>1, <1>6, AdminKeeps, OutsideKeeps DEF FInv
<1>7. ASSUME NEW d \in Drivers, UpdateLocation(d) PROVE FInv'
  <2>1. UNCHANGED <<rides, available, taken, onDuty, req>>
    BY <1>7 DEF UpdateLocation, vars
  <2> QED BY <1>1, <2>1, OutsideKeeps DEF FInv
<1> QED BY <1>2, <1>3, <1>4, <1>5, <1>6, <1>7 DEF TripNext

LEMMA FInitOk == TripInit => FInv
<1> SUFFICES ASSUME TripInit PROVE FInv
  OBVIOUS
<1>1. TInv
  BY TripInitOk
<1>2. /\ \A q \in Requests : req[q] = Idle
      /\ \A r \in Rides : rides[r].driver = None
      /\ \A d \in Drivers : taken[d] = None /\ d # None
  BY NoneIsNone DEF TripInit, Init, NoRow
<1>3. \A q \in Requests : JustTaken(q)
  BY <1>2 DEF JustTaken, Idle
<1>4. \A d \in Drivers : OneRide(d) /\ TakenOk(d)
  BY <1>2 DEF OneRide, TakenOk, UnderWay
<1> QED BY <1>1, <1>3, <1>4 DEF FInv

LEMMA AlwaysFInv == ASSUME ~Faults PROVE TripSpec => []FInv
<1>1. FInv /\ [TripNext]_tripVars => FInv'
  BY FNextOk
<1> QED BY <1>1, FInitOk, PTL DEF TripSpec

-----------------------------------------------------------------------------
(* What the invariants give.                                               *)

(* Apps that send one request at a time, an administrator and positions    *)
(* change nothing the handlers do: every promise of Rides holds of Trips.  *)
THEOREM TripsAreRides == TripSpec => Spec
<1>1. TripInit => Init
  BY DEF TripInit
<1> QED BY <1>1, TripStepIsStep, PTL DEF TripSpec, Spec

(* suspendGuard decides: whoever was suspended during the whole request    *)
(* gets nothing by it, whoever was free is not told 403, whatever fails.   *)
THEOREM SuspensionsDecide == TripSpec => []SuspensionDecides
<1>1. TInv => SuspensionDecides
  BY DEF TInv, Judged, SuspensionDecides
<1> QED BY <1>1, AlwaysTInv, PTL

(* The driver to whom AcceptRide assigns a ride is available then, though  *)
(* the flag was read two calls earlier, whatever fails.                    *)
THEOREM AssignedToAvailable == TripSpec => AssignedAvailable
<1> DEFINE Fair == \A r \in Rides : rides[r].driver # rides'[r].driver =>
                       available[rides'[r].driver]
<1>1. ASSUME TInv, [TripNext]_tripVars PROVE Fair
  <2> SUFFICES ASSUME NEW r \in Rides, rides[r].driver # rides'[r].driver
               PROVE  available[rides'[r].driver]
    OBVIOUS
  <2>1. IInv /\ rides \in [Rides -> RideRow] /\ rides' # rides
    BY <1>1 DEF TInv, IInv, TypeOK
  <2>2. Next
    BY <1>1, <2>1, TripStepIsStep DEF vars
  <2>3. PICK q \in Requests : InsertRide(q) \/ UpdateApplied(q)
    BY <2>1, <2>2, RowWriters
  <2>4. UpdateApplied(q)
    BY <2>1, <2>3 DEF InsertRide, NoRow, RequestedRow
  <2> DEFINE new == Updated(req[q].op, req[q].actor, r)
  <2>5. /\ req[q].ride = r /\ rides'[r] = new
        /\ req[q].pc = "update" /\ rides[r] \in RideRow
    BY <2>1, <2>4 DEF UpdateApplied
  <2>6. req[q].op = "accept"
    BY <2>5 DEF Updated, RideRow
  <2>7. new.driver = req[q].actor
    BY <2>1, <2>4, <2>5, <2>6, UpdateOutcome
  <2> QED BY <1>1, <2>5, <2>6, <2>7, OwnRequest DEF TInv, StillAvailable
<1>2. TInv /\ [TripNext]_tripVars => [Fair]_tripVars
  BY <1>1
<1>3. TripSpec => [][Fair]_tripVars
  BY <1>2, AlwaysTInv, PTL DEF TripSpec
<1> QED BY <1>3 DEF AssignedAvailable

(* A driver whose app sends one request at a time, and who does not go      *)
(* online in the middle of a ride, never has two rides under way, though no *)
(* statement counts them: the flag does it, when no statement or answer is  *)
(* lost (ride.go:538, 604).                                                *)
THEOREM OneRideAtATime ==
    ASSUME ~Faults
    PROVE  TripSpec => [](\A d \in Drivers : ~onDuty[d] =>
                             \A r, s \in UnderWay(rides, d) : r = s)
<1> DEFINE One == \A d \in Drivers : ~onDuty[d] =>
                     \A r, s \in UnderWay(rides, d) : r = s
<1>1. FInv => One
  BY DEF FInv, OneRide
<1> QED BY <1>1, AlwaysFInv, PTL

(* A driver who is offered is free, or went online during the ride; one    *)
(* who accepted, has a position and is not offered is on the live map, at  *)
(* the pick-up, or was cancelled; when no statement or answer is lost.     *)
THEOREM NearbyStand == ASSUME ~Faults PROVE TripSpec => []NearbyAreFree
<1>1. FInv => NearbyAreFree
  <2> SUFFICES ASSUME FInv, NEW d \in Drivers, AtRest(d)
               PROVE  LET offered == d \in NearbyDrivers(available, location, Places)
                      IN  /\ offered => UnderWay(rides, d) = {} \/ onDuty[d]
                          /\ taken[d] # None /\ location[d] # None /\ ~offered =>
                                \/ taken[d] \in ActiveRides(rides, location)
                                \/ rides[taken[d]].status \in {"ARRIVED", "CANCELLED"}
    BY DEF NearbyAreFree
  <2>1. \A op : ~AtFlag(d, op)
    BY DEF AtRest, AtFlag
  <2>2. OneRide(d) /\ TakenOk(d) /\ TripTypes /\ IInv
    BY DEF FInv, TInv
  <2>3. d \in NearbyDrivers(available, location, Places) <=>
           available[d] /\ location[d] # None
    BY <2>2, Private DEF NearbyDrivers, TripTypes
  <2>4. ASSUME taken[d] # None, location[d] # None, ~available[d]
        PROVE  \/ taken[d] \in ActiveRides(rides, location)
               \/ rides[taken[d]].status \in {"ARRIVED", "CANCELLED"}
    <3>1. /\ taken[d] \in Rides /\ rides[taken[d]].driver = d
          /\ rides[taken[d]].status # "COMPLETED"
      BY <2>1, <2>2, <2>4 DEF TakenOk, TripTypes
    <3>2. /\ RowConsistent(rides[taken[d]])
          /\ rides[taken[d]].status \in RideStatus \cup {"NO_ROW"}
      BY <2>2, <3>1, RowFacts DEF IInv, RowsConsistent, RideRow
    <3>3. d # None
      BY NoneIsNone
    <3>4. rides[taken[d]].status \notin {"NO_ROW", "REQUESTED"}
      BY <3>1, <3>2, <3>3 DEF RowConsistent, NoRow
    <3> QED BY <2>4, <3>1, <3>2, <3>4 DEF ActiveRides, RideStatus
  <2> QED BY <2>1, <2>2, <2>3, <2>4 DEF OneRide
<1> QED BY <1>1, AlwaysFInv, PTL
=============================================================================
