---------------------------- MODULE RidesProofs ----------------------------
(***************************************************************************)
(* The handlers implement the atomic life cycle and keep their answers, for *)
(* any number of rides, accounts and requests, with or without faults.     *)
(*                                                                         *)
(* The argument: what a request may rely on (ReqOk) is a relation between  *)
(* its record and the row of its ride that survives any change another     *)
(* request can make to that row (Follows).                                 *)
(***************************************************************************)
EXTENDS Rides, TLAPS

Fare(r) == CalcFare(Distance[r], RatePerKm, MinimumFare)

\* A row's later contents.
Follows(a, b) ==
    /\ StatusRank(b.status) >= StatusRank(a.status)
    /\ a.passenger # None => b.passenger = a.passenger
    /\ a.driver # None => b.driver = a.driver
    /\ IsTerminal(a.status) => b = a

\* Which operation can be at which call, and on whose behalf.
CallOk(m) ==
    /\ m.op \in RideOps \cup {"create"} => m.ride \in Rides
    /\ m.pc # "done" => m.code = 0
    /\ m.pc = "guard" => m.op \in {"create", "accept", "online"}
    /\ m.pc = "insert" => m.op = "create"
    /\ m.pc = "available" => m.op = "accept"
    /\ m.pc \in {"select", "update"} => m.op \in RideOps
    /\ m.pc = "flag" => m.op \in {"accept", "complete"}
    /\ m.pc = "toggle" => m.op \in ToggleOps
    /\ m.code = 201 => m.op = "create"
    /\ m.code = 409 => m.op \in RideOps
    /\ m.op = "create" => m.actor \in Riders
    /\ m.op \in DriverOps \ {"cancel"} => m.actor \in Drivers
    /\ m.op = "cancel" => m.actor \in Riders \cup Drivers

\* What the checks before the UPDATE have established.
UpdateOk(m, row) ==
    m.pc = "update" =>
        /\ row.status # "NO_ROW"
        /\ CanTransitionTo(m.seen, Target(m.op))
        /\ StatusRank(row.status) >= StatusRank(m.seen)
        /\ m.op = "cancel" => m.actor \in {row.passenger, row.driver}
        /\ m.op \in AdvanceOps => m.actor = row.driver

MWon(m) == \/ m.pc = "flag"
           \/ m.pc = "done" /\ m.code = 200 /\ m.op \in RideOps

AnswerOk(m, row) ==
    /\ MWon(m) =>
         /\ StatusRank(row.status) >= StatusRank(Target(m.op))
         /\ m.op \in {"cancel", "complete"} => row.status = Target(m.op)
         /\ m.op = "cancel" => row.cancelled_by = m.actor
         /\ m.op # "cancel" => row.driver = m.actor
         /\ m.op = "complete" => row.fare = Fare(m.ride)
    /\ m.code = 201 => row.passenger = m.actor
    /\ m.pc = "done" /\ m.code = 409 =>
         /\ StatusRank(row.status) > StatusRank(m.seen)
         /\ m.op = "cancel" => IsTerminal(row.status)

ReqOk(m, row) == CallOk(m) /\ UpdateOk(m, row) /\ AnswerOk(m, row)

\* The inductive invariant.
IInv ==
    /\ TypeOK
    /\ RowsConsistent
    /\ \A q \in Requests : ReqOk(req[q], rides[req[q].ride])
    /\ OneWinner

-----------------------------------------------------------------------------
(* Facts about the constants and the rows.                                 *)

LEMMA NoneIsNone ==
    /\ None \notin Riders /\ None \notin Drivers /\ None \notin Nat
    /\ None \notin Rides
BY RideModelAssumption, RidesAssumption

\* The instance has the same status machine.
LEMMA SameMachine ==
    /\ Lifecycle!transitionMatrix = transitionMatrix
    /\ Lifecycle!CancelableStates = CancelableStates
<1>1. Lifecycle!transitionMatrix = transitionMatrix
  BY DEF Lifecycle!transitionMatrix, transitionMatrix
<1> QED BY <1>1 DEF Lifecycle!CancelableStates, CancelableStates,
                    Lifecycle!RideStatus, RideStatus

LEMMA CalcFareType ==
    ASSUME NEW m \in Nat, NEW k \in Nat, NEW min \in Nat
    PROVE  CalcFare(m, k, min) \in Nat
<1> DEFINE prod == m * k
<1>1. prod \in Nat
  OBVIOUS
<1> HIDE DEF prod
<1>2. (prod + 500) \div 1000 \in Nat
  BY <1>1
<1> QED BY <1>2 DEF CalcFare, prod

LEMMA FareType == \A r \in Rides : Fare(r) \in Nat
BY CalcFareType, RidesAssumption DEF Fare

LEMMA FollowsItself ==
    ASSUME NEW a \in RideRow
    PROVE  Follows(a, a)
BY DEF Follows, StatusRank, RideRow, RideStatus

\* A request's knowledge survives what others do to the row.
LEMMA ReqOkStable ==
    ASSUME NEW m \in RequestState, NEW a \in RideRow, NEW b \in RideRow,
           ReqOk(m, a), Follows(a, b), RowConsistent(a), RowConsistent(b)
    PROVE  ReqOk(m, b)
<1>1. /\ a.status \in RideStatus \cup {"NO_ROW"}
      /\ b.status \in RideStatus \cup {"NO_ROW"}
      /\ m.seen \in RideStatus \cup {"NO_ROW"}
      /\ m.op \in Ops \cup {"none"}
      /\ m.actor \in Riders \cup Drivers \cup {None}
  BY DEF RideRow, RequestState
<1>2. CallOk(m)
  BY DEF ReqOk
<1>3. UpdateOk(m, b)
  <2>1. SUFFICES ASSUME m.pc = "update"
                 PROVE  UpdateOk(m, b)
    BY DEF UpdateOk
  <2>2. /\ a.status # "NO_ROW"
        /\ CanTransitionTo(m.seen, Target(m.op))
        /\ StatusRank(a.status) >= StatusRank(m.seen)
        /\ m.op = "cancel" => m.actor \in {a.passenger, a.driver}
        /\ m.op \in AdvanceOps => m.actor = a.driver
    BY <2>1 DEF ReqOk, UpdateOk
  <2>3. b.status # "NO_ROW" /\ StatusRank(b.status) >= StatusRank(m.seen)
    BY <2>2, <1>1 DEF Follows, StatusRank, RideStatus
  <2>4. m.op \in RideOps => m.actor # None
    BY <1>2, NoneIsNone DEF CallOk, RideOps, DriverOps
  <2>5. m.op \in RideOps
    BY <2>1, <1>2 DEF CallOk
  <2> QED BY <2>2, <2>3, <2>4, <2>5 DEF UpdateOk, Follows
<1>4. AnswerOk(m, b)
  <2>1. m.code = 201 => b.passenger = m.actor
    BY <1>2, NoneIsNone DEF ReqOk, AnswerOk, CallOk, Follows
  <2>2. ASSUME MWon(m)
        PROVE  /\ StatusRank(b.status) >= StatusRank(Target(m.op))
               /\ m.op \in {"cancel", "complete"} => b.status = Target(m.op)
               /\ m.op = "cancel" => b.cancelled_by = m.actor
               /\ m.op # "cancel" => b.driver = m.actor
               /\ m.op = "complete" => b.fare = Fare(m.ride)
    <3>1. /\ StatusRank(a.status) >= StatusRank(Target(m.op))
          /\ m.op \in {"cancel", "complete"} => a.status = Target(m.op)
          /\ m.op = "cancel" => a.cancelled_by = m.actor
          /\ m.op # "cancel" => a.driver = m.actor
          /\ m.op = "complete" => a.fare = Fare(m.ride)
      BY <2>2 DEF ReqOk, AnswerOk
    <3>2. m.op \in RideOps
      BY <2>2, <1>2 DEF MWon, CallOk, RideOps, AdvanceOps
    <3>3. m.op \in {"cancel", "complete"} => b = a
      BY <3>1 DEF Follows, IsTerminal, Target
    <3>4. m.op # "cancel" => m.actor # None
      BY <3>2, <1>2, NoneIsNone DEF CallOk, DriverOps
    <3>5. StatusRank(b.status) >= StatusRank(Target(m.op))
      BY <3>1, <3>2, <1>1 DEF Follows, StatusRank, RideStatus, Target,
                             RideOps, AdvanceOps
    <3> QED BY <3>1, <3>3, <3>4, <3>5 DEF Follows
  <2>3. m.pc = "done" /\ m.code = 409 =>
           /\ StatusRank(b.status) > StatusRank(m.seen)
           /\ m.op = "cancel" => IsTerminal(b.status)
    BY <1>1 DEF ReqOk, AnswerOk, Follows, StatusRank, RideStatus
  <2> QED BY <2>1, <2>2, <2>3 DEF AnswerOk
<1> QED BY <1>2, <1>3, <1>4 DEF ReqOk

-----------------------------------------------------------------------------
(* The two calls that change a row.                                        *)

LEMMA RowFacts ==
    ASSUME IInv, NEW r \in Rides
    PROVE  /\ rides[r] \in RideRow /\ RowConsistent(rides[r])
           /\ rides[r].status \in RideStatus \cup {"NO_ROW"}
           /\ rides[r].passenger \in Riders \cup {None}
           /\ rides[r].driver \in Drivers \cup {None}
           /\ rides[r].fare \in Nat \cup {None}
           /\ rides[r].cancelled_by \in Riders \cup Drivers \cup {None}
BY DEF IInv, TypeOK, RowsConsistent, RideRow

LEMMA RequestFacts ==
    ASSUME IInv, NEW q \in Requests
    PROVE  /\ req[q] \in RequestState
           /\ ReqOk(req[q], rides[req[q].ride])
           /\ CallOk(req[q])
BY DEF IInv, TypeOK, ReqOk

\* A matching UPDATE is one event of the life cycle.
LEMMA UpdateIsEvent ==
    ASSUME IInv, NEW q \in Requests, UpdateApplied(q)
    PROVE  LET r   == req[q].ride
               new == Updated(req[q].op, req[q].actor, r)
           IN  /\ r \in Rides
               /\ rides' = [rides EXCEPT ![r] = new]
               /\ new \in RideRow /\ RowConsistent(new)
               /\ Follows(rides[r], new)
               /\ StatusRank(rides[r].status) < StatusRank(Target(req[q].op))
               /\ Lifecycle!Next
<1> DEFINE m   == req[q]
           r   == m.ride
           row == rides[r]
           new == Updated(m.op, m.actor, r)
<1>1. /\ m.op \in RideOps /\ r \in Rides
      /\ rides' = [rides EXCEPT ![r] = new]
      /\ WhereMatches(m.op, row)
  BY RequestFacts DEF UpdateApplied, CallOk
<1>2. UpdateOk(m, row) /\ CallOk(m) /\ m.pc = "update"
  BY RequestFacts DEF UpdateApplied, ReqOk
<1>3. /\ row \in RideRow /\ RowConsistent(row)
      /\ row.status \in RideStatus \cup {"NO_ROW"}
      /\ row.passenger \in Riders \cup {None}
      /\ row.driver \in Drivers \cup {None}
      /\ row.fare \in Nat \cup {None}
      /\ row.cancelled_by \in Riders \cup Drivers \cup {None}
  BY <1>1, RowFacts
<1> DEFINE Event == \/ Lifecycle!Accept(r) \/ Lifecycle!Advance(r)
                    \/ Lifecycle!Complete(r) \/ Lifecycle!Cancel(r)
<1> SUFFICES /\ new \in RideRow /\ RowConsistent(new)
             /\ Follows(row, new)
             /\ StatusRank(row.status) < StatusRank(Target(m.op))
             /\ Event
  BY <1>1 DEF Lifecycle!Next
<1>4. rides \in [Rides -> RideRow]
  BY DEF IInv, TypeOK
<1>5. CASE m.op = "accept"
  <2>1. row.status = "REQUESTED" /\ row.driver = None /\ m.actor \in Drivers
    BY <1>1, <1>2, <1>5 DEF WhereMatches, CallOk, DriverOps, RideOps
  <2>2. new = [[row EXCEPT !.status = "ACCEPTED"] EXCEPT !.driver = m.actor]
    BY <1>5 DEF Updated, Target
  <2>3. new \in RideRow /\ RowConsistent(new)
    BY <1>3, <2>1, <2>2, NoneIsNone DEF RideRow, RideStatus, RowConsistent
  <2>4. Follows(row, new)
    BY <1>3, <2>1, <2>2 DEF Follows, StatusRank, IsTerminal, RideRow
  <2>5. Lifecycle!Accept(r)
    BY <1>1, <1>3, <1>4, <2>1, <2>2 DEF Lifecycle!Accept, RideRow
  <2> QED BY <1>5, <2>1, <2>3, <2>4, <2>5 DEF StatusRank, Target
<1>6. CASE m.op \in {"en-route", "arrived", "start"}
  <2> DEFINE s == Target(m.op)
  <2>1. /\ s \in {"EN_ROUTE", "ARRIVED", "IN_PROGRESS"}
        /\ row.status \in {"ACCEPTED", "EN_ROUTE", "ARRIVED"}
        /\ <<row.status, s>> \in transitionMatrix
        /\ StatusRank(row.status) < StatusRank(s)
    <3>1. CASE m.op = "en-route"
      BY <1>1, <3>1 DEF WhereMatches, Target, transitionMatrix, StatusRank
    <3>2. CASE m.op = "arrived"
      BY <1>1, <3>2 DEF WhereMatches, Target, transitionMatrix, StatusRank
    <3>3. CASE m.op = "start"
      BY <1>1, <3>3 DEF WhereMatches, Target, transitionMatrix, StatusRank
    <3> QED BY <1>6, <3>1, <3>2, <3>3
  <2>2. new = [row EXCEPT !.status = s]
    BY <1>6 DEF Updated
  <2>3. row.driver # None
    BY <1>3, <2>1 DEF RowConsistent, RideStatus
  <2>4. new \in RideRow /\ RowConsistent(new)
    BY <1>3, <2>1, <2>2, <2>3, NoneIsNone DEF RideRow, RideStatus, RowConsistent
  <2>5. Follows(row, new)
    BY <1>3, <2>1, <2>2 DEF Follows, IsTerminal, RideRow, StatusRank
  <2> HIDE DEF s
  <2>6. Lifecycle!Advance(r)
    BY <1>1, <1>3, <1>4, <2>1, <2>2, <2>3, SameMachine DEF Lifecycle!Advance, RideRow
  <2> QED BY <2>1, <2>4, <2>5, <2>6 DEF s
<1>7. CASE m.op = "complete"
  <2> DEFINE f == Fare(r)
  <2>1. row.status = "IN_PROGRESS" /\ f \in Nat
    BY <1>1, <1>7, FareType DEF WhereMatches
  <2>2. new = [[row EXCEPT !.status = "COMPLETED"] EXCEPT !.fare = f]
    BY <1>7 DEF Updated, Target, Fare
  <2>3. row.driver # None
    BY <1>3, <2>1 DEF RowConsistent, RideStatus
  <2>4. f \in {CalcFare(Distance[x], RatePerKm, MinimumFare) : x \in Rides}
    BY <1>1 DEF Fare
  <2> HIDE DEF f
  <2>5. new \in RideRow /\ RowConsistent(new)
    <3>1. /\ new \in RideRow
          /\ new.status = "COMPLETED" /\ new.fare = f
          /\ new.passenger = row.passenger /\ new.driver = row.driver
          /\ new.cancelled_by = row.cancelled_by
      BY <1>3, <2>1, <2>2 DEF RideRow, RideStatus
    <3>2. row.passenger # None /\ row.cancelled_by = None
      BY <1>3, <2>1 DEF RowConsistent
    <3> HIDE DEF new
    <3> QED BY <2>1, <2>3, <3>1, <3>2, NoneIsNone DEF RideStatus, RowConsistent
  <2>6. Follows(row, new)
    BY <1>3, <2>1, <2>2 DEF Follows, StatusRank, IsTerminal, RideRow
  <2>7. rides' = [rides EXCEPT ![r].status = "COMPLETED", ![r].fare = f]
    BY <1>1, <1>3, <1>4, <2>2 DEF RideRow
  <2>8. Lifecycle!Complete(r)
    BY <2>1, <2>3, <2>4, <2>7 DEF Lifecycle!Complete
  <2> QED BY <1>7, <2>1, <2>5, <2>6, <2>8 DEF StatusRank, Target
<1>8. CASE m.op = "cancel"
  <2>1. /\ row.status \in CancelableStates
        /\ row.status \in RideStatus \ {"COMPLETED", "CANCELLED"}
    BY <1>1, <1>8 DEF WhereMatches, CancelableStates, transitionMatrix, RideStatus
  <2>2. /\ m.actor \in {row.passenger, row.driver}
        /\ m.actor \in Riders \cup Drivers /\ m.actor # None
    BY <1>2, <1>8, NoneIsNone DEF UpdateOk, CallOk
  <2>3. new = [[row EXCEPT !.status = "CANCELLED"] EXCEPT !.cancelled_by = m.actor]
    BY <1>8 DEF Updated, Target
  <2>4. new \in RideRow /\ RowConsistent(new)
    BY <1>3, <2>1, <2>2, <2>3, NoneIsNone DEF RideRow, RideStatus, RowConsistent
  <2>5. Follows(row, new)
    BY <1>3, <2>1, <2>3 DEF Follows, StatusRank, IsTerminal, RideRow, RideStatus
  <2>6. Lifecycle!Cancel(r)
    BY <1>1, <1>3, <1>4, <2>1, <2>2, <2>3, SameMachine
       DEF Lifecycle!Cancel, RideRow
  <2> QED BY <1>8, <2>1, <2>4, <2>5, <2>6 DEF StatusRank, Target, RideStatus
<1> QED BY <1>1, <1>5, <1>6, <1>7, <1>8 DEF RideOps, AdvanceOps

LEMMA InsertIsEvent ==
    ASSUME IInv, NEW q \in Requests, InsertRide(q)
    PROVE  LET r   == req[q].ride
               new == RequestedRow(req[q].actor)
           IN  /\ r \in Rides /\ req[q].op = "create"
               /\ rides' = [rides EXCEPT ![r] = new]
               /\ new \in RideRow /\ RowConsistent(new)
               /\ Follows(rides[r], new)
               /\ Lifecycle!Next
<1> DEFINE r == req[q].ride
           new == RequestedRow(req[q].actor)
<1>1. /\ req[q].op = "create" /\ r \in Rides /\ req[q].actor \in Riders
      /\ rides[r] = NoRow
      /\ rides' = [rides EXCEPT ![r] = new]
  BY RequestFacts DEF InsertRide, CallOk
<1>2. new \in RideRow /\ RowConsistent(new)
  BY <1>1, NoneIsNone DEF RequestedRow, RideRow, RideStatus, RowConsistent
<1>3. Follows(rides[r], new)
  BY <1>1 DEF RequestedRow, NoRow, Follows, StatusRank, IsTerminal
<1>4. Lifecycle!Request(r)
  BY <1>1 DEF Lifecycle!Request, Lifecycle!NoRow, NoRow,
              Lifecycle!RequestedRow, RequestedRow
<1> QED BY <1>1, <1>2, <1>3, <1>4 DEF Lifecycle!Next

-----------------------------------------------------------------------------
(* The invariant, when one request moves on.                               *)

\* A request that addresses no ride relies on no row.
LEMMA NoRideNoClaim ==
    ASSUME NEW m \in RequestState, CallOk(m), m.ride \notin Rides, NEW row
    PROVE  ReqOk(m, row)
BY DEF CallOk, ReqOk, UpdateOk, AnswerOk, MWon, RideOps, AdvanceOps

\* Request q becomes m while the rows move forward.
LEMMA Assemble ==
    ASSUME IInv, NEW q \in Requests, NEW m \in RequestState,
           req' = [req EXCEPT ![q] = m],
           rides' \in [Rides -> RideRow], RowsConsistent',
           \A r \in Rides : Follows(rides[r], rides'[r]),
           available' \in [Drivers -> BOOLEAN],
           suspended' \in [Riders \cup Drivers -> BOOLEAN],
           ReqOk(m, rides'[m.ride]),
           MWon(m) => \A p \in Requests \ {q} :
              MWon(req[p]) /\ req[p].ride = m.ride => req[p].op # m.op
    PROVE  IInv'
<1>1. /\ req \in [Requests -> RequestState]
      /\ req' \in [Requests -> RequestState]
      /\ req'[q] = m
      /\ \A p \in Requests : p # q => req'[p] = req[p]
  BY DEF IInv, TypeOK
<1>2. TypeOK'
  BY <1>1 DEF TypeOK
<1>3. ASSUME NEW p \in Requests
      PROVE  ReqOk(req'[p], rides'[req'[p].ride])
  <2>1. CASE p = q
    BY <1>1, <2>1
  <2>2. CASE p # q /\ req[p].ride \in Rides
    <3>1. ReqOk(req[p], rides[req[p].ride]) /\ req[p] \in RequestState
      BY <1>1 DEF IInv
    <3>2. /\ rides[req[p].ride] \in RideRow
          /\ RowConsistent(rides[req[p].ride])
      BY <2>2, RowFacts
    <3>3. /\ rides'[req[p].ride] \in RideRow
          /\ RowConsistent(rides'[req[p].ride])
          /\ Follows(rides[req[p].ride], rides'[req[p].ride])
      BY <2>2 DEF RowsConsistent
    <3>4. ReqOk(req[p], rides'[req[p].ride])
      BY <3>1, <3>2, <3>3, ReqOkStable
    <3> QED BY <1>1, <2>2, <3>4
  <2>3. CASE p # q /\ req[p].ride \notin Rides
    <3>1. CallOk(req[p]) /\ req[p] \in RequestState
      BY <1>1 DEF IInv, ReqOk
    <3>2. ReqOk(req[p], rides'[req[p].ride])
      BY <2>3, <3>1, NoRideNoClaim
    <3> QED BY <1>1, <2>3, <3>2
  <2> QED BY <2>1, <2>2, <2>3
<1>4. OneWinner'
  <2>1. SUFFICES ASSUME NEW a \in Requests, NEW b \in Requests, a # b,
                        MWon(req'[a]), MWon(req'[b]),
                        req'[a].ride = req'[b].ride
                 PROVE  /\ req'[a].op # req'[b].op
                        /\ ~(req'[a].op = "complete" /\ req'[b].op = "cancel")
    BY DEF OneWinner, Won, MWon
  <2>2. req'[a].op # req'[b].op
    <3>1. CASE a # q /\ b # q
      BY <1>1, <2>1, <3>1 DEF IInv, OneWinner, Won, MWon
    <3>2. CASE a = q
      BY <1>1, <2>1, <3>2
    <3>3. CASE b = q
      BY <1>1, <2>1, <3>3
    <3> QED BY <3>1, <3>2, <3>3
  <2>3. ~(req'[a].op = "complete" /\ req'[b].op = "cancel")
    <3> SUFFICES ASSUME req'[a].op = "complete", req'[b].op = "cancel"
                 PROVE  FALSE
      OBVIOUS
    <3>1. rides'[req'[a].ride].status = "COMPLETED"
      BY <1>3, <2>1 DEF ReqOk, AnswerOk, Target
    <3>2. rides'[req'[b].ride].status = "CANCELLED"
      BY <1>3, <2>1 DEF ReqOk, AnswerOk, Target
    <3> QED BY <2>1, <3>1, <3>2
  <2> QED BY <2>2, <2>3
<1> QED BY <1>2, <1>3, <1>4 DEF IInv

\* The same when the rows do not move.
LEMMA QuietStep ==
    ASSUME IInv, NEW q \in Requests, NEW m \in RequestState,
           req' = [req EXCEPT ![q] = m],
           rides' = rides,
           available' \in [Drivers -> BOOLEAN],
           suspended' \in [Riders \cup Drivers -> BOOLEAN],
           ReqOk(m, rides[m.ride]),
           MWon(m) => /\ MWon(req[q])
                      /\ m.op = req[q].op /\ m.ride = req[q].ride
    PROVE  IInv'
<1>1. rides' \in [Rides -> RideRow] /\ RowsConsistent'
  BY DEF IInv, TypeOK, RowsConsistent
<1>2. \A r \in Rides : Follows(rides[r], rides'[r])
  BY RowFacts, FollowsItself
<1>3. MWon(m) => \A p \in Requests \ {q} :
         MWon(req[p]) /\ req[p].ride = m.ride => req[p].op # m.op
  BY DEF IInv, OneWinner, Won, MWon
<1> QED BY <1>1, <1>2, <1>3, Assemble

\* The record a reply leaves.
Replied(x, code) == [x EXCEPT !.pc = "done", !.code = code]

LEMMA RepliedType ==
    ASSUME NEW x \in RequestState,
           NEW code \in {0, 200, 201, 400, 403, 404, 409, 500}
    PROVE  /\ Replied(x, code) \in RequestState
           /\ Replied(x, code).pc = "done" /\ Replied(x, code).code = code
           /\ Replied(x, code).op = x.op /\ Replied(x, code).actor = x.actor
           /\ Replied(x, code).ride = x.ride /\ Replied(x, code).seen = x.seen
<1> DEFINE y == [x EXCEPT !.pc = "done"]
<1>1. /\ y \in RequestState /\ y.pc = "done"
      /\ y.op = x.op /\ y.actor = x.actor /\ y.ride = x.ride /\ y.seen = x.seen
  BY DEF RequestState
<1>2. Replied(x, code) = [y EXCEPT !.code = code]
  BY DEF Replied
<1> HIDE DEF y
<1> DEFINE z == [y EXCEPT !.code = code]
<1>3. /\ z \in RequestState /\ z.pc = y.pc /\ z.code = code
      /\ z.op = y.op /\ z.actor = y.actor /\ z.ride = y.ride /\ z.seen = y.seen
  BY <1>1 DEF RequestState
<1> HIDE DEF z
<1>4. Replied(x, code) = z
  BY <1>2 DEF z
<1> QED BY <1>1, <1>3, <1>4

\* A refusal or a failure claims nothing about the row.
LEMMA RefusalStep ==
    ASSUME IInv, NEW q \in Requests, NEW code \in {400, 403, 404, 500},
           req[q].pc # "idle", Reply(q, code),
           UNCHANGED <<rides, available, suspended>>
    PROVE  IInv'
<1> DEFINE m == Replied(req[q], code)
<1>1. req[q] \in RequestState /\ CallOk(req[q])
  BY RequestFacts
<1>2. /\ m \in RequestState /\ m.pc = "done" /\ m.code = code
      /\ m.op = req[q].op /\ m.actor = req[q].actor /\ m.ride = req[q].ride
  BY <1>1, RepliedType
<1>3. req' = [req EXCEPT ![q] = m]
  BY DEF Reply, Replied
<1> HIDE DEF m
<1>4. ReqOk(m, rides[m.ride]) /\ ~MWon(m)
  BY <1>1, <1>2 DEF ReqOk, CallOk, UpdateOk, AnswerOk, MWon
<1> QED BY <1>2, <1>3, <1>4, QuietStep DEF IInv, TypeOK

\* Moving on to a call that relies on no row.
LEMMA GotoStep ==
    ASSUME IInv, NEW q \in Requests,
           NEW pc \in {"available", "select", "insert", "toggle"},
           req[q].pc \in {"guard", "available"}, Goto(q, pc),
           pc = "insert" => req[q].op = "create",
           pc = "available" => req[q].op = "accept",
           pc = "select" => req[q].op \in RideOps,
           pc = "toggle" => req[q].op \in ToggleOps,
           UNCHANGED <<rides, available, suspended>>
    PROVE  IInv'
<1> DEFINE m == [req[q] EXCEPT !.pc = pc]
<1>1. req[q] \in RequestState /\ CallOk(req[q])
  BY RequestFacts
<1>2. /\ m \in RequestState /\ m.pc = pc /\ m.code = req[q].code
      /\ m.op = req[q].op /\ m.actor = req[q].actor /\ m.ride = req[q].ride
  BY <1>1 DEF RequestState
<1>3. req' = [req EXCEPT ![q] = m]
  BY <1>1 DEF Goto, IInv, TypeOK, RequestState
<1> HIDE DEF m
<1>4. ReqOk(m, rides[m.ride]) /\ ~MWon(m)
  BY <1>1, <1>2 DEF ReqOk, CallOk, UpdateOk, AnswerOk, MWon
<1> QED BY <1>2, <1>3, <1>4, QuietStep DEF IInv, TypeOK

-----------------------------------------------------------------------------
(* One lemma per action.                                                   *)

LEMMA SubmitStep == ASSUME IInv, NEW q \in Requests, Submit(q) PROVE IInv'
<1>1. PICK op \in Ops, u \in Riders \cup Drivers, r \in Rides \cup {None} :
         /\ IF u \in Riders THEN op \in RiderOps ELSE op \in DriverOps
         /\ Addressed(op, r)
         /\ req' = [req EXCEPT ![q] =
                [op |-> op, actor |-> u, ride |-> r, pc |-> FirstCall(op),
                 seen |-> "NO_ROW", code |-> 0]]
  BY DEF Submit
<1> DEFINE m == [op |-> op, actor |-> u, ride |-> r, pc |-> FirstCall(op),
                 seen |-> "NO_ROW", code |-> 0]
<1>2. /\ FirstCall(op) \in {"guard", "toggle", "select"}
      /\ FirstCall(op) = "guard" <=> op \in {"create", "accept", "online"}
      /\ FirstCall(op) = "toggle" <=> op = "offline"
  BY DEF FirstCall
<1>3. m \in RequestState
  BY <1>2 DEF RequestState
<1>4. CallOk(m)
  BY <1>1, <1>2, NoneIsNone, RidesAssumption
     DEF CallOk, Addressed, Ops, RiderOps, DriverOps, RideOps, AdvanceOps, ToggleOps
<1>5. ReqOk(m, rides[m.ride]) /\ ~MWon(m)
  BY <1>2, <1>4 DEF ReqOk, UpdateOk, AnswerOk, MWon
<1> QED BY <1>1, <1>3, <1>5, QuietStep DEF Submit, IInv, TypeOK

\* A slot that is given up.
LEMMA IdleStep ==
    ASSUME IInv, NEW q \in Requests, req' = [req EXCEPT ![q] = Idle],
           UNCHANGED <<rides, available, suspended>>
    PROVE  IInv'
<1>1. Idle \in RequestState /\ ReqOk(Idle, rides[Idle.ride]) /\ ~MWon(Idle)
  BY DEF Idle, RequestState, ReqOk, CallOk, UpdateOk, AnswerOk, MWon, Ops,
         RiderOps, DriverOps, RideOps, AdvanceOps, ToggleOps
<1> QED BY <1>1, QuietStep DEF IInv, TypeOK

LEMMA GuardStep == ASSUME IInv, NEW q \in Requests, SuspendGuard(q) PROVE IInv'
<1> DEFINE op == req[q].op
<1>1. req[q].pc = "guard" /\ op \in {"create", "accept", "online"}
  BY RequestFacts DEF SuspendGuard, CallOk
<1>2. CASE suspended[req[q].actor]
  BY <1>1, <1>2, RefusalStep DEF SuspendGuard
<1>3. CASE ~suspended[req[q].actor] /\ op = "create"
  BY <1>1, <1>3, GotoStep DEF SuspendGuard
<1>4. CASE ~suspended[req[q].actor] /\ op = "accept"
  BY <1>1, <1>4, GotoStep DEF SuspendGuard
<1>5. CASE ~suspended[req[q].actor] /\ op = "online"
  <2>1. Goto(q, "toggle")
    BY <1>5 DEF SuspendGuard
  <2> QED BY <1>1, <1>5, <2>1, GotoStep DEF SuspendGuard, ToggleOps
<1> QED BY <1>1, <1>2, <1>3, <1>4, <1>5

LEMMA AvailableStep ==
    ASSUME IInv, NEW q \in Requests, CheckAvailable(q) PROVE IInv'
<1>1. req[q].pc = "available" /\ req[q].op = "accept"
  BY RequestFacts DEF CheckAvailable, CallOk
<1>2. CASE available[req[q].actor]
  BY <1>1, <1>2, GotoStep DEF CheckAvailable, RideOps
<1>3. CASE ~available[req[q].actor]
  BY <1>1, <1>3, RefusalStep DEF CheckAvailable
<1> QED BY <1>2, <1>3

\* The SELECT establishes what the UPDATE relies on.
LEMMA SelectStep == ASSUME IInv, NEW q \in Requests, SelectRide(q) PROVE IInv'
<1> DEFINE x   == req[q]
           row == rides[x.ride]
           m   == [x EXCEPT !.pc = "update", !.seen = row.status]
<1>1. /\ x \in RequestState /\ CallOk(x) /\ x.pc = "select"
      /\ x.op \in RideOps /\ x.ride \in Rides
  BY RequestFacts DEF SelectRide, CallOk
<1>2. /\ row \in RideRow /\ RowConsistent(row)
      /\ row.status \in RideStatus \cup {"NO_ROW"}
  BY <1>1, RowFacts
<1>3. CASE Reply(q, 400) \/ Reply(q, 403) \/ Reply(q, 404)
  BY <1>1, <1>3, RefusalStep DEF SelectRide
<1>4. CASE /\ HasAccess(x.op, x.actor, row)
           /\ CanTransitionTo(row.status, Target(x.op))
           /\ req' = [req EXCEPT ![q] = m]
  <2>1. /\ m \in RequestState /\ m.pc = "update" /\ m.seen = row.status
        /\ m.op = x.op /\ m.actor = x.actor /\ m.ride = x.ride
        /\ m.code = x.code
    <3> DEFINE y == [x EXCEPT !.pc = "update"]
    <3>1. /\ y \in RequestState /\ y.pc = "update" /\ y.op = x.op
          /\ y.actor = x.actor /\ y.ride = x.ride /\ y.code = x.code
      BY <1>1 DEF RequestState
    <3>2. m = [y EXCEPT !.seen = row.status]
      OBVIOUS
    <3> DEFINE st == row.status
               z  == [y EXCEPT !.seen = st]
    <3>3. m = z
      BY <3>2
    <3> HIDE DEF y, st
    <3>4. /\ z \in RequestState /\ z.pc = y.pc /\ z.seen = st
          /\ z.op = y.op /\ z.actor = y.actor /\ z.ride = y.ride
          /\ z.code = y.code
      BY <1>2, <3>1 DEF RequestState, st
    <3> HIDE DEF m, z
    <3> QED BY <3>1, <3>3, <3>4 DEF st
  <2> HIDE DEF m
  <2>2. row.status # "NO_ROW" /\ StatusRank(row.status) >= StatusRank(row.status)
    BY <1>2, <1>4 DEF HasAccess, RowConsistent, StatusRank, RideStatus
  <2>3. /\ m.op = "cancel" => m.actor \in {row.passenger, row.driver}
        /\ m.op \in AdvanceOps => m.actor = row.driver
    BY <1>4, <2>1 DEF HasAccess, AdvanceOps
  <2>4. UpdateOk(m, row)
    BY <1>4, <2>1, <2>2, <2>3 DEF UpdateOk
  <2>5. CallOk(m)
    BY <1>1, <2>1 DEF CallOk
  <2>6. AnswerOk(m, row) /\ ~MWon(m)
    BY <1>1, <2>1 DEF AnswerOk, MWon, CallOk
  <2> QED BY <1>4, <2>1, <2>4, <2>5, <2>6, QuietStep
          DEF SelectRide, IInv, TypeOK, ReqOk
<1> QED BY <1>3, <1>4 DEF SelectRide

\* A row count of zero means that the ride has moved on.
LEMMA MissedStep == ASSUME IInv, NEW q \in Requests, UpdateMissed(q) PROVE IInv'
<1> DEFINE x   == req[q]
           row == rides[x.ride]
           m   == Replied(x, 409)
<1>1. /\ x \in RequestState /\ CallOk(x) /\ x.pc = "update"
      /\ x.op \in RideOps /\ x.ride \in Rides
      /\ UpdateOk(x, row)
      /\ x.seen \in RideStatus \cup {"NO_ROW"}
  BY RequestFacts DEF UpdateMissed, CallOk, ReqOk, RequestState
<1>2. /\ RowConsistent(row)
      /\ row.status \in RideStatus
  BY <1>1, RowFacts DEF UpdateOk
<1>3. /\ ~WhereMatches(x.op, row)
      /\ CanTransitionTo(x.seen, Target(x.op))
      /\ StatusRank(row.status) >= StatusRank(x.seen)
  BY <1>1 DEF UpdateMissed, UpdateOk
<1>4. /\ StatusRank(row.status) > StatusRank(x.seen)
      /\ x.op = "cancel" => IsTerminal(row.status)
  <2>1. CASE x.op = "cancel"
    <3>1. row.status \notin CancelableStates
      BY <1>3, <2>1 DEF WhereMatches
    <3>2. IsTerminal(row.status)
      BY <1>2, <3>1 DEF CancelableStates, transitionMatrix, RideStatus, IsTerminal
    <3>3. x.seen \in RideStatus /\ ~IsTerminal(x.seen)
      BY <1>1, <1>3, <2>1 DEF CanTransitionTo, Target, transitionMatrix, RideStatus
    <3> QED BY <3>2, <3>3 DEF StatusRank, IsTerminal, RideStatus
  <2>2. CASE x.op = "accept"
    <3>1. x.seen = "REQUESTED"
      BY <1>3, <2>2 DEF CanTransitionTo, Target, transitionMatrix
    <3>2. row.status # "REQUESTED"
      BY <1>2, <1>3, <2>2 DEF WhereMatches, RowConsistent
    <3> QED BY <1>2, <1>3, <2>2, <3>1, <3>2 DEF StatusRank, RideStatus
  <2>3. CASE x.op = "en-route"
    <3>1. x.seen = "ACCEPTED" /\ row.status # "ACCEPTED"
      BY <1>3, <2>3 DEF CanTransitionTo, Target, transitionMatrix, WhereMatches
    <3> QED BY <1>2, <1>3, <2>3, <3>1 DEF StatusRank, RideStatus
  <2>4. CASE x.op = "arrived"
    <3>1. x.seen = "EN_ROUTE" /\ row.status # "EN_ROUTE"
      BY <1>3, <2>4 DEF CanTransitionTo, Target, transitionMatrix, WhereMatches
    <3> QED BY <1>2, <1>3, <2>4, <3>1 DEF StatusRank, RideStatus
  <2>5. CASE x.op = "start"
    <3>1. x.seen = "ARRIVED" /\ row.status # "ARRIVED"
      BY <1>3, <2>5 DEF CanTransitionTo, Target, transitionMatrix, WhereMatches
    <3> QED BY <1>2, <1>3, <2>5, <3>1 DEF StatusRank, RideStatus
  <2>6. CASE x.op = "complete"
    <3>1. x.seen = "IN_PROGRESS" /\ row.status # "IN_PROGRESS"
      BY <1>3, <2>6 DEF CanTransitionTo, Target, transitionMatrix, WhereMatches
    <3> QED BY <1>2, <1>3, <2>6, <3>1 DEF StatusRank, RideStatus
  <2> QED BY <1>1, <2>1, <2>2, <2>3, <2>4, <2>5, <2>6 DEF RideOps, AdvanceOps
<1>5. /\ m \in RequestState /\ m.pc = "done" /\ m.code = 409
      /\ m.op = x.op /\ m.actor = x.actor /\ m.ride = x.ride /\ m.seen = x.seen
  BY <1>1, RepliedType
<1>6. req' = [req EXCEPT ![q] = m]
  BY DEF UpdateMissed, Reply, Replied
<1> HIDE DEF m
<1>7. ReqOk(m, rides[m.ride]) /\ ~MWon(m)
  BY <1>1, <1>4, <1>5 DEF ReqOk, CallOk, UpdateOk, AnswerOk, MWon
<1> QED BY <1>5, <1>6, <1>7, QuietStep DEF UpdateMissed, IInv, TypeOK

\* What a matching UPDATE leaves in the row.
LEMMA UpdateOutcome ==
    ASSUME IInv, NEW q \in Requests, UpdateApplied(q)
    PROVE  LET x   == req[q]
               new == Updated(x.op, x.actor, x.ride)
           IN  /\ StatusRank(new.status) >= StatusRank(Target(x.op))
               /\ new.status = Target(x.op)
               /\ x.op = "cancel" => new.cancelled_by = x.actor
               /\ x.op # "cancel" => new.driver = x.actor
               /\ x.op = "complete" => new.fare = Fare(x.ride)
<1> DEFINE x   == req[q]
           r   == x.ride
           new == Updated(x.op, x.actor, r)
<1> DEFINE row == [rides[r] EXCEPT !.status = Target(x.op)]
<1>1. /\ x.op \in RideOps
      /\ UpdateOk(x, rides[r]) /\ x.pc = "update"
  BY RequestFacts DEF UpdateApplied, CallOk, ReqOk
<1>2. r \in Rides /\ rides[r] \in RideRow /\ Target(x.op) \in RideStatus
  BY <1>1, UpdateIsEvent, RowFacts DEF Target, RideStatus, RideOps, AdvanceOps
<1>3. /\ row.status = Target(x.op) /\ row.driver = rides[r].driver
      /\ row \in RideRow
  BY <1>2 DEF RideRow
<1>4. /\ x.op = "accept" => new = [row EXCEPT !.driver = x.actor]
      /\ x.op = "complete" => new = [row EXCEPT !.fare = Fare(r)]
      /\ x.op = "cancel" => new = [row EXCEPT !.cancelled_by = x.actor]
      /\ x.op \in {"en-route", "arrived", "start"} => new = row
  BY DEF Updated, Fare
<1>5. x.op \in AdvanceOps => x.actor = rides[r].driver
  BY <1>1 DEF UpdateOk
<1> DEFINE Goal ==
       /\ new.status = Target(x.op)
       /\ x.op = "cancel" => new.cancelled_by = x.actor
       /\ x.op # "cancel" => new.driver = x.actor
       /\ x.op = "complete" => new.fare = Fare(r)
<1> SUFFICES Goal
  <2>1. StatusRank(Target(x.op)) >= StatusRank(Target(x.op))
    BY <1>2 DEF StatusRank, RideStatus
  <2> QED BY <2>1
<1> HIDE DEF row, new
<1>6. CASE x.op = "accept"
  BY <1>3, <1>4, <1>6 DEF RideRow
<1>7. CASE x.op = "complete"
  <2> DEFINE f == Fare(r)
  <2>1. x.actor = rides[r].driver /\ new = [row EXCEPT !.fare = f]
    BY <1>4, <1>5, <1>7 DEF AdvanceOps
  <2> HIDE DEF f
  <2>2. new.status = Target(x.op) /\ new.driver = x.actor /\ new.fare = f
    BY <1>3, <1>7, <2>1 DEF RideRow
  <2> QED BY <1>7, <2>2 DEF f
<1>8. CASE x.op = "cancel"
  BY <1>3, <1>4, <1>8 DEF RideRow
<1>9. CASE x.op \in {"en-route", "arrived", "start"}
  BY <1>3, <1>4, <1>5, <1>9 DEF AdvanceOps
<1> QED BY <1>1, <1>6, <1>7, <1>8, <1>9 DEF RideOps, AdvanceOps

\* A matching UPDATE: the winner has the row, the others' rows only moved on.
LEMMA AppliedStep ==
    ASSUME IInv, NEW q \in Requests, UpdateApplied(q) PROVE IInv'
<1> DEFINE x   == req[q]
           r   == x.ride
           new == Updated(x.op, x.actor, r)
<1>1. /\ x \in RequestState /\ CallOk(x) /\ x.pc = "update"
      /\ x.op \in RideOps /\ x.code = 0
      /\ UpdateOk(x, rides[r])
  BY RequestFacts DEF UpdateApplied, CallOk, ReqOk
<1>2. /\ r \in Rides
      /\ rides' = [rides EXCEPT ![r] = new]
      /\ new \in RideRow /\ RowConsistent(new)
      /\ Follows(rides[r], new)
      /\ StatusRank(rides[r].status) < StatusRank(Target(x.op))
  BY UpdateIsEvent
<1>3. /\ rides' \in [Rides -> RideRow] /\ RowsConsistent'
      /\ rides'[r] = new
      /\ \A y \in Rides : Follows(rides[y], rides'[y])
  BY <1>2, RowFacts, FollowsItself DEF IInv, TypeOK, RowsConsistent
<1>4. /\ StatusRank(new.status) >= StatusRank(Target(x.op))
      /\ new.status = Target(x.op)
      /\ x.op = "cancel" => new.cancelled_by = x.actor
      /\ x.op # "cancel" => new.driver = x.actor
      /\ x.op = "complete" => new.fare = Fare(r)
  BY UpdateOutcome
<1>5. \A p \in Requests \ {q} :
         MWon(req[p]) /\ req[p].ride = r => req[p].op # x.op
  <2> SUFFICES ASSUME NEW p \in Requests, MWon(req[p]), req[p].ride = r,
                      req[p].op = x.op
               PROVE  FALSE
    OBVIOUS
  <2>1. StatusRank(rides[r].status) >= StatusRank(Target(x.op))
    BY RequestFacts DEF ReqOk, AnswerOk
  <2>2. /\ StatusRank(rides[r].status) \in Nat
        /\ StatusRank(Target(x.op)) \in Nat
    BY <1>1, <1>2, RowFacts
       DEF StatusRank, Target, RideStatus, RideOps, AdvanceOps
  <2> QED BY <1>2, <2>1, <2>2
<1> HIDE DEF new
<1>6. CASE Goto(q, "flag") /\ x.op \in {"accept", "complete"}
  <2> DEFINE m == [x EXCEPT !.pc = "flag"]
  <2>1. /\ m \in RequestState /\ m.pc = "flag" /\ m.code = x.code
        /\ m.op = x.op /\ m.actor = x.actor /\ m.ride = x.ride
    BY <1>1 DEF RequestState
  <2>2. req' = [req EXCEPT ![q] = m]
    BY <1>6 DEF Goto
  <2> HIDE DEF m
  <2>3. ReqOk(m, rides'[m.ride])
    BY <1>1, <1>3, <1>4, <1>6, <2>1 DEF ReqOk, CallOk, UpdateOk, AnswerOk, MWon
  <2> QED BY <1>3, <1>5, <2>1, <2>2, <2>3, Assemble DEF UpdateApplied, IInv, TypeOK
<1>7. ASSUME NEW code \in {200, 500}, Reply(q, code) PROVE IInv'
  <2> DEFINE m == Replied(x, code)
  <2>1. /\ m \in RequestState /\ m.pc = "done" /\ m.code = code
        /\ m.op = x.op /\ m.actor = x.actor /\ m.ride = x.ride
    BY <1>1, RepliedType
  <2>2. req' = [req EXCEPT ![q] = m]
    BY <1>7 DEF Reply, Replied
  <2> HIDE DEF m
  <2>3. ReqOk(m, rides'[m.ride])
    BY <1>1, <1>3, <1>4, <2>1 DEF ReqOk, CallOk, UpdateOk, AnswerOk, MWon
  <2>4. MWon(m) => \A p \in Requests \ {q} :
           MWon(req[p]) /\ req[p].ride = m.ride => req[p].op # m.op
    BY <1>5, <2>1
  <2>5. /\ available' \in [Drivers -> BOOLEAN]
        /\ suspended' \in [Riders \cup Drivers -> BOOLEAN]
    BY DEF UpdateApplied, IInv, TypeOK
  <2> QED BY <1>3, <2>1, <2>2, <2>3, <2>4, <2>5, Assemble
<1> QED BY <1>6, <1>7 DEF UpdateApplied

LEMMA InsertStep == ASSUME IInv, NEW q \in Requests, InsertRide(q) PROVE IInv'
<1> DEFINE x   == req[q]
           new == RequestedRow(x.actor)
<1>1. x \in RequestState /\ CallOk(x)
  BY RequestFacts
<1>2. /\ x.ride \in Rides /\ x.op = "create"
      /\ rides' = [rides EXCEPT ![x.ride] = new]
      /\ new \in RideRow /\ RowConsistent(new)
      /\ Follows(rides[x.ride], new)
      /\ new.passenger = x.actor
  BY InsertIsEvent DEF RequestedRow
<1> HIDE DEF new
<1>3. /\ rides' \in [Rides -> RideRow] /\ RowsConsistent'
      /\ rides'[x.ride] = new
      /\ \A y \in Rides : Follows(rides[y], rides'[y])
  BY <1>2, RowFacts, FollowsItself DEF IInv, TypeOK, RowsConsistent
<1>4. ASSUME NEW code \in {201, 500}, Reply(q, code) PROVE IInv'
  <2> DEFINE m == Replied(x, code)
  <2>1. /\ m \in RequestState /\ m.pc = "done" /\ m.code = code
        /\ m.op = x.op /\ m.actor = x.actor /\ m.ride = x.ride
    BY <1>1, RepliedType
  <2>2. req' = [req EXCEPT ![q] = m]
    BY <1>4 DEF Reply, Replied
  <2> HIDE DEF m
  <2>3. ReqOk(m, rides'[m.ride]) /\ ~MWon(m)
    BY <1>1, <1>2, <1>3, <2>1 DEF ReqOk, CallOk, UpdateOk, AnswerOk, MWon,
       RideOps, AdvanceOps
  <2> QED BY <1>3, <2>1, <2>2, <2>3, Assemble DEF InsertRide, IInv, TypeOK
<1> QED BY <1>4 DEF InsertRide

\* Answering 200 after the flag, or after a toggle.
LEMMA AnsweredStep ==
    ASSUME IInv, NEW q \in Requests, req[q].pc \in {"flag", "toggle"},
           Reply(q, 200), rides' = rides, suspended' = suspended,
           available' \in [Drivers -> BOOLEAN]
    PROVE  IInv'
<1> DEFINE x == req[q]
           m == Replied(x, 200)
<1>1. x \in RequestState /\ ReqOk(x, rides[x.ride]) /\ CallOk(x)
  BY RequestFacts
<1>2. /\ m \in RequestState /\ m.pc = "done" /\ m.code = 200
      /\ m.op = x.op /\ m.actor = x.actor /\ m.ride = x.ride
  BY <1>1, RepliedType
<1>3. req' = [req EXCEPT ![q] = m]
  BY DEF Reply, Replied
<1> HIDE DEF m
<1>4. MWon(m) => MWon(x)
  BY <1>1, <1>2 DEF MWon, CallOk, RideOps, AdvanceOps, ToggleOps
<1>5. ReqOk(m, rides[m.ride])
  BY <1>1, <1>2, <1>4 DEF ReqOk, CallOk, UpdateOk, AnswerOk
<1> QED BY <1>2, <1>3, <1>4, <1>5, QuietStep DEF IInv, TypeOK

LEMMA FlagStep == ASSUME IInv, NEW q \in Requests, SetFlag(q) PROVE IInv'
<1>1. available' \in [Drivers -> BOOLEAN]
  BY DEF SetFlag, IInv, TypeOK
<1> QED BY <1>1, AnsweredStep DEF SetFlag

LEMMA ToggleStep == ASSUME IInv, NEW q \in Requests, Toggle(q) PROVE IInv'
<1>1. available' \in [Drivers -> BOOLEAN]
  BY DEF Toggle, IInv, TypeOK
<1>2. CASE Reply(q, 200)
  BY <1>1, <1>2, AnsweredStep DEF Toggle
<1>3. CASE Reply(q, 500)
  <2> DEFINE m == Replied(req[q], 500)
  <2>1. req[q] \in RequestState /\ CallOk(req[q])
    BY RequestFacts
  <2>2. /\ m \in RequestState /\ m.pc = "done" /\ m.code = 500
        /\ m.op = req[q].op /\ m.actor = req[q].actor /\ m.ride = req[q].ride
    BY <2>1, RepliedType
  <2>3. req' = [req EXCEPT ![q] = m]
    BY <1>3 DEF Reply, Replied
  <2> HIDE DEF m
  <2>4. ReqOk(m, rides[m.ride]) /\ ~MWon(m)
    BY <2>1, <2>2 DEF ReqOk, CallOk, UpdateOk, AnswerOk, MWon
  <2> QED BY <1>1, <2>2, <2>3, <2>4, QuietStep DEF Toggle, IInv, TypeOK
<1> QED BY <1>2, <1>3 DEF Toggle

LEMMA DbErrorStep == ASSUME IInv, NEW q \in Requests, DbError(q) PROVE IInv'
<1>1. CASE req[q].pc = "flag"
  BY <1>1, AnsweredStep DEF DbError, IInv, TypeOK
<1>2. CASE req[q].pc # "flag"
  BY <1>2, RefusalStep DEF DbError
<1> QED BY <1>1, <1>2

-----------------------------------------------------------------------------
(* The whole next-state relation.                                          *)

\* Every handler step is one of the calls.
LEMMA HandlerCalls ==
    ASSUME NEW q \in Requests, Handler(q)
    PROVE  \/ SuspendGuard(q) \/ InsertRide(q) \/ CheckAvailable(q)
           \/ SelectRide(q) \/ UpdateApplied(q) \/ UpdateMissed(q)
           \/ UpdateRejected(q) \/ SetFlag(q) \/ Toggle(q)
BY DEF Handler, CreateRide, CancelRide, AcceptRide, EnRouteRide, ArrivedRide,
       StartRide, CompleteRide, AdvanceRide, ToggleAvailability

LEMMA InitIInv == Init => IInv
<1> SUFFICES ASSUME Init PROVE IInv
  OBVIOUS
<1>1. Idle \in RequestState /\ ReqOk(Idle, rides[Idle.ride]) /\ ~MWon(Idle)
  BY DEF Idle, RequestState, ReqOk, CallOk, UpdateOk, AnswerOk, MWon, Ops,
         RiderOps, DriverOps, RideOps, AdvanceOps, ToggleOps
<1>2. NoRow \in RideRow /\ RowConsistent(NoRow)
  BY NoneIsNone DEF NoRow, RideRow, RowConsistent, RideStatus
<1>3. TypeOK /\ RowsConsistent
  BY <1>1, <1>2 DEF Init, TypeOK, RowsConsistent
<1>4. \A q \in Requests : ReqOk(req[q], rides[req[q].ride])
  BY <1>1 DEF Init
<1>5. OneWinner
  BY <1>1 DEF Init, OneWinner, Won, MWon
<1> QED BY <1>3, <1>4, <1>5 DEF IInv

LEMMA NextIInv == IInv /\ [Next]_vars => IInv'
<1> SUFFICES ASSUME IInv, [Next]_vars PROVE IInv'
  OBVIOUS
<1>1. CASE UNCHANGED vars
  BY <1>1 DEF vars, IInv, TypeOK, RowsConsistent, OneWinner, Won
<1>2. ASSUME NEW q \in Requests, Submit(q) PROVE IInv'
  BY <1>2, SubmitStep
<1>3. ASSUME NEW q \in Requests, Handler(q) PROVE IInv'
  <2>1. CASE UpdateRejected(q)
    BY <2>1, RefusalStep DEF UpdateRejected
  <2> QED BY <1>3, <2>1, HandlerCalls, GuardStep, InsertStep, AvailableStep,
             SelectStep, AppliedStep, MissedStep, FlagStep, ToggleStep
<1>4. ASSUME NEW q \in Requests, DbError(q) PROVE IInv'
  BY <1>4, DbErrorStep
<1>5. ASSUME NEW q \in Requests, Killed(q) \/ Close(q) PROVE IInv'
  BY <1>5, IdleStep DEF Killed, Close
<1>6. ASSUME NEW u \in Riders \cup Drivers, Suspend(u) \/ Unsuspend(u)
      PROVE  IInv'
  <2>1. UNCHANGED <<rides, available, req>>
    BY <1>6 DEF Suspend, Unsuspend
  <2>2. suspended' \in [Riders \cup Drivers -> BOOLEAN]
    BY <1>6 DEF Suspend, Unsuspend, IInv, TypeOK
  <2>3. TypeOK'
    BY <2>1, <2>2 DEF IInv, TypeOK
  <2>4. RowsConsistent' /\ OneWinner'
    BY <2>1 DEF IInv, RowsConsistent, OneWinner, Won
  <2> QED BY <2>1, <2>3, <2>4 DEF IInv
<1>7. CASE Next
  BY <1>2, <1>3, <1>4, <1>5, <1>6, <1>7 DEF Next
<1> QED BY <1>1, <1>7

LEMMA AlwaysIInv == Spec => []IInv
BY InitIInv, NextIInv, PTL DEF Spec

\* Only two calls write the table rides.
LEMMA RowWriters ==
    ASSUME IInv, Next
    PROVE  \/ UNCHANGED rides
           \/ \E q \in Requests : InsertRide(q) \/ UpdateApplied(q)
<1>1. ASSUME NEW q \in Requests, Handler(q)
      PROVE  UNCHANGED rides \/ InsertRide(q) \/ UpdateApplied(q)
  BY <1>1, HandlerCalls
     DEF SuspendGuard, CheckAvailable, SelectRide, UpdateMissed, UpdateRejected,
         SetFlag, Toggle
<1> QED BY <1>1 DEF Next, Submit, DbError, Killed, Close, Suspend, Unsuspend

-----------------------------------------------------------------------------
(* What a call does to the requests.                                       *)

\* Request q, and no other, goes to a call or an answer.
Moves(q, pc, code) ==
    /\ \A p \in Requests \ {q} : req'[p] = req[p]
    /\ req'[q].op = req[q].op
    /\ req'[q].actor = req[q].actor
    /\ req'[q].ride = req[q].ride
    /\ req'[q].pc = pc
    /\ req'[q].code = code

LEMMA ReplyMoves ==
    ASSUME IInv, NEW q \in Requests, NEW code, Reply(q, code)
    PROVE  Moves(q, "done", code)
<1>1. req \in [Requests -> RequestState]
  BY DEF IInv, TypeOK
<1>2. req' = [req EXCEPT ![q] = [req[q] EXCEPT !.pc = "done", !.code = code]]
  BY DEF Reply
<1>3. \A p \in Requests \ {q} : req'[p] = req[p]
  BY <1>1, <1>2
<1>4. req'[q] = [req[q] EXCEPT !.pc = "done", !.code = code]
  BY <1>1, <1>2
<1> QED BY <1>1, <1>3, <1>4 DEF Moves, RequestState

LEMMA GotoMoves ==
    ASSUME IInv, NEW q \in Requests, NEW pc, Goto(q, pc)
    PROVE  Moves(q, pc, req[q].code)
<1>1. req \in [Requests -> RequestState] /\ req[q] \in RequestState
  BY DEF IInv, TypeOK
<1>2. req' = [req EXCEPT ![q] = [req[q] EXCEPT !.pc = pc]]
  BY DEF Goto
<1> QED BY <1>1, <1>2 DEF Moves, RequestState

\* The calls that write neither a ride nor a flag.
LEMMA GuardMoves ==
    ASSUME IInv, NEW q \in Requests, SuspendGuard(q)
    PROVE  /\ req[q].pc = "guard"
           /\ UNCHANGED <<rides, available, suspended>>
           /\ \/ suspended[req[q].actor] /\ Moves(q, "done", 403)
              \/ /\ ~suspended[req[q].actor]
                 /\ \E pc \in {"insert", "available", "toggle"} : Moves(q, pc, 0)
<1> DEFINE op == req[q].op
<1>1. /\ req[q].pc = "guard" /\ op \in {"create", "accept", "online"}
      /\ req[q].code = 0
  BY RequestFacts DEF SuspendGuard, CallOk
<1>2. CASE suspended[req[q].actor]
  BY <1>1, <1>2, ReplyMoves DEF SuspendGuard
<1>3. CASE ~suspended[req[q].actor]
  <2>1. \E pc \in {"insert", "available", "toggle"} : Goto(q, pc)
    <3>1. CASE op = "create"
      BY <1>1, <1>3, <3>1, Zenon DEF SuspendGuard
    <3>2. CASE op = "accept"
      <4>1. op # "create"
        BY <3>2
      <4> QED BY <1>1, <1>3, <3>2, <4>1, Zenon DEF SuspendGuard
    <3>3. CASE op = "online"
      <4>1. op # "create" /\ op # "accept"
        BY <3>3
      <4> QED BY <1>1, <1>3, <3>3, <4>1, Zenon DEF SuspendGuard
    <3> QED BY <1>1, <3>1, <3>2, <3>3
  <2> QED BY <1>1, <1>3, <2>1, GotoMoves DEF SuspendGuard
<1> QED BY <1>2, <1>3

LEMMA AvailableMoves ==
    ASSUME IInv, NEW q \in Requests, CheckAvailable(q)
    PROVE  /\ req[q].pc = "available"
           /\ UNCHANGED <<rides, available, suspended>>
           /\ \/ Moves(q, "done", 400)
              \/ available[req[q].actor] /\ Moves(q, "select", 0)
<1>1. req[q].pc = "available" /\ req[q].code = 0
  BY RequestFacts DEF CheckAvailable, CallOk
<1> QED BY <1>1, ReplyMoves, GotoMoves DEF CheckAvailable

\* A driver is nobody's passenger: 403 is no answer of the SELECT.
LEMMA SelectMoves ==
    ASSUME IInv, NEW q \in Requests, SelectRide(q)
    PROVE  /\ req[q].pc = "select"
           /\ UNCHANGED <<rides, available, suspended>>
           /\ \/ \E code \in {400, 404} : Moves(q, "done", code)
              \/ Moves(q, "update", 0)
<1> DEFINE x   == req[q]
           row == rides[x.ride]
           m   == [x EXCEPT !.pc = "update", !.seen = row.status]
<1>1. /\ x \in RequestState /\ x.pc = "select" /\ x.code = 0
      /\ x.op \in RideOps /\ x.ride \in Rides
      /\ x.op = "accept" => x.actor \in Drivers
  BY RequestFacts DEF SelectRide, CallOk, DriverOps, RideOps
<1>2. row.passenger \in Riders \cup {None}
  BY <1>1, RowFacts
<1>3. ~(x.op = "accept" /\ row.passenger = x.actor)
  BY <1>1, <1>2, NoneIsNone, RidesAssumption
<1>4. \/ Reply(q, 404) \/ Reply(q, 400)
      \/ req' = [req EXCEPT ![q] = m]
  <2>1. CASE ~HasAccess(x.op, x.actor, row)
    BY <1>3, <2>1, Zenon DEF SelectRide
  <2>2. CASE HasAccess(x.op, x.actor, row)
    BY <1>3, <2>2, Zenon DEF SelectRide
  <2> QED BY <2>1, <2>2
<1>5. CASE req' = [req EXCEPT ![q] = m]
  <2>1. req \in [Requests -> RequestState]
    BY DEF IInv, TypeOK
  <2>2. m.op = x.op /\ m.actor = x.actor /\ m.ride = x.ride
        /\ m.pc = "update" /\ m.code = 0
    BY <1>1 DEF RequestState
  <2>3. req'[q] = m /\ \A p \in Requests \ {q} : req'[p] = req[p]
    BY <1>5, <2>1
  <2> HIDE DEF m
  <2>4. Moves(q, "update", 0)
    BY <2>2, <2>3 DEF Moves
  <2> QED BY <1>1, <2>4 DEF SelectRide
<1> QED BY <1>1, <1>4, <1>5, ReplyMoves DEF SelectRide

\* The calls that write one.
LEMMA InsertMoves ==
    ASSUME IInv, NEW q \in Requests, InsertRide(q)
    PROVE  /\ req[q].pc = "insert" /\ req[q].op = "create"
           /\ req[q].actor \in Riders
           /\ UNCHANGED <<available, suspended>>
           /\ \E code \in {201, 500} : Moves(q, "done", code)
BY RequestFacts, ReplyMoves DEF InsertRide, CallOk

LEMMA AppliedMoves ==
    ASSUME IInv, NEW q \in Requests, UpdateApplied(q)
    PROVE  /\ req[q].pc = "update" /\ req[q].op \in RideOps
           /\ UNCHANGED <<available, suspended>>
           /\ \/ /\ req[q].op \in {"accept", "complete"}
                 /\ Moves(q, "flag", 0)
              \/ /\ req[q].op \notin {"accept", "complete"}
                 /\ Moves(q, "done", 200)
              \/ Faults /\ Moves(q, "done", 500)
<1>1. /\ req[q].pc = "update" /\ req[q].code = 0
      /\ req[q].op \in RideOps
  BY RequestFacts DEF UpdateApplied, CallOk
<1>2. \/ req[q].op \in {"accept", "complete"} /\ Goto(q, "flag")
      \/ req[q].op \notin {"accept", "complete"} /\ Reply(q, 200)
      \/ Faults /\ Reply(q, 500)
  BY DEF UpdateApplied
<1> QED BY <1>1, <1>2, ReplyMoves, GotoMoves DEF UpdateApplied

LEMMA RefusedMoves ==
    ASSUME IInv, NEW q \in Requests, UpdateMissed(q) \/ UpdateRejected(q)
    PROVE  /\ req[q].pc = "update"
           /\ UNCHANGED <<rides, available, suspended>>
           /\ \/ Moves(q, "done", 409)
              \/ TooLong(req[q].op) /\ Moves(q, "done", 500)
BY ReplyMoves DEF UpdateMissed, UpdateRejected

LEMMA FlagMoves ==
    ASSUME IInv, NEW q \in Requests, SetFlag(q)
    PROVE  /\ req[q].pc = "flag" /\ req[q].op \in {"accept", "complete"}
           /\ UNCHANGED <<rides, suspended>>
           /\ available' =
                 [available EXCEPT ![req[q].actor] = (req[q].op = "complete")]
           /\ Moves(q, "done", 200)
BY RequestFacts, ReplyMoves DEF SetFlag, CallOk

LEMMA ToggleMoves ==
    ASSUME IInv, NEW q \in Requests, Toggle(q)
    PROVE  /\ req[q].pc = "toggle" /\ req[q].op \in ToggleOps
           /\ UNCHANGED <<rides, suspended>>
           /\ available' =
                 [available EXCEPT ![req[q].actor] = (req[q].op = "online")]
           /\ \E code \in {200, 500} : Moves(q, "done", code)
BY RequestFacts, ReplyMoves DEF Toggle, CallOk

\* Whatever the call: one request moves, and no flag but its actor's.
LEMMA HandlerMoves ==
    ASSUME IInv, NEW q \in Requests, Handler(q)
    PROVE  /\ suspended' = suspended
           /\ req[q].pc \notin {"idle", "done"}
           /\ \E pc, code : Moves(q, pc, code)
           /\ \A d \in Drivers \ {req[q].actor} : available'[d] = available[d]
<1>1. available \in [Drivers -> BOOLEAN]
  BY DEF IInv, TypeOK
<1>2. CASE SuspendGuard(q)
  BY <1>2, GuardMoves
<1>3. CASE InsertRide(q)
  BY <1>3, InsertMoves
<1>4. CASE CheckAvailable(q)
  BY <1>4, AvailableMoves
<1>5. CASE SelectRide(q)
  BY <1>5, SelectMoves
<1>6. CASE UpdateApplied(q)
  BY <1>6, AppliedMoves
<1>7. CASE UpdateMissed(q) \/ UpdateRejected(q)
  BY <1>7, RefusedMoves
<1>8. CASE SetFlag(q)
  BY <1>1, <1>8, FlagMoves
<1>9. CASE Toggle(q)
  BY <1>1, <1>9, ToggleMoves
<1> QED BY <1>2, <1>3, <1>4, <1>5, <1>6, <1>7, <1>8, <1>9, HandlerCalls

-----------------------------------------------------------------------------
(* The theorems.                                                           *)

(* The tables and the requests keep their types: in particular a ride's    *)
(* status is always one the model declares, and its fare a number.         *)
THEOREM TypeCorrect == Spec => []TypeOK
<1>1. IInv => TypeOK
  BY DEF IInv
<1> QED BY <1>1, AlwaysIInv, PTL

(* Driver, fare and cancelled_by agree with the status in every row.       *)
THEOREM RowsStayConsistent == Spec => []RowsConsistent
<1>1. IInv => RowsConsistent
  BY DEF IInv
<1> QED BY <1>1, AlwaysIInv, PTL

(* What a handler has answered with 200 or 201 stays true of the row.      *)
THEOREM AnswersStayTrue == Spec => []AnswersHold
<1>1. IInv => AnswersHold
  <2>1. ASSUME IInv, NEW q \in Requests
        PROVE  AnswerOk(req[q], rides[req[q].ride])
    BY <2>1, RequestFacts DEF ReqOk
  <2> QED BY <2>1 DEF AnswersHold, AnswerOk, Won, MWon, Fare
<1> QED BY <1>1, AlwaysIInv, PTL

(* No two requests both win the same step of a ride, nor one its end and    *)
(* the other its cancellation.                                             *)
THEOREM AtMostOneWinner == Spec => []OneWinner
<1>1. IInv => OneWinner
  BY DEF IInv
<1> QED BY <1>1, AlwaysIInv, PTL

(* A 409 is only ever answered when the ride has moved on.                 *)
THEOREM ConflictsAreGenuine == Spec => []ConflictIsGenuine
<1>1. IInv => ConflictIsGenuine
  <2>1. ASSUME IInv, NEW q \in Requests
        PROVE  AnswerOk(req[q], rides[req[q].ride])
    BY <2>1, RequestFacts DEF ReqOk
  <2> QED BY <2>1 DEF ConflictIsGenuine, AnswerOk
<1> QED BY <1>1, AlwaysIInv, PTL

(* A ride moves on only for its driver, is accepted only while it has none *)
(* and is cancelled only for a party, as the row is when it is written.    *)
THEOREM PartiesOnly == Spec => OnlyPartiesAct
<1> DEFINE Moved(r) ==
       \E q \in Requests :
           /\ req[q].pc = "update" /\ req[q].ride = r
           /\ Target(req[q].op) = rides'[r].status
           /\ Entitled(req[q].op, req[q].actor, rides[r])
<1> DEFINE Asked == \A r \in Rides :
       rides[r].status \notin {rides'[r].status, "NO_ROW"} => Moved(r)
<1>1. ASSUME IInv, Next PROVE Asked
  <2> SUFFICES ASSUME NEW r \in Rides,
                      rides[r].status \notin {rides'[r].status, "NO_ROW"}
               PROVE  Moved(r)
    OBVIOUS
  <2>1. PICK q \in Requests : InsertRide(q) \/ UpdateApplied(q)
    BY <1>1, RowWriters
  <2>2. rides \in [Rides -> RideRow]
    BY <1>1 DEF IInv, TypeOK
  <2>3. UpdateApplied(q)
    BY <2>1, <2>2 DEF InsertRide, NoRow
  <2>4. /\ req[q].pc = "update"
        /\ WhereMatches(req[q].op, rides[req[q].ride])
        /\ rides' = [rides EXCEPT ![req[q].ride] =
                        Updated(req[q].op, req[q].actor, req[q].ride)]
    BY <2>3 DEF UpdateApplied
  <2>5. req[q].ride = r /\ rides'[r] = Updated(req[q].op, req[q].actor, r)
    BY <2>2, <2>4
  <2>6. rides'[r].status = Target(req[q].op)
    BY <1>1, <2>3, <2>5, UpdateOutcome
  <2>7. /\ req[q].op \in RideOps
        /\ UpdateOk(req[q], rides[r])
    BY <1>1, <2>3, <2>5, RequestFacts DEF UpdateApplied, CallOk, ReqOk
  <2>8. req[q].op = "accept" => rides[r].driver = None
    BY <2>4, <2>5 DEF WhereMatches
  <2>9. Entitled(req[q].op, req[q].actor, rides[r])
    BY <2>4, <2>7, <2>8 DEF UpdateOk, Entitled, RideOps
  <2> QED BY <2>4, <2>5, <2>6, <2>9
<1>2. IInv /\ [Next]_vars => [Asked]_vars
  BY <1>1
<1>3. Spec => [][Asked]_vars
  BY <1>2, AlwaysIInv, PTL DEF Spec
<1> QED BY <1>3 DEF OnlyPartiesAct

(* The handlers implement the atomic life cycle: the initial table is its  *)
(* initial table, and each call is one of its events or leaves it alone.   *)
THEOREM HandlersImplementLifecycle == Spec => RefinesLifecycle
<1>1. Init => Lifecycle!Init
  BY DEF Init, Lifecycle!Init, NoRow, Lifecycle!NoRow
<1>2. IInv /\ [Next]_vars => [Lifecycle!Next]_rides
  BY RowWriters, UpdateIsEvent, InsertIsEvent DEF vars
<1> QED BY <1>1, <1>2, AlwaysIInv, PTL DEF Spec, RefinesLifecycle, Lifecycle!Spec

-----------------------------------------------------------------------------
(* The column cancelled_by.                                                *)

\* Where the column takes the id, only a fault answers a cancellation 500.
LEMMA CancelAnswered ==
    ASSUME ~Faults, CancelledByWidth >= UuidTextLen, IInv, CancelNeverFails,
           NEW q \in Requests,
           Submit(q) \/ Handler(q) \/ DbError(q) \/ Killed(q) \/ Close(q)
    PROVE  CancelNeverFails'
<1> USE DEF CancelNeverFails
<1>1. \A o : ~TooLong(o)
  BY RidesAssumption DEF TooLong, UuidTextLen
<1>2. ASSUME NEW pc, NEW code, Moves(q, pc, code),
             req[q].op = "cancel" /\ pc = "done" => code # 500
      PROVE  CancelNeverFails'
  BY <1>2 DEF Moves
<1>3. CASE SuspendGuard(q)
  BY <1>2, <1>3, GuardMoves
<1>4. CASE InsertRide(q)
  BY <1>2, <1>4, InsertMoves
<1>5. CASE CheckAvailable(q)
  BY <1>2, <1>5, AvailableMoves
<1>6. CASE SelectRide(q)
  BY <1>2, <1>6, SelectMoves
<1>7. CASE UpdateApplied(q)
  BY <1>2, <1>7, AppliedMoves
<1>8. CASE UpdateMissed(q) \/ UpdateRejected(q)
  BY <1>1, <1>2, <1>8, RefusedMoves
<1>9. CASE SetFlag(q)
  BY <1>2, <1>9, FlagMoves
<1>10. CASE Toggle(q)
  BY <1>2, <1>10, ToggleMoves DEF ToggleOps
<1>11. CASE Submit(q)
  BY <1>11 DEF Submit, IInv, TypeOK
<1>12. CASE Close(q)
  BY <1>12 DEF Close, Idle, IInv, TypeOK
<1>13. ~DbError(q) /\ ~Killed(q)
  BY DEF DbError, Killed
<1> QED BY <1>3, <1>4, <1>5, <1>6, <1>7, <1>8, <1>9, <1>10, <1>11, <1>12, <1>13,
           HandlerCalls

(* The width of cancelled_by is the whole cause of the failing              *)
(* cancellations: with a column that takes an id, and a database that does *)
(* not fail, none is answered 500, whatever runs beside it.                *)
THEOREM WideColumnSuffices ==
    ASSUME ~Faults, CancelledByWidth >= UuidTextLen
    PROVE  Spec => []CancelNeverFails
<1>1. Init => CancelNeverFails
  BY DEF Init, Idle, CancelNeverFails
<1>2. IInv /\ CancelNeverFails /\ [Next]_vars => CancelNeverFails'
  <2> SUFFICES ASSUME IInv, CancelNeverFails, [Next]_vars
               PROVE  CancelNeverFails'
    OBVIOUS
  <2>1. CASE UNCHANGED req
    BY <2>1 DEF CancelNeverFails
  <2> QED BY <2>1, CancelAnswered DEF Next, Suspend, Unsuspend, vars
<1> QED BY <1>1, <1>2, AlwaysIInv, PTL DEF Spec

NothingCancelled == \A r \in Rides : rides[r].status # "CANCELLED"

(* And with the column as it is declared, narrower than an id, no ride is   *)
(* ever cancelled, by anybody, with or without faults.                     *)
THEOREM NarrowColumnBars ==
    ASSUME CancelledByWidth < UuidTextLen
    PROVE  Spec => []NothingCancelled
<1>1. Init => NothingCancelled
  <2>1. Init => \A r \in Rides : rides[r] = NoRow
    BY DEF Init
  <2>2. NoRow.status = "NO_ROW"
    BY DEF NoRow
  <2> QED BY <2>1, <2>2 DEF NothingCancelled
<1>2. ASSUME IInv, NothingCancelled, Next
      PROVE  NothingCancelled'
  <2>1. rides \in [Rides -> RideRow]
    BY <1>2 DEF IInv, TypeOK
  <2>2. CASE UNCHANGED rides
    BY <1>2, <2>2 DEF NothingCancelled
  <2>3. ASSUME NEW q \in Requests, InsertRide(q)
        PROVE  NothingCancelled'
    BY <1>2, <2>1, <2>3 DEF InsertRide, RequestedRow, NothingCancelled
  <2>4. ASSUME NEW q \in Requests, UpdateApplied(q)
        PROVE  NothingCancelled'
    <3> DEFINE x   == req[q]
               new == Updated(x.op, x.actor, x.ride)
    <3>1. x.op \in RideOps /\ x.op # "cancel"
      BY <1>2, <2>4, AppliedMoves DEF UpdateApplied, TooLong
    <3>2. new.status = Target(x.op)
      BY <1>2, <2>4, UpdateOutcome
    <3>3. Target(x.op) # "CANCELLED"
      BY <3>1 DEF Target, RideOps, AdvanceOps
    <3>4. rides' = [rides EXCEPT ![x.ride] = new]
      BY <2>4 DEF UpdateApplied
    <3> HIDE DEF new
    <3> QED BY <1>2, <2>1, <3>2, <3>3, <3>4 DEF NothingCancelled
  <2> QED BY <1>2, <2>2, <2>3, <2>4, RowWriters
<1>3. IInv /\ NothingCancelled /\ [Next]_vars => NothingCancelled'
  BY <1>2 DEF vars, NothingCancelled
<1> QED BY <1>1, <1>3, AlwaysIInv, PTL DEF Spec
=============================================================================
