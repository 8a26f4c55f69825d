------------------------------ MODULE History ------------------------------
(***************************************************************************)
(* What riders, drivers and the admin panel read while rides go on: the    *)
(* statistics, the lists and the history a rider reads page by page.  The  *)
(* rides are those of RideLifecycle.  RiderRides (internal/api/rider.go)   *)
(* counts in one statement and reads the page in another, and the client   *)
(* asks for its pages one after the other: rides are completed in between. *)
(***************************************************************************)
EXTENDS RideLifecycle, Views

CONSTANT Limit      \* ?limit=

\* Ids of users, drivers and rides are random UUIDs.
ASSUME HistoryAssumption ==
    /\ Limit \in Nat \ {0}
    /\ Riders \cap Drivers = {}
    /\ None \notin Rides

VARIABLES
    order,      \* the completed rides by completed_at, the last one first
    page        \* the reading of one rider's history

historyVars == <<rides, order, page>>

\* total and got are what the last answer said; seen, the rides of the
\* answers so far; due, the rides that were completed when the reading began.
NoPage == [pc |-> "idle", rider |-> None, offset |-> 0, total |-> 0,
           got |-> 0, seen |-> {}, due |-> {}]

HistoryInit == Init /\ order = <<>> /\ page = NoPage

-----------------------------------------------------------------------------
(* The rides.                                                              *)

RideStep == /\ \E r \in Rides : Request(r) \/ Accept(r) \/ Advance(r) \/ Cancel(r)
            /\ UNCHANGED <<order, page>>

InsertedAt(i, r) == SubSeq(order, 1, i - 1) \o <<r>> \o SubSeq(order, i, Len(order))

\* completed_at is now(), the start of the UPDATE: of the UPDATEs under way a
\* later one may be in the table first.
CompleteStep ==
    /\ \E r \in Rides :
          /\ Complete(r)
          /\ \E i \in 1..(Len(order) + 1) : order' = InsertedAt(i, r)
    /\ UNCHANGED page

-----------------------------------------------------------------------------
(* The reading.                                                            *)

\* A rider opens the history: ?limit=Limit&offset=0.
Open(u) ==
    /\ page.pc = "idle"
    /\ page' = [NoPage EXCEPT !.pc = "count", !.rider = u,
                              !.due = {r \in Rides : /\ rides[r].passenger = u
                                                     /\ rides[r].status = "COMPLETED"}]
    /\ UNCHANGED <<rides, order>>

\* The handler's SELECT COUNT(*).
Count ==
    /\ page.pc = "count"
    /\ page' = [page EXCEPT !.pc = "rows",
                            !.total = RiderRidesTotal(rides, page.rider)]
    /\ UNCHANGED <<rides, order>>

\* Its SELECT of the page, and the answer {rides, total}.
Rows ==
    /\ page.pc = "rows"
    /\ LET rows == RiderRidesPage(rides, order, page.rider, Limit, page.offset)
       IN  page' = [page EXCEPT !.pc = "answered", !.got = Len(rows),
                                !.seen = @ \cup Range(rows)]
    /\ UNCHANGED <<rides, order>>

\* The client goes on as long as the pages are full.  (One that stops at
\* total would skip a ride: total is counted before the rows are read, and a
\* ride completed in between takes the place of the last one.)
NextPage ==
    /\ page.pc = "answered"
    /\ page.got = Limit
    /\ page' = [page EXCEPT !.pc = "count", !.offset = @ + Limit]
    /\ UNCHANGED <<rides, order>>

LastPage ==
    /\ page.pc = "answered"
    /\ page.got < Limit
    /\ page' = [page EXCEPT !.pc = "over"]
    /\ UNCHANGED <<rides, order>>

CloseHistory ==
    /\ page.pc = "over"
    /\ page' = NoPage
    /\ UNCHANGED <<rides, order>>

HistoryNext ==
    \/ RideStep \/ CompleteStep
    \/ \E u \in Riders : Open(u)
    \/ Count \/ Rows \/ NextPage \/ LastPage \/ CloseHistory

HistorySpec == HistoryInit /\ [][HistoryNext]_historyVars

-----------------------------------------------------------------------------
(* Read by offsets while rides are completed, the history may repeat a     *)
(* ride but never skips one: every ride completed when the reading began   *)
(* is on some page, and the last answer's total promises no more than was  *)
(* shown, although no transaction holds its count and its rows together.   *)
(* It rests on a completed ride staying completed.                         *)
PagesMissNothing ==
    page.pc = "over" => /\ page.due \subseteq page.seen
                        /\ page.total <= page.offset + page.got

(* The panels agree with each other, although each query has its own       *)
(* WHERE: what a rider spent is the fares of the rides listed and nothing  *)
(* else (RiderStats sums without a status), there is a last ride when the  *)
(* count says so, a driver is offered as many rides as the dashboard calls *)
(* pending, the revenue of the day is what its rides were driven for, and  *)
(* a ride under way is either offered to every driver or read by one.      *)
ViewsAgree ==
    /\ \A u \in Riders :
          LET stats  == RiderStats(rides, u)
              listed == CompletedOf(rides, order, u)
          IN  /\ stats.completed_trips = Len(listed)
              /\ stats.total_spent = SumOfFares(rides, Range(listed))
              /\ stats.completed_trips > 0 <=>
                    PassengerLastRide(rides, order, u) # None
              /\ stats.total_trips = GetPassengerTrips(rides, u)
    /\ LET day    == DashboardStats(rides)
           driven == UNION {Range(DriverRides(rides, order, d)) : d \in Drivers}
       IN  /\ \A d \in Drivers :
                 day.pending_rides = Cardinality(ListRides(rides, d, None))
           /\ day.rides_today = Cardinality(driven)
           /\ day.revenue_today = SumOfFares(rides, driven)
    /\ \A r \in Rides :
          rides[r] # NoRow /\ ~IsTerminal(rides[r].status) =>
              \/ \A d \in Drivers : r \in ListRides(rides, d, None)
              \/ Cardinality({d \in Drivers : r \in GetRide(rides, d)}) = 1

=============================================================================
