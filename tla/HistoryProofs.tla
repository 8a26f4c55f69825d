--------------------------- MODULE HistoryProofs ---------------------------
(***************************************************************************)
(* The abstract life cycle keeps its rows consistent and its decisions     *)
(* final, and those who read it while it goes on are told the truth: the   *)
(* panels agree, and a history read page by page has no gap.  For any      *)
(* number of rides, riders and drivers and any size of a page.             *)
(***************************************************************************)
EXTENDS History, FiniteSetTheorems, SequenceTheorems, TLAPS

Inv == rides \in [Rides -> RideRow] /\ RowsConsistent

LEMMA NoneIsNone ==
    /\ None \notin Riders /\ None \notin Drivers /\ None \notin Nat
BY RideModelAssumption

\* What one event of one ride does to its row.
LEMMA EventKeepsInv ==
    ASSUME Inv, NEW r \in Rides,
           Request(r) \/ Accept(r) \/ Advance(r) \/ Complete(r) \/ Cancel(r)
    PROVE  /\ Inv'
           /\ \A x \in Rides : x # r => rides'[x] = rides[x]
           /\ rides[r].passenger # None => rides'[r].passenger = rides[r].passenger
           /\ rides[r].driver # None => rides'[r].driver = rides[r].driver
           /\ ~IsTerminal(rides[r].status)
<1> DEFINE row == rides[r]
<1>0. /\ row \in RideRow /\ RowConsistent(row)
      /\ row.status \in RideStatus \cup {"NO_ROW"}
      /\ row.passenger \in Riders \cup {None}
      /\ row.driver \in Drivers \cup {None}
      /\ row.fare \in Nat \cup {None}
      /\ row.cancelled_by \in Riders \cup Drivers \cup {None}
  BY DEF Inv, RowsConsistent, RideRow
<1>1. SUFFICES \E new \in RideRow :
                  /\ rides' = [rides EXCEPT ![r] = new]
                  /\ RowConsistent(new)
                  /\ row.passenger # None => new.passenger = row.passenger
                  /\ row.driver # None => new.driver = row.driver
                  /\ ~IsTerminal(row.status)
  BY DEF Inv, RowsConsistent
<1>2. CASE Request(r)
  <2>1. PICK p \in Riders : rides' = [rides EXCEPT ![r] = RequestedRow(p)]
    BY <1>2 DEF Request
  <2>3. RequestedRow(p) \in RideRow /\ RowConsistent(RequestedRow(p))
    BY NoneIsNone DEF RequestedRow, RideRow, RideStatus, RowConsistent
  <2>4. row.status = "NO_ROW" /\ row.passenger = None /\ row.driver = None
    BY <1>2 DEF Request, NoRow
  <2> QED BY <2>1, <2>3, <2>4 DEF IsTerminal
<1>3. CASE Accept(r)
  <2>1. PICK d \in Drivers :
           rides' = [rides EXCEPT ![r].status = "ACCEPTED", ![r].driver = d]
    BY <1>3 DEF Accept
  <2> DEFINE new == [row EXCEPT !.status = "ACCEPTED", !.driver = d]
  <2>2. rides' = [rides EXCEPT ![r] = new]
    BY <2>1, <1>0 DEF Inv
  <2>3. row.status = "REQUESTED" /\ row.driver = None
    BY <1>3 DEF Accept
  <2>4. new \in RideRow /\ RowConsistent(new)
    BY <1>0, <2>3, NoneIsNone DEF RideRow, RideStatus, RowConsistent
  <2> QED BY <1>0, <2>2, <2>3, <2>4 DEF IsTerminal, RideRow
<1>4. CASE Advance(r)
  <2>1. PICK s \in {"EN_ROUTE", "ARRIVED", "IN_PROGRESS"} :
           /\ <<row.status, s>> \in transitionMatrix
           /\ rides' = [rides EXCEPT ![r].status = s]
    BY <1>4 DEF Advance
  <2> DEFINE new == [row EXCEPT !.status = s]
  <2>2. rides' = [rides EXCEPT ![r] = new]
    BY <2>1, <1>0 DEF Inv
  <2>3. row.status \in {"ACCEPTED", "EN_ROUTE", "ARRIVED"}
    BY <2>1 DEF transitionMatrix
  <2>4. new \in RideRow /\ RowConsistent(new)
    BY <1>0, <2>3, NoneIsNone DEF RideRow, RideStatus, RowConsistent
  <2> QED BY <1>0, <2>2, <2>3, <2>4 DEF IsTerminal, RideRow
<1>5. CASE Complete(r)
  <2>1. PICK f \in Fares :
           rides' = [rides EXCEPT ![r].status = "COMPLETED", ![r].fare = f]
    BY <1>5 DEF Complete
  <2> DEFINE new == [row EXCEPT !.status = "COMPLETED", !.fare = f]
  <2>2. rides' = [rides EXCEPT ![r] = new]
    BY <2>1, <1>0 DEF Inv
  <2>3. row.status = "IN_PROGRESS" /\ f \in Nat
    BY <1>5, FaresAssumption DEF Complete
  <2>4. new \in RideRow /\ RowConsistent(new)
    BY <1>0, <2>3, NoneIsNone DEF RideRow, RideStatus, RowConsistent
  <2> QED BY <1>0, <2>2, <2>3, <2>4 DEF IsTerminal, RideRow
<1>6. CASE Cancel(r)
  <2>1. PICK u \in {row.passenger, row.driver} \ {None} :
           rides' = [rides EXCEPT ![r].status = "CANCELLED",
                                  ![r].cancelled_by = u]
    BY <1>6 DEF Cancel
  <2> DEFINE new == [row EXCEPT !.status = "CANCELLED", !.cancelled_by = u]
  <2>2. rides' = [rides EXCEPT ![r] = new]
    BY <2>1, <1>0 DEF Inv
  <2>3. row.status \in RideStatus \ {"COMPLETED", "CANCELLED"}
    BY <1>6 DEF Cancel, CancelableStates, transitionMatrix, RideStatus
  <2>4. new \in RideRow /\ RowConsistent(new)
    BY <1>0, <2>3, NoneIsNone DEF RideRow, RideStatus, RowConsistent
  <2> QED BY <1>0, <2>2, <2>3, <2>4 DEF IsTerminal, RideRow
<1> QED BY <1>2, <1>3, <1>4, <1>5, <1>6

LEMMA InitInv == Init => Inv
BY NoneIsNone DEF Init, Inv, RowsConsistent, NoRow, RideRow, RowConsistent,
                  RideStatus

LEMMA NextInv == Inv /\ [Next]_rides => Inv'
BY EventKeepsInv DEF Next, Inv, RowsConsistent

(* No ride in progress without a driver, no fare without a completed ride,  *)
(* no cancellation without a party of the ride.                            *)
THEOREM LifecycleConsistent == Spec => []RowsConsistent
<1>1. Inv => RowsConsistent
  BY DEF Inv
<1> QED BY <1>1, InitInv, NextInv, PTL DEF Spec

(* Passenger, driver and outcome of a ride are final once they are set.    *)
THEOREM LifecycleSettled == Spec => Settled
<1> DEFINE Kept ==
       \A r \in Rides :
          /\ rides[r].passenger # None => rides'[r].passenger = rides[r].passenger
          /\ rides[r].driver # None => rides'[r].driver = rides[r].driver
          /\ IsTerminal(rides[r].status) => rides'[r] = rides[r]
<1>1. Inv /\ Next => Kept
  BY EventKeepsInv DEF Next
<1>2. Inv /\ [Next]_rides => [Kept]_rides
  BY <1>1
<1>3. Spec => [][Kept]_rides
  BY <1>2, InitInv, NextInv, PTL DEF Spec
<1> QED BY <1>3 DEF Settled

-----------------------------------------------------------------------------
(* The inductive invariant.                                                *)

\* The rides a user lists as completed, and the place of one of them.
Mine(u) == {r \in Range(order) : /\ u \in {rides[r].passenger, rides[r].driver}
                                /\ rides[r].status = "COMPLETED"}

Place(u, r) == Cardinality(UpTo(order, Mine(u), r))

\* The order has the completed rides, each once.
OrderOk ==
    /\ order \in Seq(Rides)
    /\ \A i, j \in DOMAIN order : order[i] = order[j] => i = j
    /\ Range(order) = {r \in Rides : rides[r].status = "COMPLETED"}

PageType == [pc : {"idle", "count", "rows", "answered", "over"},
             rider : Riders \cup {None}, offset : Nat, total : Nat,
             got : Nat, seen : SUBSET Rides, due : SUBSET Rides]

\* Until the next page is read, a ride that was due has been seen or stands
\* beyond the offset: later completions only push it further down.
Ahead(offset) ==
    \A r \in page.due : r \in page.seen \/ Place(page.rider, r) > offset

PageOk ==
    /\ page \in PageType
    /\ page.pc # "idle" => /\ page.rider \in Riders
                           /\ page.due \subseteq Mine(page.rider)
    /\ page.pc \in {"count", "rows"} => Ahead(page.offset)
    /\ page.pc = "rows" => page.total <= Cardinality(Mine(page.rider))
    /\ page.pc = "answered" => page.got <= Limit
    /\ page.pc = "answered" /\ page.got = Limit => Ahead(page.offset + Limit)
    /\ page.pc = "over" => page.got < Limit
    /\ page.pc \in {"answered", "over"} /\ page.got < Limit =>
          /\ page.due \subseteq page.seen
          /\ page.total <= page.offset + page.got

IInv == Inv /\ OrderOk /\ PageOk

-----------------------------------------------------------------------------
(* The list of a user's completed rides.                                   *)

\* Of a list without repetitions, the places of a set of its entries are
\* the numbers from 1 to the size of the set, each taken once.
LEMMA Places ==
    ASSUME NEW s \in Seq(Rides), \A i, j \in DOMAIN s : s[i] = s[j] => i = j,
           NEW S \in SUBSET Range(s)
    PROVE  /\ IsFiniteSet(S)
           /\ \A r \in S : Cardinality(UpTo(s, S, r)) \in 1..Cardinality(S)
           /\ \A k \in 1..Cardinality(S) :
                 \E r \in S : Cardinality(UpTo(s, S, r)) = k
           /\ \A r, x \in S :
                 Cardinality(UpTo(s, S, r)) = Cardinality(UpTo(s, S, x)) => r = x
<1> DEFINE n == Len(s)
           at(r) == CHOOSE i \in 1..n : s[i] = r
           place == [r \in S |-> Cardinality(UpTo(s, S, r))]
<1>1. n \in Nat /\ DOMAIN s = 1..n /\ s \in [1..n -> Rides]
  OBVIOUS
<1>2. \A r \in S : at(r) \in 1..n /\ s[at(r)] = r
  BY <1>1 DEF Range
<1> HIDE DEF at
<1>3. IsFiniteSet(S)
  <2>1. s \in Surjection(1..n, Range(s))
    BY <1>1 DEF Surjection, Range
  <2>2. IsFiniteSet(Range(s))
    BY <2>1, <1>1, FS_Interval, FS_Surjection
  <2> QED BY <2>2, FS_Subset
<1>4. \A r \in S : /\ UpTo(s, S, r) = {x \in S : at(x) <= at(r)}
                   /\ IsFiniteSet(UpTo(s, S, r))
  <2> TAKE r \in S
  <2>1. UpTo(s, S, r) = {x \in S : at(x) <= at(r)}
    BY <1>1, <1>2 DEF UpTo
  <2>2. UpTo(s, S, r) \in SUBSET S
    BY <2>1
  <2> QED BY <2>1, <2>2, <1>3, FS_Subset
<1>5. \A r \in S : Cardinality(UpTo(s, S, r)) \in 1..Cardinality(S)
  <2> TAKE r \in S
  <2>1. UpTo(s, S, r) \in SUBSET S /\ r \in UpTo(s, S, r)
    BY <1>1, <1>2, <1>4
  <2>2. /\ Cardinality(UpTo(s, S, r)) \in Nat /\ Cardinality(S) \in Nat
        /\ Cardinality(UpTo(s, S, r)) <= Cardinality(S)
    BY <2>1, <1>3, <1>4, FS_Subset, FS_CardinalityType
  <2>3. Cardinality(UpTo(s, S, r)) # 0
    BY <2>1, <1>4, FS_EmptySet
  <2> QED BY <2>2, <2>3
<1>6. \A r, x \in S : at(r) < at(x) =>
         Cardinality(UpTo(s, S, r)) # Cardinality(UpTo(s, S, x))
  <2> TAKE r, x \in S
  <2> HAVE at(r) < at(x)
  <2>1. UpTo(s, S, r) \in SUBSET UpTo(s, S, x)
    BY <1>1, <1>2, <1>4
  <2>2. x \in UpTo(s, S, x) /\ x \notin UpTo(s, S, r)
    BY <1>1, <1>2, <1>4
  <2> QED BY <2>1, <2>2, <1>4, FS_Subset
<1>7. \A r, x \in S :
         Cardinality(UpTo(s, S, r)) = Cardinality(UpTo(s, S, x)) => r = x
  <2> TAKE r, x \in S
  <2>1. at(r) = at(x) \/ at(r) < at(x) \/ at(x) < at(r)
    BY <1>1, <1>2
  <2> QED BY <2>1, <1>2, <1>6
<1>8. place \in Injection(S, 1..Cardinality(S))
  BY <1>5, <1>7 DEF Injection, IsInjective
<1>9. place \in Surjection(S, 1..Cardinality(S))
  <2>1. Cardinality(S) \in Nat
    BY <1>3, FS_CardinalityType
  <2>2. /\ IsFiniteSet(1..Cardinality(S))
        /\ Cardinality(1..Cardinality(S)) = Cardinality(S)
    BY <2>1, FS_Interval
  <2> QED BY <1>8, <2>2, FS_Injection
<1> QED BY <1>3, <1>5, <1>7, <1>9 DEF Surjection

\* CompletedOf lists what is to be listed, each ride at its place.
LEMMA ListIsMine ==
    ASSUME OrderOk, NEW u
    PROVE  LET list == CompletedOf(rides, order, u)
           IN  /\ IsFiniteSet(Mine(u)) /\ Cardinality(Mine(u)) \in Nat
               /\ list \in Seq(Rides) /\ Len(list) = Cardinality(Mine(u))
               /\ DOMAIN list = 1..Cardinality(Mine(u))
               /\ \A r \in Mine(u) : /\ Place(u, r) \in 1..Cardinality(Mine(u))
                                     /\ list[Place(u, r)] = r
               /\ Range(list) = Mine(u)
<1> DEFINE m == Cardinality(Mine(u))
           list == [k \in 1..m |-> CHOOSE r \in Mine(u) : Place(u, r) = k]
<1>1. CompletedOf(rides, order, u) = list
  BY DEF CompletedOf, Mine, Place
<1>2. Mine(u) \in SUBSET Range(order) /\ Mine(u) \subseteq Rides
  BY DEF Mine, OrderOk
<1>3. IsFiniteSet(Mine(u)) /\ m \in Nat
  BY <1>2, Places, FS_CardinalityType DEF OrderOk
<1>4. /\ \A r \in Mine(u) : Place(u, r) \in 1..m
      /\ \A k \in 1..m : \E r \in Mine(u) : Place(u, r) = k
      /\ \A r, x \in Mine(u) : Place(u, r) = Place(u, x) => r = x
  BY <1>2, Places DEF OrderOk, Place
<1>5. \A k \in 1..m : list[k] \in Mine(u) /\ Place(u, list[k]) = k
  BY <1>4
<1>6. list \in Seq(Rides) /\ Len(list) = m /\ DOMAIN list = 1..m
  BY <1>2, <1>3, <1>5
<1>7. \A r \in Mine(u) : list[Place(u, r)] = r
  BY <1>4, <1>5
<1>8. Range(list) = Mine(u)
  BY <1>4, <1>5, <1>6, <1>7 DEF Range
<1> QED BY <1>1, <1>3, <1>4, <1>6, <1>7, <1>8

-----------------------------------------------------------------------------
(* What the panels say.                                                    *)

\* Only the rides with a fare count.
LEMMA SameFares ==
    ASSUME NEW t, NEW A, NEW B,
           {r \in A : t[r].fare # None} = {r \in B : t[r].fare # None}
    PROVE  SumOfFares(t, A) = SumOfFares(t, B)
BY DEF SumOfFares

\* What a consistent row says of who asked for the ride and who drove it.
LEMMA RowFacts ==
    ASSUME Inv, NEW r \in Rides
    PROVE  /\ rides[r].passenger \in Riders \cup {None}
           /\ rides[r].driver \in Drivers \cup {None}
           /\ rides[r].fare # None <=> rides[r].status = "COMPLETED"
           /\ rides[r].status = "COMPLETED" =>
                 rides[r].passenger \in Riders /\ rides[r].driver \in Drivers
           /\ rides[r].status = "REQUESTED" => rides[r].driver = None
           /\ rides[r] # NoRow /\ ~IsTerminal(rides[r].status) /\
              rides[r].status # "REQUESTED" => rides[r].driver \in Drivers
BY DEF Inv, RowsConsistent, RowConsistent, RideRow, RideStatus, NoRow, IsTerminal

LEMMA RiderPanels ==
    ASSUME Inv, OrderOk, NEW u \in Riders
    PROVE  LET stats  == RiderStats(rides, u)
               listed == CompletedOf(rides, order, u)
           IN  /\ stats.completed_trips = Len(listed)
               /\ stats.total_spent = SumOfFares(rides, Range(listed))
               /\ stats.completed_trips > 0 <=>
                     PassengerLastRide(rides, order, u) # None
               /\ stats.total_trips = GetPassengerTrips(rides, u)
<1> DEFINE stats  == RiderStats(rides, u)
           listed == CompletedOf(rides, order, u)
           asked  == {r \in Rides : rides[r].passenger = u}
<1>1. u \notin Drivers /\ u # None
  BY HistoryAssumption, NoneIsNone
<1>2. {r \in asked : rides[r].status = "COMPLETED"} = Mine(u)
  BY <1>1, RowFacts DEF Mine, OrderOk
<1>3. /\ stats.total_trips = Cardinality(asked)
      /\ stats.completed_trips = Cardinality(Mine(u))
      /\ stats.total_spent = SumOfFares(rides, asked)
  BY <1>2 DEF RiderStats
<1>4. /\ listed \in Seq(Rides) /\ Len(listed) = Cardinality(Mine(u))
      /\ Cardinality(Mine(u)) \in Nat /\ Range(listed) = Mine(u)
  BY ListIsMine
<1>5. SumOfFares(rides, asked) = SumOfFares(rides, Mine(u))
  <2>1. {r \in asked : rides[r].fare # None} = {r \in Mine(u) : rides[r].fare # None}
    BY <1>2, RowFacts
  <2> QED BY <2>1, SameFares
<1>6. stats.completed_trips > 0 <=> PassengerLastRide(rides, order, u) # None
  <2> HIDE DEF listed
  <2>1. PassengerLastRide(rides, order, u) =
           IF listed = <<>> THEN None ELSE Head(listed)
    BY DEF PassengerLastRide, listed
  <2>2. listed # <<>> => Head(listed) \in Rides
    BY <1>4, HeadTailProperties
  <2>3. listed = <<>> <=> Len(listed) = 0
    BY <1>4
  <2> QED BY <2>1, <2>2, <2>3, <1>3, <1>4, HistoryAssumption
<1>7. stats.total_trips = GetPassengerTrips(rides, u)
  BY <1>3 DEF GetPassengerTrips
<1> QED BY <1>3, <1>4, <1>5, <1>6, <1>7

LEMMA DashboardPanel ==
    ASSUME Inv, OrderOk
    PROVE  LET day    == DashboardStats(rides)
               driven == UNION {Range(DriverRides(rides, order, d)) : d \in Drivers}
           IN  /\ \A d \in Drivers :
                     day.pending_rides = Cardinality(ListRides(rides, d, None))
               /\ day.rides_today = Cardinality(driven)
               /\ day.revenue_today = SumOfFares(rides, driven)
<1> DEFINE day    == DashboardStats(rides)
           driven == UNION {Range(DriverRides(rides, order, d)) : d \in Drivers}
           pending == {r \in Rides : rides[r].status = "REQUESTED"}
           completed == {r \in Rides : rides[r].status = "COMPLETED"}
<1>1. /\ day.pending_rides = Cardinality(pending)
      /\ day.rides_today = Cardinality(completed)
      /\ day.revenue_today = SumOfFares(rides, completed)
  BY DEF DashboardStats
<1>2. \A d \in Drivers : ListRides(rides, d, None) = pending
  <2> TAKE d \in Drivers
  <2>1. d \notin Riders
    BY HistoryAssumption
  <2> QED BY <2>1, RowFacts DEF ListRides
<1>3. driven = completed
  <2>1. \A d \in Drivers : Range(DriverRides(rides, order, d)) = Mine(d)
    BY ListIsMine DEF DriverRides
  <2>2. \A r \in completed : rides[r].driver \in Drivers
    BY RowFacts
  <2>3. driven = UNION {Mine(d) : d \in Drivers}
    BY <2>1
  <2> QED BY <2>2, <2>3 DEF Mine, OrderOk
<1> QED BY <1>1, <1>2, <1>3

LEMMA EveryRideIsRead ==
    ASSUME Inv, NEW r \in Rides, rides[r] # NoRow, ~IsTerminal(rides[r].status)
    PROVE  \/ \A d \in Drivers : r \in ListRides(rides, d, None)
           \/ Cardinality({d \in Drivers : r \in GetRide(rides, d)}) = 1
<1>1. \A d \in Drivers : d \notin Riders /\ d # None
  BY HistoryAssumption, NoneIsNone
<1>2. CASE rides[r].status = "REQUESTED"
  BY <1>1, <1>2, RowFacts DEF ListRides
<1>3. CASE rides[r].status # "REQUESTED"
  <2>1. {d \in Drivers : r \in GetRide(rides, d)} = {rides[r].driver}
    BY <1>1, <1>3, RowFacts DEF GetRide
  <2> QED BY <2>1, FS_Singleton
<1> QED BY <1>2, <1>3

LEMMA InvViewsAgree == Inv /\ OrderOk => ViewsAgree
BY RiderPanels, DashboardPanel, EveryRideIsRead DEF ViewsAgree

-----------------------------------------------------------------------------
(* The rides go on.                                                        *)

\* A ride enters the order: nobody is left out, and nobody overtakes.
LEMMA InsertedFacts ==
    ASSUME OrderOk, NEW r \in Rides, r \notin Range(order),
           NEW i \in 1..(Len(order) + 1)
    PROVE  LET s == InsertedAt(i, r)
           IN  /\ s \in Seq(Rides)
               /\ \A j, k \in DOMAIN s : s[j] = s[k] => j = k
               /\ Range(s) = Range(order) \cup {r}
               /\ \A S, x : UpTo(order, S, x) \subseteq UpTo(s, S, x)
<1> DEFINE n == Len(order)
           s == InsertedAt(i, r)
           pos(j) == IF j < i THEN j ELSE j + 1
<1>1. n \in Nat /\ DOMAIN order = 1..n /\ \A j \in 1..n : order[j] \in Rides
  BY DEF OrderOk
<1>2. /\ s \in Seq(Rides) /\ Len(s) = n + 1 /\ DOMAIN s = 1..(n + 1)
      /\ s[i] = r
      /\ \A j \in 1..n : pos(j) \in 1..(n + 1) /\ s[pos(j)] = order[j]
  <2> DEFINE front == SubSeq(order, 1, i - 1)
             back  == SubSeq(order, i, n)
  <2>1. /\ front \in Seq(Rides) /\ Len(front) = i - 1
        /\ \A j \in 1..(i - 1) : front[j] = order[j]
    BY <1>1, SubSeqProperties
  <2>2. /\ back \in Seq(Rides) /\ Len(back) = n - i + 1
        /\ \A j \in 1..(n - i + 1) : back[j] = order[i + j - 1]
    BY <1>1, SubSeqProperties
  <2>3. s = front \o <<r>> \o back
    BY DEF InsertedAt
  <2> HIDE DEF front, back, s
  <2>4. /\ front \o <<r>> \in Seq(Rides) /\ Len(front \o <<r>>) = i
        /\ \A j \in 1..(i - 1) : (front \o <<r>>)[j] = order[j]
        /\ (front \o <<r>>)[i] = r
    BY <1>1, <2>1
  <2>5. /\ s \in Seq(Rides) /\ Len(s) = n + 1
        /\ \A j \in 1..i : s[j] = (front \o <<r>>)[j]
        /\ \A j \in (i + 1)..(n + 1) : s[j] = order[j - 1]
    <3>1. /\ s \in Seq(Rides) /\ Len(s) = i + (n - i + 1)
          /\ \A j \in 1..(i + (n - i + 1)) :
                s[j] = IF j <= i THEN (front \o <<r>>)[j] ELSE back[j - i]
      BY <2>2, <2>3, <2>4, <1>1, ConcatProperties
    <3>2. \A j \in (i + 1)..(n + 1) : s[j] = order[j - 1]
      <4> TAKE j \in (i + 1)..(n + 1)
      <4>1. s[j] = back[j - i] /\ j - i \in 1..(n - i + 1)
        BY <1>1, <3>1
      <4>2. back[j - i] = order[i + (j - i) - 1]
        BY <4>1, <2>2
      <4> QED BY <4>1, <4>2, <1>1
    <3>3. i + (n - i + 1) = n + 1 /\ \A j \in 1..i : j \in 1..(n + 1) /\ j <= i
      BY <1>1
    <3> QED BY <3>1, <3>2, <3>3
  <2>6. \A j \in 1..n : pos(j) \in 1..(n + 1) /\ s[pos(j)] = order[j]
    BY <1>1, <2>4, <2>5
  <2> QED BY <1>1, <2>4, <2>5, <2>6
<1> HIDE DEF s
<1>3. \A j \in 1..(n + 1) : j = i \/ \E k \in 1..n : j = pos(k)
  <2> TAKE j \in 1..(n + 1)
  <2>1. CASE j < i
    BY <2>1, <1>1
  <2>2. CASE j > i
    <3>1. j - 1 \in 1..n /\ j = pos(j - 1)
      BY <2>2, <1>1
    <3> QED BY <3>1
  <2> QED BY <2>1, <2>2, <1>1
<1>4. \A j, k \in 1..n : (j <= k => pos(j) <= pos(k)) /\ (order[j] = order[k] => j = k)
  BY <1>1 DEF OrderOk
<1>5. \A j \in 1..n : order[j] # r
  BY <1>1 DEF Range
<1> HIDE DEF pos
<1>6. \A j, k \in DOMAIN s : s[j] = s[k] => j = k
  <2> TAKE j, k \in DOMAIN s
  <2> HAVE s[j] = s[k]
  <2>1. /\ j = i \/ \E a \in 1..n : j = pos(a)
        /\ k = i \/ \E b \in 1..n : k = pos(b)
    BY <1>2, <1>3
  <2>2. \A a \in 1..n : s[pos(a)] = order[a] /\ order[a] # s[i]
    BY <1>2, <1>5
  <2>3. \A a, b \in 1..n : order[a] = order[b] => a = b
    BY <1>4
  <2> QED BY <2>1, <2>2, <2>3
<1>7. Range(s) = Range(order) \cup {r}
  <2>1. \A x \in Range(s) : x \in Range(order) \cup {r}
    <3> SUFFICES ASSUME NEW j \in 1..(n + 1)
                 PROVE  s[j] \in Range(order) \cup {r}
      BY <1>2 DEF Range
    <3> QED BY <1>1, <1>2, <1>3 DEF Range
  <2>2. i \in DOMAIN s /\ \A j \in 1..n : pos(j) \in DOMAIN s
    BY <1>1, <1>2
  <2>3. \A x \in Range(order) \cup {r} : x \in Range(s)
    BY <1>1, <1>2, <2>2 DEF Range
  <2> QED BY <2>1, <2>3
<1>8. \A S, x : UpTo(order, S, x) \subseteq UpTo(s, S, x)
  <2> TAKE S, x
  <2>1. \A y \in UpTo(order, S, x) :
           /\ y \in S
           /\ \E j, k \in 1..n : j <= k /\ order[j] = y /\ order[k] = x
    BY <1>1 DEF UpTo
  <2>2. \A j, k \in 1..n : j <= k =>
           /\ pos(j) \in 1..(n + 1) /\ pos(k) \in 1..(n + 1)
           /\ pos(j) <= pos(k) /\ s[pos(j)] = order[j] /\ s[pos(k)] = order[k]
    BY <1>2, <1>4
  <2>3. \A y \in S :
           (\E a, b \in 1..(n + 1) : a <= b /\ s[a] = y /\ s[b] = x)
              => y \in UpTo(s, S, x)
    BY <1>2 DEF UpTo
  <2> QED BY <2>1, <2>2, <2>3
<1> QED BY <1>2, <1>6, <1>7, <1>8 DEF s

\* A reading survives whatever only adds to the lists and keeps their order.
LEMMA ReadingSurvives ==
    ASSUME IInv, OrderOk', UNCHANGED page,
           \A u : Mine(u) \subseteq Mine(u)',
           \A u, x : UpTo(order, Mine(u), x) \subseteq UpTo(order, Mine(u), x)'
    PROVE  PageOk'
<1> DEFINE u == page.rider
<1>1. /\ IsFiniteSet(Mine(u)) /\ IsFiniteSet(Mine(u)')
      /\ Cardinality(Mine(u)) \in Nat /\ Cardinality(Mine(u)') \in Nat
  <2>1. /\ order \in Seq(Rides) /\ order' \in Seq(Rides)
        /\ \A i, j \in DOMAIN order : order[i] = order[j] => i = j
        /\ \A i, j \in DOMAIN order' : order'[i] = order'[j] => i = j
        /\ Mine(u) \in SUBSET Range(order) /\ Mine(u)' \in SUBSET Range(order')
    BY DEF IInv, OrderOk, Mine
  <2> QED BY <2>1, Places, FS_CardinalityType
<1>2. Cardinality(Mine(u)) <= Cardinality(Mine(u)')
  BY <1>1, FS_Subset
<1>3. \A x : /\ Place(u, x) \in Nat /\ Place(u, x)' \in Nat
             /\ Place(u, x) <= Place(u, x)'
  <2> TAKE x
  <2>1. UpTo(order, Mine(u), x)' \in SUBSET Mine(u)'
    BY DEF UpTo
  <2>2. UpTo(order, Mine(u), x) \in SUBSET UpTo(order, Mine(u), x)'
    OBVIOUS
  <2>3. IsFiniteSet(UpTo(order, Mine(u), x)')
    BY <2>1, <1>1, FS_Subset
  <2> QED BY <2>2, <2>3, FS_Subset, FS_CardinalityType DEF Place
<1>4. \A o \in Nat : Ahead(o) => Ahead(o)'
  BY <1>3 DEF Ahead
<1>5. page' = page /\ PageOk
  BY DEF IInv
<1>6. page.offset \in Nat /\ page.total \in Nat /\ page.offset + Limit \in Nat
  BY <1>5, HistoryAssumption DEF PageOk, PageType
<1>7. page.due \subseteq Mine(u) => page.due \subseteq Mine(u)'
  OBVIOUS
<1> QED BY <1>1, <1>2, <1>4, <1>5, <1>6, <1>7 DEF PageOk

LEMMA RideStepInv == IInv /\ RideStep => IInv'
<1> SUFFICES ASSUME IInv, UNCHANGED <<order, page>>, NEW r \in Rides,
                    Request(r) \/ Accept(r) \/ Advance(r) \/ Cancel(r)
             PROVE  IInv'
  BY DEF RideStep
<1>1. /\ Inv' /\ ~IsTerminal(rides[r].status)
      /\ \A x \in Rides : x # r => rides'[x] = rides[x]
  BY EventKeepsInv DEF IInv
<1>2. rides'[r].status # "COMPLETED"
  <2>1. rides \in [Rides -> RideRow] /\ rides[r] \in RideRow
    BY DEF IInv, Inv
  <2>2. CASE Request(r)
    BY <2>1, <2>2 DEF Request, RequestedRow
  <2>3. CASE Accept(r)
    <3>1. PICK d : rides' = [rides EXCEPT ![r].status = "ACCEPTED", ![r].driver = d]
      BY <2>3 DEF Accept
    <3> QED BY <2>1, <3>1 DEF RideRow
  <2>4. CASE Advance(r)
    BY <2>1, <2>4 DEF Advance, RideRow
  <2>5. CASE Cancel(r)
    <3>1. PICK u : rides' = [rides EXCEPT ![r].status = "CANCELLED",
                                          ![r].cancelled_by = u]
      BY <2>5 DEF Cancel
    <3> QED BY <2>1, <3>1 DEF RideRow
  <2> QED BY <2>2, <2>3, <2>4, <2>5
<1>3. \A x \in Rides : /\ rides'[x].status = "COMPLETED" <=> rides[x].status = "COMPLETED"
                       /\ rides[x].status = "COMPLETED" => rides'[x] = rides[x]
  BY <1>1, <1>2 DEF IsTerminal
<1>4. OrderOk'
  BY <1>3 DEF IInv, OrderOk
<1>5. Range(order) \subseteq Rides
  BY DEF IInv, OrderOk
<1>6. \A u : Mine(u)' = Mine(u)
  BY <1>3, <1>5 DEF Mine
<1>7. \A u, x : UpTo(order, Mine(u), x)' = UpTo(order, Mine(u), x)
  BY <1>6
<1>8. PageOk'
  BY <1>4, <1>6, <1>7, ReadingSurvives
<1> QED BY <1>1, <1>4, <1>8 DEF IInv

LEMMA CompleteStepInv == IInv /\ CompleteStep => IInv'
<1> SUFFICES ASSUME IInv, UNCHANGED page, NEW r \in Rides, Complete(r),
                    NEW i \in 1..(Len(order) + 1), order' = InsertedAt(i, r)
             PROVE  IInv'
  BY DEF CompleteStep
<1>1. /\ Inv' /\ ~IsTerminal(rides[r].status)
      /\ \A x \in Rides : x # r => rides'[x] = rides[x]
  BY EventKeepsInv DEF IInv
<1>2. rides'[r].status = "COMPLETED"
  BY DEF IInv, Inv, Complete, RideRow
<1>3. Range(order) = {x \in Rides : rides[x].status = "COMPLETED"}
  BY DEF IInv, OrderOk
<1>4. r \notin Range(order)
  BY <1>1, <1>3 DEF IsTerminal
<1>5. /\ order' \in Seq(Rides)
      /\ \A j, k \in DOMAIN order' : order'[j] = order'[k] => j = k
      /\ Range(order') = Range(order) \cup {r}
      /\ \A S, x : UpTo(order, S, x) \subseteq UpTo(order', S, x)
  BY <1>4, InsertedFacts DEF IInv
<1>6. OrderOk'
  BY <1>1, <1>2, <1>3, <1>5 DEF OrderOk
<1>7. \A u : Mine(u) \subseteq Mine(u)'
  BY <1>1, <1>3, <1>4, <1>5 DEF Mine
<1>8. \A u, x : UpTo(order, Mine(u), x) \subseteq UpTo(order, Mine(u), x)'
  <2> TAKE u, x
  <2>1. UpTo(order, Mine(u), x) \subseteq UpTo(order', Mine(u), x)
    BY <1>5
  <2>2. UpTo(order', Mine(u), x) \subseteq UpTo(order', Mine(u)', x)
    BY <1>7 DEF UpTo
  <2> QED BY <2>1, <2>2
<1>9. PageOk'
  BY <1>6, <1>7, <1>8, ReadingSurvives
<1> QED BY <1>1, <1>6, <1>9 DEF IInv

-----------------------------------------------------------------------------
(* The reading goes on.                                                    *)

\* The rows of a page are the rides at the places it asks for.
LEMMA PageRows ==
    ASSUME OrderOk, NEW u, NEW offset \in Nat
    PROVE  LET n    == Cardinality(Mine(u))
               rows == RiderRidesPage(rides, order, u, Limit, offset)
           IN  /\ n \in Nat /\ Range(rows) \subseteq Rides
               /\ Len(rows) = IF n < offset THEN 0
                              ELSE IF n < offset + Limit THEN n - offset
                              ELSE Limit
               /\ \A r \in Mine(u) :
                     Place(u, r) \in (offset + 1)..(offset + Limit) => r \in Range(rows)
               /\ \A r \in Mine(u) : Place(u, r) \in 1..n
<1> DEFINE n    == Cardinality(Mine(u))
           list == CompletedOf(rides, order, u)
           last == Min({offset + Limit, Len(list)})
           rows == SubSeq(list, offset + 1, last)
<1>1. RiderRidesPage(rides, order, u, Limit, offset) = rows
  BY DEF RiderRidesPage
<1>2. /\ n \in Nat /\ list \in Seq(Rides) /\ Len(list) = n /\ DOMAIN list = 1..n
      /\ \A r \in Mine(u) : Place(u, r) \in 1..n /\ list[Place(u, r)] = r
  BY ListIsMine
<1> HIDE DEF n, list
<1>3. last = IF n < offset + Limit THEN n ELSE offset + Limit
  <2> DEFINE a == offset + Limit
  <2>1. a \in Nat
    BY HistoryAssumption
  <2> HIDE DEF a
  <2>2. Min({a, n}) = IF n < a THEN n ELSE a
    BY <1>2, <2>1 DEF Min
  <2> QED BY <1>2, <2>2 DEF a
<1>4. last \in Nat /\ last <= n /\ last <= offset + Limit /\ Limit \in Nat \ {0}
  BY <1>2, <1>3, HistoryAssumption
<1> HIDE DEF last
<1>5. \A k \in (offset + 1)..last : list[k] \in Rides
  BY <1>2, <1>4
<1>6. /\ rows \in Seq(Rides)
      /\ Len(rows) = IF offset + 1 <= last THEN last - (offset + 1) + 1 ELSE 0
      /\ \A k \in 1..(last - (offset + 1) + 1) : rows[k] = list[(offset + 1) + k - 1]
  BY <1>4, <1>5, SubSeqProperties
<1> HIDE DEF rows
<1>7. Range(rows) \subseteq Rides
  BY <1>6 DEF Range
<1>8. Len(rows) = IF n < offset THEN 0
                  ELSE IF n < offset + Limit THEN n - offset ELSE Limit
  BY <1>2, <1>3, <1>4, <1>6
<1>9. ASSUME NEW r \in Mine(u), Place(u, r) \in (offset + 1)..(offset + Limit)
      PROVE  r \in Range(rows)
  <2> DEFINE k == Place(u, r) - offset
  <2>1. Place(u, r) \in 1..n /\ Place(u, r) \in (offset + 1)..last
    BY <1>2, <1>3, <1>4, <1>9
  <2>2. k \in 1..(last - (offset + 1) + 1) /\ (offset + 1) + k - 1 = Place(u, r)
    BY <2>1, <1>2, <1>4
  <2>3. rows[k] = r /\ k \in DOMAIN rows
    BY <2>1, <2>2, <1>2, <1>4, <1>6
  <2> QED BY <2>3 DEF Range
<1> QED BY <1>1, <1>2, <1>7, <1>8, <1>9 DEF n

\* A step of the reading leaves the lists alone.
LEMMA ListsStand ==
    ASSUME UNCHANGED <<rides, order>>
    PROVE  /\ Inv' <=> Inv
           /\ OrderOk' <=> OrderOk
           /\ \A u : Mine(u)' = Mine(u)
           /\ \A u, x : Place(u, x)' = Place(u, x)
BY DEF Inv, RowsConsistent, OrderOk, Mine, Place

LEMMA OpenInv == IInv /\ (\E u \in Riders : Open(u)) => IInv'
<1> SUFFICES ASSUME IInv, NEW u \in Riders, Open(u)
             PROVE  IInv'
  OBVIOUS
<1> DEFINE due == {r \in Rides : /\ rides[r].passenger = u
                                /\ rides[r].status = "COMPLETED"}
<1>1. page' = [pc |-> "count", rider |-> u, offset |-> 0, total |-> 0,
               got |-> 0, seen |-> {}, due |-> due]
  BY DEF Open, NoPage
<1>2. UNCHANGED <<rides, order>>
  BY DEF Open
<1>3. due \subseteq Mine(u) /\ due \subseteq Rides
  BY DEF IInv, OrderOk, Mine
<1>4. \A r \in due : Place(u, r) > 0
  BY <1>3, ListIsMine DEF IInv
<1> HIDE DEF due
<1>5. PageOk'
  <2>1. page' \in PageType
    BY <1>1, <1>3 DEF PageType
  <2>2. Mine(page.rider)' = Mine(u)
    BY <1>1, <1>2 DEF Mine
  <2>3. Ahead(page.offset)'
    BY <1>1, <1>2, <1>4, ListsStand DEF Ahead
  <2> QED BY <1>1, <1>3, <2>1, <2>2, <2>3 DEF PageOk
<1> QED BY <1>2, <1>5, ListsStand DEF IInv

LEMMA CountInv == IInv /\ Count => IInv'
<1> SUFFICES ASSUME IInv, Count
             PROVE  IInv'
  OBVIOUS
<1> DEFINE u == page.rider
           n == RiderRidesTotal(rides, u)
<1>0. UNCHANGED <<rides, order>> /\ page.pc = "count" /\ page \in PageType
      /\ u \in Riders /\ page.due \subseteq Mine(u) /\ Ahead(page.offset)
  BY DEF Count, IInv, PageOk
<1>1. page' = [pc |-> "rows", rider |-> u, offset |-> page.offset, total |-> n,
               got |-> page.got, seen |-> page.seen, due |-> page.due]
  BY <1>0 DEF Count, PageType
<1>2. n \in Nat /\ n <= Cardinality(Mine(u))
  <2> DEFINE asked == {r \in Rides : rides[r].passenger = u /\ rides[r].status = "COMPLETED"}
  <2>1. asked \in SUBSET Mine(u)
    BY DEF IInv, OrderOk, Mine
  <2>2. IsFiniteSet(Mine(u))
    BY ListIsMine DEF IInv
  <2>3. n = Cardinality(asked)
    BY DEF RiderRidesTotal
  <2> QED BY <2>1, <2>2, <2>3, FS_Subset, FS_CardinalityType
<1> HIDE DEF n
<1>3. PageOk'
  <2>1. page' \in PageType
    BY <1>0, <1>1, <1>2 DEF PageType
  <2>2. Mine(page.rider)' = Mine(u)
    BY <1>0, <1>1 DEF Mine
  <2>3. Ahead(page.offset)'
    BY <1>0, <1>1, ListsStand DEF Ahead
  <2> QED BY <1>0, <1>1, <1>2, <2>1, <2>2, <2>3 DEF PageOk
<1> QED BY <1>0, <1>3, ListsStand DEF IInv

LEMMA RowsInv == IInv /\ Rows => IInv'
<1> SUFFICES ASSUME IInv, Rows
             PROVE  IInv'
  OBVIOUS
<1> DEFINE u == page.rider
           n == Cardinality(Mine(u))
           rows == RiderRidesPage(rides, order, u, Limit, page.offset)
<1>0. UNCHANGED <<rides, order>> /\ page.pc = "rows" /\ page \in PageType
      /\ u \in Riders /\ page.due \subseteq Mine(u) /\ Ahead(page.offset)
      /\ page.total <= n /\ page.offset \in Nat /\ page.total \in Nat
  BY DEF Rows, IInv, PageOk, PageType
<1>1. page' = [pc |-> "answered", rider |-> u, offset |-> page.offset,
               total |-> page.total, got |-> Len(rows),
               seen |-> page.seen \cup Range(rows), due |-> page.due]
  BY <1>0 DEF Rows, PageType
<1>2. /\ n \in Nat /\ Range(rows) \subseteq Rides
      /\ Len(rows) = IF n < page.offset THEN 0
                     ELSE IF n < page.offset + Limit THEN n - page.offset
                     ELSE Limit
      /\ \A r \in Mine(u) :
            Place(u, r) \in (page.offset + 1)..(page.offset + Limit) => r \in Range(rows)
      /\ \A r \in Mine(u) : Place(u, r) \in 1..n
  BY <1>0, PageRows DEF IInv
<1> HIDE DEF rows, n
<1>3. Len(rows) \in Nat /\ Len(rows) <= Limit
  BY <1>0, <1>2, HistoryAssumption
<1>4. \A r \in page.due :
         \/ r \in page.seen \cup Range(rows)
         \/ /\ Place(u, r) > page.offset + Limit
            /\ Place(u, r) \in 1..n
  <2> TAKE r \in page.due
  <2>1. Place(u, r) \in 1..n
    BY <1>0, <1>2
  <2>2. r \in page.seen \/ Place(u, r) > page.offset
    BY <1>0 DEF Ahead
  <2>3. CASE Place(u, r) \in (page.offset + 1)..(page.offset + Limit)
    BY <2>3, <1>0, <1>2
  <2>4. CASE Place(u, r) \notin (page.offset + 1)..(page.offset + Limit)
    BY <2>1, <2>2, <2>4, <1>0, <1>2, HistoryAssumption
  <2> QED BY <2>3, <2>4
<1>5. Len(rows) < Limit => /\ page.due \subseteq page.seen \cup Range(rows)
                          /\ page.total <= page.offset + Len(rows)
  <2> HAVE Len(rows) < Limit
  <2>1. n < page.offset + Limit /\ n <= page.offset + Len(rows)
    BY <1>0, <1>2, HistoryAssumption
  <2>2. \A k \in 1..n : ~(k > page.offset + Limit)
    BY <2>1, <1>0, <1>2, HistoryAssumption
  <2> QED BY <2>1, <2>2, <1>0, <1>2, <1>3, <1>4
<1>6. PageOk'
  <2>1. page' \in PageType
    BY <1>0, <1>1, <1>2, <1>3 DEF PageType
  <2>2. Mine(page.rider)' = Mine(page.rider)
    BY <1>0, <1>1 DEF Mine
  <2>3. Ahead(page.offset + Limit)'
    BY <1>0, <1>1, <1>4, ListsStand DEF Ahead
  <2> QED BY <1>0, <1>1, <1>3, <1>5, <2>1, <2>2, <2>3 DEF PageOk
<1> QED BY <1>0, <1>6, ListsStand DEF IInv

LEMMA NextPageInv == IInv /\ NextPage => IInv'
<1> SUFFICES ASSUME IInv, NextPage
             PROVE  IInv'
  OBVIOUS
<1>0. UNCHANGED <<rides, order>> /\ page.pc = "answered" /\ page \in PageType
      /\ page.rider \in Riders /\ page.due \subseteq Mine(page.rider)
      /\ Ahead(page.offset + Limit) /\ page.offset \in Nat
  BY DEF NextPage, IInv, PageOk, PageType
<1>1. page' = [pc |-> "count", rider |-> page.rider, offset |-> page.offset + Limit,
               total |-> page.total, got |-> page.got, seen |-> page.seen,
               due |-> page.due]
  BY <1>0 DEF NextPage, PageType
<1>2. PageOk'
  <2>1. page' \in PageType
    BY <1>0, <1>1, HistoryAssumption DEF PageType
  <2>2. Mine(page.rider)' = Mine(page.rider)
    BY <1>0, <1>1 DEF Mine
  <2>3. Ahead(page.offset)'
    BY <1>0, <1>1, ListsStand DEF Ahead
  <2> QED BY <1>0, <1>1, <2>1, <2>2, <2>3 DEF PageOk
<1> QED BY <1>0, <1>2, ListsStand DEF IInv

LEMMA LastPageInv == IInv /\ LastPage => IInv'
<1> SUFFICES ASSUME IInv, LastPage
             PROVE  IInv'
  OBVIOUS
<1>0. UNCHANGED <<rides, order>> /\ page.pc = "answered" /\ page \in PageType
      /\ page.got < Limit /\ page.rider \in Riders
      /\ page.due \subseteq Mine(page.rider) /\ page.due \subseteq page.seen
      /\ page.total <= page.offset + page.got
  BY DEF LastPage, IInv, PageOk, PageType
<1>1. page' = [page EXCEPT !.pc = "over"]
  BY DEF LastPage
<1>2. page'.rider = page.rider /\ Mine(page.rider)' = Mine(page.rider)
  BY <1>0, <1>1 DEF Mine, PageType
<1>3. PageOk'
  BY <1>0, <1>1, <1>2 DEF PageOk, PageType
<1> QED BY <1>0, <1>3, ListsStand DEF IInv

LEMMA CloseHistoryInv == IInv /\ CloseHistory => IInv'
<1> SUFFICES ASSUME IInv, CloseHistory
             PROVE  IInv'
  OBVIOUS
<1>1. UNCHANGED <<rides, order>> /\ page' = NoPage
  BY DEF CloseHistory
<1>2. PageOk'
  BY <1>1 DEF NoPage, PageOk, PageType
<1> QED BY <1>1, <1>2, ListsStand DEF IInv

LEMMA HistoryInitInv == HistoryInit => IInv
<1> SUFFICES ASSUME HistoryInit
             PROVE  IInv
  OBVIOUS
<1>1. Inv
  BY InitInv DEF HistoryInit
<1>2. OrderOk
  <2>1. order = <<>> /\ \A r \in Rides : rides[r].status = "NO_ROW"
    BY DEF HistoryInit, Init, NoRow
  <2>2. Range(order) = {}
    BY <2>1 DEF Range
  <2> QED BY <2>1, <2>2 DEF OrderOk
<1>3. PageOk
  BY DEF HistoryInit, NoPage, PageOk, PageType
<1> QED BY <1>1, <1>2, <1>3 DEF IInv

LEMMA HistoryNextInv == IInv /\ [HistoryNext]_historyVars => IInv'
<1> SUFFICES ASSUME IInv, [HistoryNext]_historyVars
             PROVE  IInv'
  OBVIOUS
<1>1. CASE UNCHANGED historyVars
  <2>1. UNCHANGED <<rides, order>> /\ page' = page
    BY <1>1 DEF historyVars
  <2>2. PageOk'
    BY <2>1, ListsStand, ReadingSurvives DEF IInv
  <2> QED BY <2>1, <2>2, ListsStand DEF IInv
<1> QED BY <1>1, RideStepInv, CompleteStepInv, OpenInv, CountInv, RowsInv,
           NextPageInv, LastPageInv, CloseHistoryInv DEF HistoryNext

-----------------------------------------------------------------------------
(* What it gives.                                                          *)

(* Whatever is read, and whenever, the rides below the readers are those of *)
(* the abstract life cycle: what is proved of it holds here.               *)
THEOREM HistoryIsLifecycle == HistorySpec => Spec
<1>1. HistoryInit => Init
  BY DEF HistoryInit
<1>2. [HistoryNext]_historyVars => [Next]_rides
  BY DEF HistoryNext, historyVars, RideStep, CompleteStep, Open, Count, Rows,
         NextPage, LastPage, CloseHistory, Next
<1> QED BY <1>1, <1>2, PTL DEF HistorySpec, Spec

(* In particular no ride that a page or a panel has shown as ended is shown *)
(* otherwise later.                                                        *)
THEOREM HistorySettles == HistorySpec => Settled
BY HistoryIsLifecycle, LifecycleSettled, PTL

(* A history read page by page, two statements to a page, while rides go on *)
(* being completed shows every ride that was there when it was opened.     *)
THEOREM NothingIsMissed == HistorySpec => []PagesMissNothing
<1>1. IInv => PagesMissNothing
  BY DEF IInv, PageOk, PagesMissNothing
<1> QED BY <1>1, HistoryInitInv, HistoryNextInv, PTL DEF HistorySpec

(* Statistics, lists and dashboard agree at every moment, though each has   *)
(* a WHERE of its own.                                                     *)
THEOREM PanelsAgree == HistorySpec => []ViewsAgree
<1>1. IInv => ViewsAgree
  BY InvViewsAgree DEF IInv
<1> QED BY <1>1, HistoryInitInv, HistoryNextInv, PTL DEF HistorySpec
=============================================================================
