---------------------------- MODULE Suspensions ----------------------------
(***************************************************************************)
(* Suspensions and bans: the column suspended_until of users and drivers,  *)
(* the table suspension_history (migration 000006) and the handlers of     *)
(* internal/api/admin.go that write them, one action per statement.  A ban *)
(* and the lifting of one are two statements in no transaction, and the    *)
(* second may fail unnoticed: it is "non-fatal".                           *)
(*                                                                         *)
(* suspension_reason, updated_at, the search by name and the paging of the *)
(* lists are left out, and so are the 400s, which are given before any     *)
(* statement.                                                              *)
(***************************************************************************)
EXTENDS Naturals, Sequences, FiniteSets

CONSTANTS
    Passengers,     \* ids in users
    Drivers,        \* ids in drivers
    Strangers,      \* UUIDs in neither table
    Durations,      \* the lengths of bans an administrator may ask for
    MaxDuration,    \* the longest one: the duration decoded is an int
    Requests,       \* the requests the server can be serving at a time
    None,           \* SQL NULL
    Horizon,        \* bound: the last moment of the clock
    MaxBans,        \* bound: bans of one passenger
    Faults          \* may statements fail, may the process die

Indefinite == 9999      \* the interval of suspendRow

ASSUME SuspensionsAssumption ==
    /\ Passengers \cap Drivers = {}
    /\ Strangers \cap (Passengers \cup Drivers) = {}
    /\ None \notin Passengers \cup Drivers \cup Strangers \cup Nat
    /\ Horizon \in Nat
    /\ MaxBans \in Nat
    /\ MaxDuration \in Nat
    /\ Durations \subseteq 1..MaxDuration
    /\ Faults \in BOOLEAN

VARIABLES
    until,          \* suspended_until of each account
    history,        \* each passenger's rows, in the order of suspended_at
    now,
    req,            \* the requests being served
    banned,         \* accounts whose suspended_until a ban wrote last
    overlapped,     \* passengers two of whose requests have overlapped
    lost            \* passengers of whom a second statement never ran

vars == <<until, history, now, req, banned, overlapped, lost>>

Accounts == Passengers \cup Drivers
Ops      == {"suspend", "unsuspend", "ban"}

\* until is what the first statement returned.
RequestState ==
    [op     : Ops \cup {"none"},
     target : Accounts \cup Strangers \cup {None},
     length : Durations \cup {0},
     until  : Nat \cup {None},
     pc     : {"idle", "update", "history", "done"},
     code   : {0, 200, 404, 500}]

Idle == [op |-> "none", target |-> None, length |-> 0, until |-> None,
         pc |-> "idle", code |-> 0]

TypeOK ==
    /\ until \in [Accounts -> Nat \cup {None}]
    /\ history \in [Passengers -> Seq([until : Nat, lifted : Nat \cup {None}])]
    /\ now \in 0..Horizon
    /\ req \in [Requests -> RequestState]
    /\ banned \subseteq Accounts
    /\ overlapped \subseteq Passengers
    /\ lost \subseteq Passengers

Init ==
    /\ until = [u \in Accounts |-> None]
    /\ history = [u \in Passengers |-> << >>]
    /\ now = 0
    /\ req = [q \in Requests |-> Idle]
    /\ banned = {}
    /\ overlapped = {}
    /\ lost = {}

-----------------------------------------------------------------------------
(* What suspended_until means.  A comparison with NULL is not true.        *)

After(t) == t # None /\ t > now

\* suspendGuard (403 for a ride, an acceptance, going online) and the filter
\* of ListDrivers and ListPassengers for the suspended.
Suspended(u) == After(until[u])

\* BanHistory: ORDER BY suspended_at DESC.
BanHistory(u) ==
    [i \in 1..Len(history[u]) |-> history[u][Len(history[u]) + 1 - i]]

-----------------------------------------------------------------------------
(* Arrival and answer.                                                     *)

BansAsked(u) ==
    Len(history[u]) + Cardinality({q \in Requests :
                                      req[q].op = "ban" /\ req[q].target = u})

Submit(q) ==
    /\ req[q] = Idle
    /\ \E op \in Ops, u \in Accounts \cup Strangers, n \in Durations \cup {0} :
          /\ (n # 0) <=> (op = "ban")
          /\ op = "ban" => u \notin Drivers
          /\ op = "ban" /\ u \in Passengers => BansAsked(u) < MaxBans
          /\ req' = [req EXCEPT ![q] = [Idle EXCEPT
                        !.op = op, !.target = u, !.length = n, !.pc = "update"]]
          /\ overlapped' = IF \E p \in Requests : req[p].target = u
                           THEN overlapped \cup ({u} \cap Passengers)
                           ELSE overlapped
    /\ UNCHANGED <<until, history, now, banned, lost>>

\* What the request was about is forgotten with the answer.
Reply(q, code) ==
    req' = [req EXCEPT ![q] = [Idle EXCEPT !.pc = "done", !.code = code]]

Close(q) ==
    /\ req[q].pc = "done"
    /\ req' = [req EXCEPT ![q] = Idle]
    /\ UNCHANGED <<until, history, now, banned, overlapped, lost>>

-----------------------------------------------------------------------------
(* The statements.                                                         *)

NewUntil(q) == CASE req[q].op = "suspend"   -> now + Indefinite
                 [] req[q].op = "unsuspend" -> None
                 [] req[q].op = "ban"       -> now + req[q].length

\* Mutant: drivers too.
RecordedAlways(q) == req[q].op # "suspend"

\* A second statement follows a ban, and the lifting of a passenger's.
Recorded(q) == req[q].op # "suspend" /\ req[q].target \in Passengers

Losing(q) == lost' = IF Recorded(q) THEN lost \cup {req[q].target} ELSE lost

UpdateAccount(q) ==
    /\ req[q].pc = "update"
    /\ req[q].target \in Accounts
    /\ until' = [until EXCEPT ![req[q].target] = NewUntil(q)]
    /\ banned' = IF req[q].op = "ban" THEN banned \cup {req[q].target}
                 ELSE banned \ {req[q].target}
    /\ \/ /\ IF Recorded(q)
             THEN req' = [req EXCEPT ![q] =
                     [@ EXCEPT !.pc = "history", !.until = NewUntil(q)]]
             ELSE Reply(q, 200)
          /\ UNCHANGED lost
       \/ Faults /\ Reply(q, 500) /\ Losing(q)
    /\ UNCHANGED <<history, now, overlapped>>

NotFound(q) ==
    /\ req[q].pc = "update"
    /\ req[q].target \in Strangers
    /\ Reply(q, 404)
    /\ UNCHANGED <<until, history, now, banned, overlapped, lost>>

Open(u) == {i \in DOMAIN history[u] : history[u][i].lifted = None}

\* Mutants: the row with the smallest suspended_until; rows lifted before.
LiftedFirst(u) ==
    [i \in DOMAIN history[u] |->
        IF i \in Open(u)
           /\ \A j \in Open(u) : history[u][j].until >= history[u][i].until
        THEN [history[u][i] EXCEPT !.lifted = now]
        ELSE history[u][i]]

LiftedAgain(u) ==
    [i \in DOMAIN history[u] |->
        IF \A j \in DOMAIN history[u] : history[u][j].until <= history[u][i].until
        THEN [history[u][i] EXCEPT !.lifted = now]
        ELSE history[u][i]]

\* unsuspended_at = now() on the open rows with the largest suspended_until.
Lifted(u) ==
    [i \in DOMAIN history[u] |->
        IF i \in Open(u)
           /\ \A j \in Open(u) : history[u][j].until <= history[u][i].until
        THEN [history[u][i] EXCEPT !.lifted = now]
        ELSE history[u][i]]

\* Mutant: a ban updates the open record, when there is one.
AppendedOnce(u, t) ==
    IF Open(u) = {} THEN Append(history[u], [until |-> t, lifted |-> None])
    ELSE history[u]

Appended(u, t) == Append(history[u], [until |-> t, lifted |-> None])

WriteHistory(q) ==
    /\ req[q].pc = "history"
    /\ LET u == req[q].target
       IN  history' = [history EXCEPT ![u] =
              IF req[q].op = "ban" THEN Appended(u, req[q].until) ELSE Lifted(u)]
    /\ Reply(q, 200)
    /\ UNCHANGED <<until, now, banned, overlapped, lost>>

\* A statement fails before it does anything: the second one all the same
\* answered 200.
DbError(q) ==
    /\ Faults
    /\ req[q].pc \in {"update", "history"}
    /\ IF req[q].pc = "history" THEN Reply(q, 200) /\ Losing(q)
       ELSE Reply(q, 500) /\ UNCHANGED lost
    /\ UNCHANGED <<until, history, now, banned, overlapped>>

-----------------------------------------------------------------------------
(* The handlers.                                                           *)

SuspendDriver(q) ==
    /\ req[q].op = "suspend" /\ req[q].target \in Drivers
    /\ UpdateAccount(q)

SuspendPassenger(q) ==
    /\ req[q].op = "suspend" /\ req[q].target \notin Drivers
    /\ UpdateAccount(q) \/ NotFound(q)

UnsuspendDriver(q) ==
    /\ req[q].op = "unsuspend" /\ req[q].target \in Drivers
    /\ UpdateAccount(q)

UnsuspendPassenger(q) ==
    /\ req[q].op = "unsuspend" /\ req[q].target \notin Drivers
    /\ UpdateAccount(q) \/ NotFound(q) \/ WriteHistory(q)

BanPassenger(q) ==
    /\ req[q].op = "ban"
    /\ UpdateAccount(q) \/ NotFound(q) \/ WriteHistory(q)

\* The process dies between two statements.
Killed(q) ==
    /\ Faults
    /\ req[q].pc \in {"update", "history"}
    /\ req' = [req EXCEPT ![q] = Idle]
    /\ IF req[q].pc = "history" THEN Losing(q) ELSE UNCHANGED lost
    /\ UNCHANGED <<until, history, now, banned, overlapped>>

Tick ==
    /\ now < Horizon
    /\ now' = now + 1
    /\ UNCHANGED <<until, history, req, banned, overlapped, lost>>

Next ==
    \/ \E q \in Requests :
          \/ Submit(q) \/ SuspendDriver(q) \/ UnsuspendDriver(q)
          \/ SuspendPassenger(q) \/ UnsuspendPassenger(q) \/ BanPassenger(q)
          \/ DbError(q) \/ Killed(q) \/ Close(q)
    \/ Tick

Spec == Init /\ [][Next]_vars

-----------------------------------------------------------------------------
(* What the handlers promise.                                              *)

\* Of whatever length, and not replaced by an indefinite suspension.
Banned(u) == Suspended(u) /\ u \in banned

Pending(u) == \E q \in Requests : req[q].target = u

(* The history knows every ban in force of which no statement was lost, in *)
(* whatever order the handlers ran; and when they ran one after another,   *)
(* the record it shows first is that ban, not lifted.                      *)
BanOnRecord == \A u \in Passengers \ lost :
    Banned(u) /\ ~Pending(u) =>
        /\ \E i \in DOMAIN history[u] : history[u][i].until = until[u]
        /\ u \notin overlapped =>
              BanHistory(u)[1] = [until |-> until[u], lifted |-> None]

(* "Mark latest suspension history as unsuspended" (admin.go:391): when    *)
(* the handlers ran one after another and nobody is suspended any more,    *)
(* the latest ban is marked as lifted, unless an earlier one was to last   *)
(* longer: the statement looks for the largest suspended_until.            *)
LiftOnRecord == \A u \in Passengers \ (lost \cup overlapped) :
    until[u] = None /\ ~Pending(u) /\ history[u] # << >> =>
        \/ BanHistory(u)[1].lifted # None
        \/ \E i \in DOMAIN history[u] :
              /\ history[u][i].lifted # None
              /\ history[u][i].until > BanHistory(u)[1].until

(* What the history has shown it goes on showing: no handler rewrites a    *)
(* ban, removes it, or moves the time it was lifted, whatever overlaps.    *)
HistoryKept ==
    [][\A u \in Passengers : \A i \in DOMAIN history[u] :
          /\ i \in DOMAIN history'[u]
          /\ history'[u][i].until = history[u][i].until
          /\ history[u][i].lifted # None => history'[u][i] = history[u][i]]_vars

=============================================================================
