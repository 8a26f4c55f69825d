------------------------- MODULE SuspensionsProofs --------------------------
(***************************************************************************)
(* The record of bans, for any number of accounts and requests, any        *)
(* lengths of bans, with or without faults.                                *)
(*                                                                         *)
(* The argument: a ban that is in force is in the history or in the hands  *)
(* of a request that is about to write it (OnItsWay).  When the handlers   *)
(* ran one after another, the request at its second statement carries what *)
(* the account says (Carried), and while there is none the history is as   *)
(* the properties want it (Settled).                                       *)
(***************************************************************************)
EXTENDS Suspensions, TLAPS, SequenceTheorems, WellFoundedInduction

Ban == [until : Nat, lifted : Nat \cup {None}]

\* No ban lasts as long.
Bound == Horizon + MaxDuration + 1

\* Which operation can be at which statement, for whom.
RequestOk(m) ==
    /\ m.pc = "idle" => m = Idle
    /\ m.pc = "done" => m.target = None
    /\ m.pc = "update" => m.op \in Ops /\ m.target \in Accounts \cup Strangers
    /\ m.pc = "history" => m.op \in {"ban", "unsuspend"} /\ m.target \in Passengers
    /\ m.op = "ban" => m.target \notin Drivers /\ m.length \in Durations
    /\ m.pc = "history" /\ m.op = "ban" =>
          m.until \in Nat /\ m.until < Bound

\* A request at its second statement.
Writing(q, u) == req[q].pc = "history" /\ req[q].target = u

\* A ban in force is recorded, or about to be.
OnItsWay(u) == u \in banned =>
    \/ \E i \in DOMAIN history[u] : history[u][i].until = until[u]
    \/ \E q \in Requests : /\ Writing(q, u) /\ req[q].op = "ban"
                           /\ req[q].until = until[u]

Carried(u) == \A q \in Requests : Writing(q, u) =>
    /\ until[u] = IF req[q].op = "ban" THEN req[q].until ELSE None
    /\ u \in banned => req[q].op = "ban"

Latest(h) == h[Len(h)]

\* The latest ban is lifted, or one that was to last longer.
LiftedLatest(h) ==
    \/ Latest(h).lifted # None
    \/ \E i \in DOMAIN h : h[i].lifted # None /\ h[i].until > Latest(h).until

Settled(u) == (\A q \in Requests : ~Writing(q, u)) =>
    /\ u \in banned =>
          /\ history[u] # << >>
          /\ Latest(history[u]) = [until |-> until[u], lifted |-> None]
    /\ until[u] = None /\ history[u] # << >> => LiftedLatest(history[u])

\* Whose requests never overlapped has one under way.
OneAtATime == \A p, q \in Requests :
    p # q /\ req[p].target = req[q].target => req[p].target \notin Passengers \ overlapped

\* What holds of every passenger.
Sound(u) ==
    /\ \A i \in DOMAIN history[u] : history[u][i].until < Bound
    /\ u \notin lost => OnItsWay(u)
    /\ u \notin lost \cup overlapped => Carried(u) /\ Settled(u)

\* The inductive invariant.
IInv ==
    /\ TypeOK
    /\ \A q \in Requests : RequestOk(req[q])
    /\ OneAtATime
    /\ \A u \in Passengers : Sound(u)

-----------------------------------------------------------------------------
(* Facts about the constants and about numbers.                            *)

LEMMA NoneIsNone ==
    /\ None \notin Passengers /\ None \notin Drivers /\ None \notin Strangers
    /\ None \notin Nat
BY SuspensionsAssumption

LEMMA BoundIsNat == Bound \in Nat
BY SuspensionsAssumption DEF Bound

LEMMA BansHaveAnEnd ==
    ASSUME NEW n \in Durations, now \in 0..Horizon
    PROVE  now + n \in Nat /\ now + n < Bound
<1>1. /\ Horizon \in Nat /\ MaxDuration \in Nat /\ n \in 1..MaxDuration
  BY SuspensionsAssumption
<1> QED BY <1>1 DEF Bound

\* Numbers with a bound have a largest.
LEMMA Largest ==
    ASSUME NEW b \in Nat, NEW T, T # {}, \A x \in T : x \in Nat /\ x < b
    PROVE  \E x \in T : \A y \in T : y <= x
<1> DEFINE R == OpToRel(<, Nat)
           S == {b - x : x \in T}
<1>1. \A i, j \in Nat : <<i, j>> \in R <=> i < j
  BY DEF OpToRel
<1>2. S \subseteq Nat /\ S # {}
  OBVIOUS
<1>3. IsWellFoundedOn(R, Nat)
  BY NatLessThanWellFounded
<1> HIDE DEF R
<1>4. PICK m \in S : \A k \in S : ~(<<k, m>> \in R)
  <2> HIDE DEF S
  <2> QED BY <1>2, <1>3, WFMin
<1>5. PICK x \in T : m = b - x
  BY <1>4
<1>6. ASSUME NEW y \in T
      PROVE  y <= x
  <2>1. b - y \in S /\ b - y \in Nat /\ b - x \in Nat
    BY <1>5
  <2>2. ~(b - y < b - x)
    BY <2>1, <1>1, <1>4, <1>5
  <2> QED BY <2>2
<1> QED BY <1>5, <1>6

-----------------------------------------------------------------------------
(* What the statements do to a passenger's history.                        *)

LEMMA AppendedFacts ==
    ASSUME NEW u \in Passengers, history[u] \in Seq(Ban), NEW t \in Nat
    PROVE  LET h == history[u]
               k == Appended(u, t)
           IN  /\ k \in Seq(Ban) /\ k # << >>
               /\ Latest(k) = [until |-> t, lifted |-> None]
               /\ DOMAIN k = 1..(Len(h) + 1) /\ DOMAIN h = 1..Len(h)
               /\ Len(h) \in Nat
               /\ \A i \in DOMAIN h : i \in DOMAIN k /\ k[i] = h[i]
               /\ k[Len(h) + 1] = [until |-> t, lifted |-> None]
<1> DEFINE h == history[u]
           e == [until |-> t, lifted |-> None]
           k == Append(h, e)
<1>1. e \in Ban
  BY DEF Ban
<1> HIDE DEF e
<1>2. /\ k \in Seq(Ban) /\ k # << >> /\ Len(k) = Len(h) + 1
      /\ \A i \in 1..Len(h) : k[i] = h[i]
      /\ k[Len(h) + 1] = e
  BY <1>1, AppendProperties
<1>3. /\ Len(h) \in Nat /\ DOMAIN h = 1..Len(h) /\ DOMAIN k = 1..Len(k)
  BY <1>2, LenProperties
<1>4. Appended(u, t) = k
  BY DEF Appended, e
<1> HIDE DEF k
<1> QED BY <1>2, <1>3, <1>4 DEF Latest, e

LEMMA LiftedFacts ==
    ASSUME NEW u \in Passengers, history[u] \in Seq(Ban), now \in Nat
    PROVE  LET h == history[u]
               k == Lifted(u)
           IN  /\ k \in Seq(Ban) /\ DOMAIN k = DOMAIN h /\ Len(k) = Len(h)
               /\ Len(h) \in Nat /\ DOMAIN h = 1..Len(h)
               /\ \A i \in DOMAIN h :
                     /\ k[i].until = h[i].until /\ h[i].until \in Nat
                     /\ h[i].lifted # None => k[i] = h[i]
                     /\ i \in Open(u)
                        /\ (\A j \in Open(u) : h[j].until <= h[i].until)
                        => k[i].lifted = now
<1> DEFINE h == history[u]
           k == Lifted(u)
           n == Len(h)
<1>1. /\ n \in Nat /\ DOMAIN h = 1..n /\ h \in [1..n -> Ban]
  BY LenProperties
<1>2. k = [i \in 1..n |->
              IF i \in Open(u) /\ \A j \in Open(u) : h[j].until <= h[i].until
              THEN [h[i] EXCEPT !.lifted = now] ELSE h[i]]
  BY <1>1 DEF Lifted
<1>3. \A i \in 1..n : [h[i] EXCEPT !.lifted = now] \in Ban /\ h[i] \in Ban
  BY <1>1 DEF Ban
<1>4. k \in [1..n -> Ban]
  BY <1>2, <1>3
<1>5. k \in Seq(Ban)
  BY <1>1, <1>4, SeqDef
<1>6. DOMAIN k = 1..n
  BY <1>2
<1>7. Len(k) = n
  BY <1>1, <1>5, <1>6, LenProperties
<1>8. ASSUME NEW i \in 1..n
      PROVE  /\ k[i].until = h[i].until /\ h[i].until \in Nat
             /\ h[i].lifted # None => k[i] = h[i]
             /\ i \in Open(u) /\ (\A j \in Open(u) : h[j].until <= h[i].until)
                => k[i].lifted = now
  <2>1. h[i] \in Ban
    BY <1>3
  <2>2. h[i].lifted # None => i \notin Open(u)
    BY DEF Open
  <2>3. k[i] = IF i \in Open(u) /\ \A j \in Open(u) : h[j].until <= h[i].until
               THEN [h[i] EXCEPT !.lifted = now] ELSE h[i]
    BY <1>2
  <2> QED BY <2>1, <2>2, <2>3 DEF Ban
<1>9. DOMAIN k = DOMAIN h
  BY <1>1, <1>6
<1> QED BY ONLY <1>1, <1>5, <1>7, <1>8, <1>9

\* Lifting lifts the latest ban, or finds one that was to last longer.
LEMMA LiftedIsLifted ==
    ASSUME NEW u \in Passengers, history[u] \in Seq(Ban), now \in Nat,
           \A i \in DOMAIN history[u] : history[u][i].until < Bound,
           history[u] # << >>
    PROVE  LiftedLatest(Lifted(u))
<1> DEFINE h == history[u]
           k == Lifted(u)
           n == Len(h)
<1>1. /\ n \in Nat /\ DOMAIN h = 1..n /\ DOMAIN k = 1..n /\ Len(k) = n
      /\ \A i \in 1..n :
            /\ k[i].until = h[i].until /\ h[i].until \in Nat
            /\ h[i].lifted # None => k[i] = h[i]
            /\ i \in Open(u) /\ (\A j \in Open(u) : h[j].until <= h[i].until)
               => k[i].lifted = now
  BY LiftedFacts
<1>2. n \in 1..n
  BY <1>1, EmptySeq
<1> HIDE DEF k
<1>3. CASE h[n].lifted # None
  BY <1>1, <1>2, <1>3 DEF LiftedLatest, Latest, k
<1>4. CASE h[n].lifted = None
  <2> DEFINE T == {h[j].until : j \in Open(u)}
  <2>1. n \in Open(u) /\ \A j \in Open(u) : j \in 1..n
    BY <1>1, <1>2, <1>4 DEF Open
  <2>2. T # {} /\ \A x \in T : x \in Nat /\ x < Bound
    BY <1>1, <2>1
  <2>3. PICK x \in T : \A y \in T : y <= x
    <3>1. Bound \in Nat
      BY BoundIsNat
    <3> HIDE DEF T
    <3> QED BY <2>2, <3>1, Largest
  <2>4. PICK i \in Open(u) : x = h[i].until
    BY <2>3
  <2>5. \A j \in Open(u) : h[j].until <= h[i].until
    BY <2>3, <2>4
  <2>6. i \in 1..n /\ k[i].lifted = now /\ h[n].until <= h[i].until
    BY <1>1, <2>1, <2>4, <2>5
  <2>7. CASE h[n].until = h[i].until
    <3>1. k[n].lifted = now
      BY <1>1, <1>2, <2>1, <2>5, <2>7
    <3> QED BY <1>1, <3>1, NoneIsNone DEF LiftedLatest, Latest, k
  <2>8. CASE h[n].until < h[i].until
    BY <1>1, <1>2, <2>6, <2>8, NoneIsNone DEF LiftedLatest, Latest, k
  <2> QED BY <1>1, <1>2, <2>6, <2>7, <2>8
<1> QED BY <1>3, <1>4

-----------------------------------------------------------------------------
(* One request's step.                                                     *)

LEMMA IdleOk == Idle \in RequestState /\ RequestOk(Idle)
BY DEF Idle, RequestState, RequestOk

LEMMA RequestFacts ==
    ASSUME IInv, NEW q \in Requests
    PROVE  /\ req \in [Requests -> RequestState]
           /\ req[q] \in RequestState /\ RequestOk(req[q])
           /\ req[q].target \in Accounts \cup Strangers \cup {None}
           /\ req[q].op \in Ops \cup {"none"}
           /\ req[q].pc \in {"idle", "update", "history", "done"}
BY DEF IInv, TypeOK, RequestState

LEMMA TableFacts ==
    ASSUME IInv
    PROVE  /\ until \in [Accounts -> Nat \cup {None}]
           /\ \A u \in Passengers : history[u] \in Seq(Ban)
           /\ history \in [Passengers -> Seq(Ban)]
           /\ now \in 0..Horizon /\ now \in Nat /\ Horizon \in Nat
           /\ overlapped \subseteq Passengers /\ lost \subseteq Passengers
           /\ banned \subseteq Accounts
<1>1. history \in [Passengers -> Seq(Ban)]
  BY DEF IInv, TypeOK, Ban
<1>2. Horizon \in Nat /\ now \in 0..Horizon
  BY SuspensionsAssumption DEF IInv, TypeOK
<1>3. now \in Nat
  BY <1>2
<1> QED BY <1>1, <1>2, <1>3 DEF IInv, TypeOK

\* What a step does to its request, and what it leaves alone.
Moves(q, n) == req' = [req EXCEPT ![q] = n]

Untouched(u) ==
    /\ until'[u] = until[u] /\ history'[u] = history[u]
    /\ u \in banned' <=> u \in banned

\* What is said of a passenger survives what does not concern him.
LEMMA Elsewhere ==
    ASSUME IInv, NEW q \in Requests, NEW n \in RequestState,
           req' = [req EXCEPT ![q] = n],
           NEW u \in Passengers,
           Untouched(u),
           ~Writing(q, u), ~(n.pc = "history" /\ n.target = u)
    PROVE  /\ OnItsWay(u) => OnItsWay(u)'
           /\ Carried(u) => Carried(u)'
           /\ Settled(u) => Settled(u)'
<1>1. /\ req'[q] = n
      /\ \A p \in Requests : p # q => req'[p] = req[p]
  BY DEF IInv, TypeOK
<1>2. \A p \in Requests : /\ Writing(p, u)' <=> Writing(p, u)
                          /\ Writing(p, u) => req'[p] = req[p]
  BY <1>1 DEF Writing
<1>3. OnItsWay(u) => OnItsWay(u)'
  BY <1>2 DEF OnItsWay, Untouched
<1>4. Carried(u) => Carried(u)'
  BY <1>2 DEF Carried, Untouched
<1>5. Settled(u) => Settled(u)'
  BY <1>2 DEF Settled, Untouched
<1> QED BY <1>3, <1>4, <1>5

LEMMA OneStep ==
    ASSUME IInv, TypeOK', NEW q \in Requests, NEW n \in RequestState,
           Moves(q, n), RequestOk(n),
           n.target \in {req[q].target, None} \/ OneAtATime',
           n.pc = "history" => n.target = req[q].target,
           overlapped \subseteq overlapped', lost \subseteq lost',
           \A u \in Passengers : u # req[q].target => Untouched(u),
           \A u \in Passengers : u = req[q].target => Sound(u)'
    PROVE  IInv'
<1>1. /\ req'[q] = n
      /\ \A p \in Requests : p # q => req'[p] = req[p]
      /\ \A p \in Requests : RequestOk(req[p])
  BY DEF IInv, TypeOK, Moves
<1>2. \A p \in Requests : RequestOk(req'[p])
  BY <1>1
<1>3. OneAtATime'
  <2> SUFFICES ASSUME n.target \in {req[q].target, None}
               PROVE  OneAtATime'
    OBVIOUS
  <2>1. \A p \in Requests : req'[p].target \in {req[p].target, None}
    BY <1>1
  <2> QED BY <2>1, NoneIsNone DEF IInv, OneAtATime
<1>4. ASSUME NEW u \in Passengers
      PROVE  Sound(u)'
  <2>1. CASE u = req[q].target
    BY <2>1
  <2>2. CASE u # req[q].target
    <3>1. Untouched(u)
      BY <2>2
    <3>2. ~Writing(q, u) /\ ~(n.pc = "history" /\ n.target = u)
      BY <2>2 DEF Writing
    <3>3. /\ OnItsWay(u) => OnItsWay(u)'
          /\ Carried(u) => Carried(u)'
          /\ Settled(u) => Settled(u)'
      BY <3>1, <3>2, Elsewhere DEF Moves
    <3> QED BY <3>1, <3>3 DEF IInv, Sound, Untouched
  <2> QED BY <2>1, <2>2
<1> QED BY <1>2, <1>3, <1>4 DEF IInv

\* A step of a request that is not about to write, and leaves the tables.
LEMMA QuietStep ==
    ASSUME IInv, TypeOK', NEW q \in Requests, NEW n \in RequestState,
           req' = [req EXCEPT ![q] = n], RequestOk(n),
           n.target \in {req[q].target, None} \/ OneAtATime',
           req[q].pc # "history", n.pc # "history",
           UNCHANGED <<until, history, banned, lost>>, overlapped \subseteq overlapped'
    PROVE  IInv'
<1>1. ASSUME NEW u \in Passengers, u = req[q].target
      PROVE  Sound(u)'
  <2>1. ~Writing(q, u) /\ ~(n.pc = "history" /\ n.target = u)
    BY DEF Writing
  <2>2. /\ OnItsWay(u) => OnItsWay(u)'
        /\ Carried(u) => Carried(u)'
        /\ Settled(u) => Settled(u)'
    BY <2>1, Elsewhere DEF Untouched
  <2> QED BY <2>2 DEF IInv, Sound
<1> QED BY <1>1, OneStep DEF Untouched, Moves

\* A request whose answer has been given.
Answered(c) == [Idle EXCEPT !.pc = "done", !.code = c]

LEMMA AnswerFacts ==
    ASSUME NEW c \in {200, 404, 500}
    PROVE  /\ Answered(c) \in RequestState /\ RequestOk(Answered(c))
           /\ Answered(c).target = None /\ Answered(c).pc = "done"
<1> DEFINE k == [op |-> "none", target |-> None, length |-> 0, until |-> None,
                 pc |-> "done", code |-> c]
<1> DEFINE y == [Idle EXCEPT !.pc = "done"]
<1>4. y = [op |-> "none", target |-> None, length |-> 0, until |-> None,
           pc |-> "done", code |-> 0]
  BY DEF Idle
<1>5. Answered(c) = [y EXCEPT !.code = c]
  BY DEF Answered
<1> HIDE DEF y
<1>1. Answered(c) = k
  BY <1>4, <1>5
<1>2. k \in RequestState
  BY DEF RequestState
<1>3. RequestOk(k)
  BY DEF RequestOk
<1> QED BY <1>1, <1>2, <1>3

\* An answer, whatever was written before it.
LEMMA AnswerStep ==
    ASSUME IInv, TypeOK', NEW q \in Requests, NEW c \in {200, 404, 500},
           Reply(q, c), overlapped \subseteq overlapped', lost \subseteq lost',
           \A u \in Passengers : u # req[q].target => Untouched(u),
           \A u \in Passengers : u = req[q].target => Sound(u)'
    PROVE  IInv'
<1> DEFINE n == Answered(c)
<1>1. Moves(q, n)
  BY DEF Reply, Answered, Moves
<1>2. /\ n \in RequestState /\ RequestOk(n)
      /\ n.target \in {req[q].target, None} /\ n.pc # "history"
  BY AnswerFacts
<1> HIDE DEF n
<1>3. TypeOK' /\ overlapped \subseteq overlapped' /\ lost \subseteq lost'
  OBVIOUS
<1>4. \A u \in Passengers : u # req[q].target => Untouched(u)
  OBVIOUS
<1>5. \A u \in Passengers : u = req[q].target => Sound(u)'
  OBVIOUS
<1> QED BY ONLY IInv, q \in Requests, <1>1, <1>2, <1>3, <1>4, <1>5, OneStep

\* An answer before anything was written, or the end of one.
LEMMA NothingDone ==
    ASSUME IInv, NEW q \in Requests, req[q].pc # "history",
           UNCHANGED <<until, history, now, banned, overlapped, lost>>,
           \/ req' = [req EXCEPT ![q] = Idle]
           \/ \E c \in {404, 500} : Reply(q, c)
    PROVE  IInv'
<1>1. PICK n \in {Idle, Answered(404), Answered(500)} :
         req' = [req EXCEPT ![q] = n]
  <2>1. \A c : Reply(q, c) <=> req' = [req EXCEPT ![q] = Answered(c)]
    BY DEF Reply, Answered
  <2> QED BY <2>1
<1>2. /\ n \in RequestState /\ RequestOk(n) /\ n.target = None
      /\ n.pc # "history"
  BY IdleOk, AnswerFacts DEF Idle
<1>3. TypeOK'
  BY <1>1, <1>2 DEF IInv, TypeOK
<1>4. overlapped \subseteq overlapped' /\ UNCHANGED <<until, history, banned, lost>>
  OBVIOUS
<1>5. n.target \in {req[q].target, None}
  BY <1>2
<1> QED BY ONLY IInv, req[q].pc # "history", <1>1, <1>2, <1>3, <1>4, <1>5, QuietStep

\* The second statement never runs.
LEMMA StatementLost ==
    ASSUME IInv, NEW q \in Requests, req[q].pc = "history", Losing(q),
           UNCHANGED <<until, history, now, banned, overlapped>>,
           req' = [req EXCEPT ![q] = Idle] \/ Reply(q, 200)
    PROVE  IInv'
<1>1. PICK n \in {Idle, Answered(200)} : req' = [req EXCEPT ![q] = n]
  BY DEF Reply, Answered
<1>2. /\ n \in RequestState /\ RequestOk(n) /\ n.target = None
      /\ n.pc # "history"
  BY IdleOk, AnswerFacts DEF Idle
<1>3. req[q].target \in Passengers /\ lost' = lost \cup {req[q].target}
  BY RequestFacts DEF Losing, Recorded, RequestOk
<1>4. TypeOK'
  BY <1>1, <1>2, <1>3 DEF IInv, TypeOK
<1>5. ASSUME NEW u \in Passengers, u = req[q].target
      PROVE  /\ \A i \in DOMAIN history'[u] : history'[u][i].until < Bound
             /\ u \in lost'
  BY <1>3, <1>5 DEF IInv, Sound
<1> QED BY <1>1, <1>2, <1>3, <1>4, <1>5, OneStep DEF Untouched, Sound, Moves

LEMMA SubmitKeeps ==
    ASSUME IInv, NEW q \in Requests, Submit(q)
    PROVE  IInv'
<1>1. PICK op \in Ops, u \in Accounts \cup Strangers, l \in Durations \cup {0} :
         /\ (l # 0) <=> (op = "ban")
         /\ op = "ban" => u \notin Drivers
         /\ req' = [req EXCEPT ![q] = [Idle EXCEPT
                       !.op = op, !.target = u, !.length = l, !.pc = "update"]]
         /\ overlapped' = IF \E p \in Requests : req[p].target = u
                          THEN overlapped \cup ({u} \cap Passengers)
                          ELSE overlapped
  BY DEF Submit
<1> DEFINE n == [op |-> op, target |-> u, length |-> l, until |-> None,
                 pc |-> "update", code |-> 0]
<1>2. req' = [req EXCEPT ![q] = n]
  <2> DEFINE x == [Idle EXCEPT !.op = op]
             y == [x EXCEPT !.target = u]
             z == [y EXCEPT !.length = l]
  <2>1. req' = [req EXCEPT ![q] = [z EXCEPT !.pc = "update"]]
    BY <1>1
  <2>2. x = [op |-> op, target |-> None, length |-> 0, until |-> None,
             pc |-> "idle", code |-> 0]
    BY DEF Idle
  <2> HIDE DEF x
  <2>3. y = [op |-> op, target |-> u, length |-> 0, until |-> None,
             pc |-> "idle", code |-> 0]
    BY <2>2
  <2> HIDE DEF y
  <2>4. z = [op |-> op, target |-> u, length |-> l, until |-> None,
             pc |-> "idle", code |-> 0]
    BY <2>3
  <2> HIDE DEF z
  <2>5. [z EXCEPT !.pc = "update"] = n
    BY <2>4
  <2> QED BY <2>1, <2>5
<1>3. n \in RequestState
  BY DEF RequestState
<1>4. RequestOk(n)
  <2>1. 0 \notin Durations
    BY SuspensionsAssumption
  <2> QED BY <1>1, <2>1 DEF RequestOk
<1>5. /\ req[q] = Idle /\ UNCHANGED <<until, history, now, banned, lost>>
      /\ overlapped \subseteq overlapped' /\ overlapped' \subseteq Passengers
  BY <1>1, TableFacts DEF Submit
<1>6. TypeOK'
  BY <1>2, <1>3, <1>5 DEF IInv, TypeOK
<1>7. OneAtATime'
  <2>1. \A p \in Requests : req'[p] = IF p = q THEN n ELSE req[p]
    BY <1>2, RequestFacts
  <2>2. \A p \in Requests : p # q /\ req[p].target = u => u \notin Passengers \ overlapped'
    BY <1>1
  <2>3. ASSUME NEW a \in Requests, NEW b \in Requests, a # b,
               req'[a].target = req'[b].target
        PROVE  req'[a].target \notin Passengers \ overlapped'
    <3>1. CASE a = q \/ b = q
      BY <2>1, <2>2, <2>3, <3>1
    <3>2. CASE a # q /\ b # q
      BY <2>1, <2>3, <3>2, <1>5 DEF IInv, OneAtATime
    <3> QED BY <3>1, <3>2
  <2> QED BY <2>3 DEF OneAtATime
<1>8. req[q].pc # "history" /\ n.pc # "history"
  BY <1>5 DEF Idle
<1> HIDE DEF n
<1> QED BY <1>2, <1>3, <1>4, <1>5, <1>6, <1>7, <1>8, QuietStep

LEMMA NewUntilFacts ==
    ASSUME IInv, NEW q \in Requests, req[q].pc = "update"
    PROVE  /\ NewUntil(q) \in Nat \cup {None}
           /\ req[q].op = "ban" => NewUntil(q) \in Nat /\ NewUntil(q) < Bound
           /\ req[q].op = "unsuspend" => NewUntil(q) = None
           /\ req[q].op = "suspend" => NewUntil(q) \in Nat
<1>1. req[q].op \in Ops /\ (req[q].op = "ban" => req[q].length \in Durations)
  BY RequestFacts DEF RequestOk
<1>2. CASE req[q].op = "ban"
  BY <1>1, <1>2, BansHaveAnEnd, TableFacts DEF NewUntil
<1>3. CASE req[q].op = "unsuspend"
  BY <1>3 DEF NewUntil
<1>4. CASE req[q].op = "suspend"
  BY <1>4, TableFacts DEF NewUntil, Indefinite
<1> QED BY <1>1, <1>2, <1>3, <1>4 DEF Ops

\* A request on its way to the second statement.
Waiting(m, t) == [m EXCEPT !.pc = "history", !.until = t]

LEMMA WaitingFacts ==
    ASSUME NEW m \in RequestState, NEW t \in Nat \cup {None}
    PROVE  /\ Waiting(m, t) \in RequestState
           /\ Waiting(m, t).pc = "history" /\ Waiting(m, t).op = m.op
           /\ Waiting(m, t).target = m.target /\ Waiting(m, t).until = t
           /\ Waiting(m, t).length = m.length
<1> DEFINE x == [m EXCEPT !.pc = "history"]
<1>1. /\ x \in RequestState /\ x.pc = "history" /\ x.op = m.op
      /\ x.target = m.target /\ x.length = m.length
  BY DEF RequestState
<1>2. Waiting(m, t) = [x EXCEPT !.until = t]
  BY DEF Waiting
<1> HIDE DEF x
<1> QED BY <1>1, <1>2 DEF RequestState

\* What the first statement leaves of its account.
LEMMA UpdateKeeps ==
    ASSUME IInv, NEW q \in Requests, UpdateAccount(q)
    PROVE  IInv'
<1> DEFINE m == req[q]
           t == NewUntil(q)
           v == m.target
           w == Waiting(m, t)
<1>1. /\ m.pc = "update" /\ v \in Accounts
      /\ until' = [until EXCEPT ![v] = t]
      /\ banned' = IF m.op = "ban" THEN banned \cup {v} ELSE banned \ {v}
      /\ UNCHANGED <<history, now, overlapped>>
  BY DEF UpdateAccount
<1>2. /\ m \in RequestState /\ RequestOk(m)
      /\ m.op \in Ops /\ req \in [Requests -> RequestState]
  BY <1>1, RequestFacts DEF RequestOk
<1>3. /\ t \in Nat \cup {None}
      /\ m.op = "ban" => t \in Nat /\ t < Bound
      /\ m.op = "unsuspend" => t = None
      /\ m.op = "suspend" => t \in Nat
  BY <1>1, NewUntilFacts
<1>4. /\ until' \in [Accounts -> Nat \cup {None}]
      /\ until'[v] = t
      /\ \A u \in Accounts : u # v => until'[u] = until[u]
      /\ Passengers \subseteq Accounts /\ banned' \subseteq Accounts
      /\ \A u \in Accounts : u # v => (u \in banned' <=> u \in banned)
  BY <1>1, <1>3, TableFacts DEF Accounts
<1>5. /\ w \in RequestState /\ w.pc = "history" /\ w.op = m.op
      /\ w.target = v /\ w.until = t /\ w.length = m.length
  BY <1>2, <1>3, WaitingFacts
<1>6. Recorded(q) => RequestOk(w)
  BY <1>2, <1>3, <1>5 DEF Recorded, RequestOk, Ops
<1>7. ASSUME NEW u \in Passengers, u = v, ~Recorded(q)
      PROVE  u \notin banned' /\ until'[u] # None
  <2>1. m.op = "suspend"
    BY <1>2, <1>7 DEF Recorded, Ops
  <2> QED BY <1>1, <1>3, <1>4, <1>7, <2>1, NoneIsNone
<1>8. \A u \in Passengers : \A i \in DOMAIN history'[u] :
         history'[u][i].until < Bound
  BY <1>1 DEF IInv, Sound
\* Nobody else is about to write what was read before.
<1>9. ASSUME NEW u \in Passengers, u = v, u \notin overlapped, NEW p \in Requests,
             p # q
      PROVE  ~Writing(p, u)
  BY <1>9 DEF IInv, OneAtATime, Writing
<1>10. /\ \A u \in Passengers : u # v => Untouched(u)
       /\ overlapped \subseteq overlapped'
  BY <1>1, <1>4 DEF Untouched
<1> HIDE DEF t, w
<1>11. CASE Recorded(q) /\ req' = [req EXCEPT ![q] = w] /\ lost' = lost
  <2>1. TypeOK'
    BY <1>1, <1>2, <1>4, <1>5, <1>11 DEF IInv, TypeOK
  <2>2. \A p \in Requests : req'[p] = IF p = q THEN w ELSE req[p]
    BY <1>2, <1>11
  <2>3. ASSUME NEW u \in Passengers, u = v
        PROVE  /\ OnItsWay(u)'
               /\ u \notin overlapped' => Carried(u)' /\ Settled(u)'
    <3>1. Writing(q, u)'
      BY <2>2, <2>3, <1>5 DEF Writing
    <3>2. req'[q].op = m.op /\ req'[q].until = t /\ until'[u] = t
          /\ (u \in banned' => m.op = "ban")
          /\ m.op \in {"ban", "unsuspend"}
      BY <2>2, <2>3, <1>1, <1>2, <1>4, <1>5, <1>11 DEF Recorded, Ops
    <3>3. OnItsWay(u)'
      BY <3>1, <3>2, <1>3 DEF OnItsWay
    <3>4. Settled(u)'
      BY <3>1 DEF Settled
    <3>5. u \notin overlapped' => Carried(u)'
      <4>1. u \notin overlapped' => \A p \in Requests : Writing(p, u)' => p = q
        BY <1>1, <1>9, <2>2, <2>3 DEF Writing
      <4> QED BY <4>1, <3>2, <1>3 DEF Carried
    <3> QED BY <3>3, <3>4, <3>5
  <2>4. w.target \in {req[q].target, None} /\ lost \subseteq lost' /\ Moves(q, w)
    BY <1>5, <1>11 DEF Moves
  <2> QED BY <1>5, <1>6, <1>8, <1>10, <1>11, <2>1, <2>3, <2>4, OneStep DEF Sound
<1>12. ASSUME NEW c \in {200, 500}, Reply(q, c),
              (~Recorded(q) /\ lost' = lost) \/ Losing(q)
       PROVE  IInv'
  <2>1. PICK n \in RequestState : n = Answered(c) /\ req' = [req EXCEPT ![q] = n]
    <3>1. req' = [req EXCEPT ![q] = Answered(c)]
      BY <1>12 DEF Reply, Answered
    <3>2. Answered(c) \in RequestState
      BY AnswerFacts
    <3> QED BY <3>1, <3>2
  <2>2. RequestOk(n) /\ n.target = None /\ n.pc = "done"
    BY <2>1, AnswerFacts
  <2>3. lost \subseteq lost' /\ lost' \subseteq Passengers
    BY <1>12, TableFacts DEF Losing, Recorded
  <2>4. TypeOK'
    BY <1>1, <1>2, <1>4, <2>1, <2>2, <2>3 DEF IInv, TypeOK
  <2>5. ASSUME NEW u \in Passengers, u = v, u \notin lost'
        PROVE  /\ OnItsWay(u)'
               /\ u \notin overlapped' => Carried(u)' /\ Settled(u)'
    <3>1. ~Recorded(q)
      BY <1>12, <2>5 DEF Losing
    <3>2. u \notin banned' /\ until'[u] # None
      BY <3>1, <1>7, <2>5
    <3>3. u \notin overlapped' => \A p \in Requests : ~Writing(p, u)'
      BY <1>1, <1>2, <1>9, <2>1, <2>2, <2>5 DEF Writing
    <3> QED BY <3>2, <3>3 DEF OnItsWay, Carried, Settled
  <2>6. ASSUME NEW u \in Passengers, u = v
        PROVE  /\ u \notin lost' => OnItsWay(u)'
               /\ u \notin lost' \cup overlapped' => Carried(u)' /\ Settled(u)'
    BY <2>5, <2>6
  <2>7. \A u \in Passengers : u = req[q].target => Sound(u)'
    BY <1>8, <2>6 DEF Sound
  <2>8. /\ overlapped \subseteq overlapped' /\ lost \subseteq lost'
        /\ \A u \in Passengers : u # req[q].target => Untouched(u)
    BY <1>10, <2>3
  <2> QED BY ONLY IInv, <1>12, <2>4, <2>7, <2>8, AnswerStep
<1>13. \/ Recorded(q) /\ req' = [req EXCEPT ![q] = w] /\ lost' = lost
       \/ ~Recorded(q) /\ Reply(q, 200) /\ lost' = lost
       \/ Reply(q, 500) /\ Losing(q)
  <2>1. \/ /\ IF Recorded(q)
              THEN req' = [req EXCEPT ![q] =
                      [m EXCEPT !.pc = "history", !.until = t]]
              ELSE Reply(q, 200)
           /\ lost' = lost
        \/ Reply(q, 500) /\ Losing(q)
    BY DEF UpdateAccount, t
  <2>2. [m EXCEPT !.pc = "history", !.until = t] = w
    BY DEF w, Waiting
  <2> QED BY <2>1, <2>2
<1> QED BY <1>11, <1>12, <1>13

\* The second statement: the record of a ban, or of the end of one.
LEMMA WriteKeeps ==
    ASSUME IInv, NEW q \in Requests, WriteHistory(q)
    PROVE  IInv'
<1> DEFINE m == req[q]
           v == m.target
           n == Answered(200)
           k == IF m.op = "ban" THEN Appended(v, m.until) ELSE Lifted(v)
<1>1. /\ m.pc = "history" /\ req' = [req EXCEPT ![q] = n]
      /\ history' = [history EXCEPT ![v] = k]
      /\ UNCHANGED <<until, now, banned, overlapped, lost>>
  BY DEF WriteHistory, Reply, Answered
<1>2. /\ m \in RequestState /\ m.op \in {"ban", "unsuspend"} /\ v \in Passengers
      /\ m.op = "ban" => m.until \in Nat /\ m.until < Bound
  BY <1>1, RequestFacts DEF RequestOk
<1>3. /\ n \in RequestState /\ RequestOk(n) /\ n.target = None /\ n.pc = "done"
  BY AnswerFacts
<1>4. /\ history \in [Passengers -> Seq(Ban)] /\ history[v] \in Seq(Ban)
      /\ now \in Nat /\ \A i \in DOMAIN history[v] : history[v][i].until < Bound
  BY <1>2, TableFacts DEF IInv, Sound
<1>5. /\ k \in Seq(Ban)
      /\ \A i \in DOMAIN history[v] :
            i \in DOMAIN k /\ k[i].until = history[v][i].until
      /\ \A i \in DOMAIN k : k[i].until < Bound
      /\ m.op = "ban" => \E i \in DOMAIN k : k[i].until = m.until
  <2>1. CASE m.op = "ban"
    <3> DEFINE h == history[v]
               e == [until |-> m.until, lifted |-> None]
    <3>1. /\ k \in Seq(Ban) /\ Len(h) \in Nat
          /\ DOMAIN k = 1..(Len(h) + 1) /\ DOMAIN h = 1..Len(h)
          /\ \A i \in DOMAIN h : i \in DOMAIN k /\ k[i] = h[i]
          /\ k[Len(h) + 1] = e
      BY <1>2, <1>4, <2>1, AppendedFacts
    <3>2. \A i \in DOMAIN k : i \in DOMAIN h \/ i = Len(h) + 1
      BY <3>1
    <3>3. e.until < Bound /\ e.until = m.until
      BY <1>2, <2>1
    <3>4. Len(h) + 1 \in 1..(Len(h) + 1)
      BY <3>1
    <3> HIDE DEF k, e
    <3>5. \A i \in DOMAIN k : k[i].until < Bound
      BY <1>4, <3>1, <3>2, <3>3
    <3>6. Len(h) + 1 \in DOMAIN k /\ k[Len(h) + 1].until = m.until
      BY <3>1, <3>3, <3>4
    <3>7. \A i \in DOMAIN h : i \in DOMAIN k /\ k[i].until = h[i].until
      BY <3>1
    <3>8. \E i \in DOMAIN k : k[i].until = m.until
      BY ONLY <3>6
    <3>9. k \in Seq(Ban)
      BY <3>1
    <3> HIDE DEF m
    <3> QED BY ONLY <3>5, <3>7, <3>8, <3>9
  <2>2. CASE m.op = "unsuspend"
    <3>1. k = Lifted(v)
      BY <2>2
    <3> HIDE DEF k
    <3> QED BY <1>2, <1>4, <2>2, <3>1, LiftedFacts
  <2> QED BY <1>2, <2>1, <2>2
<1>6. history'[v] = k /\ \A u \in Passengers : u # v => history'[u] = history[u]
  BY <1>1, <1>2, <1>4
<1>7. TypeOK'
  <2>1. history' \in [Passengers -> Seq(Ban)]
    BY <1>1, <1>4, <1>5
  <2> QED BY <1>1, <1>3, <2>1 DEF IInv, TypeOK, Ban
<1>8. \A p \in Requests : req'[p] = IF p = q THEN n ELSE req[p]
  BY <1>1, RequestFacts
<1>9. ASSUME NEW u \in Passengers, u = v, u \notin lost
      PROVE  OnItsWay(u)'
  <2> SUFFICES ASSUME u \in banned
               PROVE  \/ \E i \in DOMAIN k : k[i].until = until[u]
                      \/ \E p \in Requests : /\ Writing(p, u)' /\ req'[p].op = "ban"
                                             /\ req'[p].until = until[u]
    BY <1>1, <1>6, <1>9 DEF OnItsWay
  <2>1. OnItsWay(u)
    BY <1>9 DEF IInv, Sound
  <2>2. CASE \E i \in DOMAIN history[u] : history[u][i].until = until[u]
    BY <1>5, <1>9, <2>2
  <2>3. CASE \E p \in Requests : /\ Writing(p, u) /\ req[p].op = "ban"
                                 /\ req[p].until = until[u]
    <3>1. PICK p \in Requests : /\ Writing(p, u) /\ req[p].op = "ban"
                                /\ req[p].until = until[u]
      BY <2>3
    <3>2. CASE p = q
      BY <1>5, <3>1, <3>2
    <3>3. CASE p # q
      <4>1. req'[p] = req[p]
        BY <1>8, <3>3
      <4>2. Writing(p, u)'
        BY <3>1, <4>1 DEF Writing
      <4> QED BY <3>1, <4>1, <4>2
    <3> QED BY <3>2, <3>3
  <2> QED BY <2>1, <2>2, <2>3 DEF OnItsWay
<1>10. ASSUME NEW u \in Passengers, u = v, u \notin lost, u \notin overlapped
       PROVE  Carried(u)' /\ Settled(u)'
  <2>1. \A p \in Requests : ~Writing(p, u)'
    BY <1>2, <1>3, <1>8, <1>10 DEF IInv, OneAtATime, Writing
  <2>2. Writing(q, u) /\ Carried(u)
    BY <1>1, <1>10 DEF IInv, Writing, Sound
  <2>3. /\ until'[u] = IF m.op = "ban" THEN m.until ELSE None
        /\ u \in banned' => m.op = "ban"
    BY <1>1, <2>2 DEF Carried
  <2>4. CASE m.op = "ban"
    <3>1. /\ k # << >> /\ Latest(k) = [until |-> m.until, lifted |-> None]
      BY <1>2, <1>4, <2>4, AppendedFacts
    <3>2. until'[u] = m.until /\ until'[u] # None
      BY <1>2, <2>3, <2>4, NoneIsNone
    <3>3. history'[u] = k
      BY <1>6, <1>10
    <3> HIDE DEF k
    <3> QED BY <2>1, <3>1, <3>2, <3>3 DEF Carried, Settled
  <2>5. CASE m.op = "unsuspend"
    <3>1. /\ k = Lifted(v) /\ history'[u] = k /\ until'[u] = None
          /\ u \notin banned'
      BY <1>6, <1>10, <2>3, <2>5
    <3>2. k # << >> => LiftedLatest(k)
      <4> SUFFICES ASSUME k # << >> PROVE LiftedLatest(k)
        OBVIOUS
      <4>1. Len(k) = Len(history[v])
        BY <1>2, <1>4, <3>1, LiftedFacts
      <4>2. history[v] # << >>
        BY <1>4, <1>5, <4>1, EmptySeq
      <4> QED BY <1>2, <1>4, <3>1, <4>2, LiftedIsLifted
    <3> HIDE DEF k
    <3> QED BY <2>1, <3>1, <3>2 DEF Carried, Settled
  <2> QED BY <1>2, <2>4, <2>5
<1>11. \A u \in Passengers : u = req[q].target => Sound(u)'
  BY <1>1, <1>5, <1>6, <1>9, <1>10 DEF Sound
<1>12. /\ overlapped \subseteq overlapped' /\ lost \subseteq lost' /\ Reply(q, 200)
       /\ \A u \in Passengers : u # req[q].target => Untouched(u)
  BY <1>1, <1>6 DEF Untouched, Reply, Answered
<1> QED BY ONLY IInv, <1>7, <1>11, <1>12, AnswerStep

LEMMA TickKeeps ==
    ASSUME IInv, Tick
    PROVE  IInv'
<1>1. now < Horizon /\ now' = now + 1 /\ UNCHANGED <<until, history, req, banned, overlapped, lost>>
  BY DEF Tick
<1>2. TypeOK'
  <2>1. now' \in 0..Horizon
    BY <1>1, TableFacts
  <2> QED BY <1>1, <2>1 DEF IInv, TypeOK
<1> QED BY <1>1, <1>2 DEF IInv, OneAtATime, OnItsWay, Carried, Settled, Writing, Sound

LEMMA StutterKeeps ==
    ASSUME IInv, UNCHANGED vars
    PROVE  IInv'
<1>1. UNCHANGED <<until, history, now, req, banned, overlapped, lost>>
  BY DEF vars
<1>2. TypeOK'
  BY <1>1 DEF IInv, TypeOK
<1> QED BY <1>1, <1>2 DEF IInv, OneAtATime, OnItsWay, Carried, Settled, Writing, Sound

LEMMA InitHolds == Init => IInv
<1> SUFFICES ASSUME Init PROVE IInv
  OBVIOUS
<1>1. TypeOK
  <2>1. 0 \in 0..Horizon /\ << >> \in Seq([until : Nat, lifted : Nat \cup {None}])
    BY SuspensionsAssumption
  <2> QED BY <2>1, IdleOk DEF Init, TypeOK
<1>2. \A q \in Requests : req[q].target = None /\ req[q].pc = "idle"
  BY DEF Init, Idle
<1>3. \A q \in Requests : RequestOk(req[q])
  BY IdleOk DEF Init
<1>4. \A u \in Passengers : u \notin banned /\ until[u] = None /\ history[u] = << >>
  BY DEF Init, Accounts
<1> QED BY <1>1, <1>2, <1>3, <1>4, NoneIsNone, EmptySeq
        DEF IInv, OneAtATime, OnItsWay, Carried, Settled, Writing, Sound

\* The handlers, as what their statements do.
LEMMA Handlers ==
    ASSUME Next
    PROVE  \/ \E q \in Requests :
                \/ Submit(q) \/ UpdateAccount(q) \/ NotFound(q) \/ WriteHistory(q)
                \/ DbError(q) \/ Killed(q) \/ Close(q)
           \/ Tick
BY DEF Next, SuspendDriver, SuspendPassenger, UnsuspendDriver, UnsuspendPassenger,
       BanPassenger

LEMMA StepKeeps == IInv /\ [Next]_vars => IInv'
<1> SUFFICES ASSUME IInv, [Next]_vars PROVE IInv'
  OBVIOUS
<1>1. ASSUME NEW q \in Requests, NotFound(q)
      PROVE  IInv'
  BY <1>1, NothingDone DEF NotFound
<1>2. ASSUME NEW q \in Requests, DbError(q)
      PROVE  IInv'
  <2>1. CASE req[q].pc = "history"
    BY <1>2, <2>1, StatementLost DEF DbError
  <2>2. CASE req[q].pc # "history"
    BY <1>2, <2>2, NothingDone DEF DbError
  <2> QED BY <2>1, <2>2
<1>3. ASSUME NEW q \in Requests, Killed(q)
      PROVE  IInv'
  <2>1. CASE req[q].pc = "history"
    BY <1>3, <2>1, StatementLost DEF Killed
  <2>2. CASE req[q].pc # "history"
    BY <1>3, <2>2, NothingDone DEF Killed
  <2> QED BY <2>1, <2>2
<1>4. ASSUME NEW q \in Requests, Close(q)
      PROVE  IInv'
  BY <1>4, NothingDone DEF Close
<1>5. CASE UNCHANGED vars
  BY <1>5, StutterKeeps
<1>6. CASE Next
  BY <1>1, <1>2, <1>3, <1>4, <1>6, Handlers, SubmitKeeps, UpdateKeeps, WriteKeeps,
     TickKeeps
<1> QED BY <1>5, <1>6

LEMMA InvariantHolds == Spec => []IInv
BY InitHolds, StepKeeps, PTL DEF Spec

-----------------------------------------------------------------------------
(* The theorems.                                                           *)

\* What BanHistory shows first is the last row.
LEMMA FirstShown ==
    ASSUME NEW u \in Passengers, history[u] \in Seq(Ban), history[u] # << >>
    PROVE  BanHistory(u)[1] = Latest(history[u])
<1>1. Len(history[u]) \in Nat /\ Len(history[u]) # 0
  BY EmptySeq, LenProperties
<1>2. 1 \in 1..Len(history[u]) /\ Len(history[u]) + 1 - 1 = Len(history[u])
  BY <1>1
<1> QED BY <1>2 DEF BanHistory, Latest

\* The columns of the two tables, and what the server keeps of a request,
\* have their types.
THEOREM Typed == Spec => []TypeOK
BY InvariantHolds, PTL DEF IInv

\* The history has every ban in force of which no statement was lost, in
\* whatever order the handlers ran; if they ran one after another, GET
\* /admin/passengers/{id}/bans shows that ban first, and not lifted.
THEOREM BansAreRecorded == Spec => []BanOnRecord
<1>1. IInv => BanOnRecord
  <2> SUFFICES ASSUME IInv, NEW u \in Passengers \ lost, Banned(u), ~Pending(u)
               PROVE  /\ \E i \in DOMAIN history[u] : history[u][i].until = until[u]
                      /\ u \notin overlapped =>
                            BanHistory(u)[1] = [until |-> until[u], lifted |-> None]
    BY DEF BanOnRecord
  <2>1. \A q \in Requests : ~Writing(q, u)
    BY DEF Pending, Writing
  <2>2. u \in banned
    BY DEF Banned
  <2>3. OnItsWay(u) /\ history[u] \in Seq(Ban)
    BY TableFacts DEF IInv, Sound
  <2>4. u \notin overlapped => Settled(u)
    BY DEF IInv, Sound
  <2> QED BY <2>1, <2>2, <2>3, <2>4, FirstShown DEF OnItsWay, Settled
<1> QED BY <1>1, InvariantHolds, PTL

\* When the handlers ran one after another, none of their statements was
\* lost, and nobody is suspended any more, the ban shown first is lifted, or
\* one that was to last longer is.
THEOREM LiftsAreRecorded == Spec => []LiftOnRecord
<1>1. IInv => LiftOnRecord
  <2> SUFFICES ASSUME IInv, NEW u \in Passengers \ (lost \cup overlapped),
                      until[u] = None, ~Pending(u), history[u] # << >>
               PROVE  \/ BanHistory(u)[1].lifted # None
                      \/ \E i \in DOMAIN history[u] :
                            /\ history[u][i].lifted # None
                            /\ history[u][i].until > BanHistory(u)[1].until
    BY DEF LiftOnRecord
  <2>1. \A q \in Requests : ~Writing(q, u)
    BY DEF Pending, Writing
  <2>2. Settled(u) /\ history[u] \in Seq(Ban)
    BY TableFacts DEF IInv, Sound
  <2> QED BY <2>1, <2>2, FirstShown DEF Settled, LiftedLatest
<1> QED BY <1>1, InvariantHolds, PTL

\* No statement removes a row of the history, changes until when its ban
\* was, or the time at which it was lifted.
THEOREM HistoryStands == Spec => HistoryKept
<1> DEFINE Kept(u) ==
       \A i \in DOMAIN history[u] :
          /\ i \in DOMAIN history'[u]
          /\ history'[u][i].until = history[u][i].until
          /\ history[u][i].lifted # None => history'[u][i] = history[u][i]
<1>1. IInv /\ [Next]_vars => [\A u \in Passengers : Kept(u)]_vars
  <2> SUFFICES ASSUME IInv, Next, NEW u \in Passengers
               PROVE  Kept(u)
    OBVIOUS
  <2>1. CASE history' = history
    BY <2>1
  <2>2. ASSUME NEW q \in Requests, WriteHistory(q)
        PROVE  Kept(u)
    <3> DEFINE v == req[q].target
               k == IF req[q].op = "ban" THEN Appended(v, req[q].until) ELSE Lifted(v)
    <3>1. history' = [history EXCEPT ![v] = k] /\ req[q].pc = "history"
      BY <2>2 DEF WriteHistory
    <3>2. /\ v \in Passengers /\ history \in [Passengers -> Seq(Ban)]
          /\ history[v] \in Seq(Ban) /\ now \in Nat
          /\ req[q].op = "ban" => req[q].until \in Nat
      BY <3>1, RequestFacts, TableFacts DEF RequestOk
    <3>3. \A i \in DOMAIN history[v] :
             /\ i \in DOMAIN k /\ k[i].until = history[v][i].until
             /\ history[v][i].lifted # None => k[i] = history[v][i]
      BY <3>2, AppendedFacts, LiftedFacts
    <3>4. history'[u] = IF u = v THEN k ELSE history[u]
      BY <3>1, <3>2
    <3> HIDE DEF k
    <3> QED BY <3>3, <3>4
  <2>3. history' = history \/ \E q \in Requests : WriteHistory(q)
    BY Handlers DEF Submit, UpdateAccount, NotFound, DbError, Killed, Close, Tick
  <2> QED BY <2>1, <2>2, <2>3
<1> QED BY <1>1, InvariantHolds, PTL DEF Spec, HistoryKept

=============================================================================
