----------------------------- MODULE OtpProofs ------------------------------
(***************************************************************************)
(* One-time codes, for any number of accounts, codes and requests, with or *)
(* without faults.                                                         *)
(*                                                                         *)
(* The argument counts requests.  While a code is stored, its wrong        *)
(* guesses are the attempts of its row and the requests that have still to *)
(* count theirs (Stored); the attempts grow no further than those that     *)
(* were judged before the third was counted (Row); and a code that buys a  *)
(* token pair is no longer stored, so only those that were judged by it    *)
(* together can buy another (Known).  The other way round, the attempts and *)
(* the requests that will still count one are no more than its wrong       *)
(* guesses and those that were to be counted when it was stored (Earned).  *)
(***************************************************************************)
EXTENDS Otp, FiniteSetTheorems, TLAPS

Most == MaxAttempts - 1 + Cardinality(Requests)

\* Which operation can be at which call, with what.
RequestOk(m) ==
    /\ m.pc \in {"idle", "done", "detect", "store", "select"} => m.seen = None
    /\ m.pc \notin {"idle", "done"} => m.account \in Accounts
    /\ m.pc = "detect" => m.op \in {"request", "verify"}
    /\ m.pc \in {"store", "send"} => m.op = "request"
    /\ m.pc \in {"select", "increment", "delete", "lookup", "insert"} =>
          m.op = "verify"
    /\ m.pc \in {"send", "increment", "delete", "lookup", "insert"} =>
          m.seen \in Codes

\* The requests judged by a code, those of them that have still to count a
\* wrong guess, and those that will count one against an account.
JudgedBy(c)   == {q \in Requests : Judged(q, c)}
Counting(c)   == {q \in Requests : Judged(q, c) /\ req[q].pc = "increment"}
CountingAt(a) == {q \in Requests : req[q].pc = "increment" /\ req[q].account = a}

\* What holds of every code, whether it is stored or not.
Known(c) ==
    /\ Cardinality(Counting(c)) <= wrong[c]
    /\ wrong[c] <= Most
    /\ used[c] + Cardinality(JudgedBy(c)) <= Cardinality(Requests)
    /\ c \notin contested => /\ wrong[c] <= MaxAttempts
                             /\ used[c] + Cardinality(JudgedBy(c)) <= 1

\* What holds of a code while it is the one stored for a.
Stored(a, c) ==
    /\ \A b \in Accounts : otp[b].code = c => b = a
    /\ \A q \in Requests : Judged(q, c) =>
          req[q].account = a /\ req[q].pc \in {"increment", "delete"}
    /\ wrong[c] <= otp[a].attempts + Cardinality(Counting(c))
    /\ used[c] = 0

\* What holds of every row.
Row(a) ==
    /\ otp[a].code = None => otp[a] = NoCode
    /\ otp[a].attempts + Cardinality(CountingAt(a)) <= Most

\* The wrong guesses that may be counted against a code without being at it.
Stray(c) == IF c \in strayed THEN Cardinality(Requests) - 1 ELSE 0

\* What holds of the attempts while c is stored for a.
Earned(a, c) ==
    otp[a].attempts + Cardinality(CountingAt(a)) <= wrong[c] + Stray(c)

\* While no SMS of another code can be on its way.
Current(a) ==
    /\ a \in told => otp[a].code \in {inbox[a], None}
    /\ \A q \in Requests : Sending(q, a) => otp[a].code \in {req[q].seen, None}

\* The inductive invariant.
IInv ==
    /\ TypeOK
    /\ \A q \in Requests : RequestOk(req[q])
    /\ \A c \in Codes : Known(c)
    /\ \A a \in Accounts : Row(a)
    /\ \A a \in Accounts, c \in Codes :
          otp[a].code = c => Stored(a, c) /\ Earned(a, c)
    /\ \A a \in Accounts \ crossed : Current(a)

-----------------------------------------------------------------------------
(* Counting requests.                                                      *)

LEMMA Constants ==
    /\ IsFiniteSet(Requests) /\ Cardinality(Requests) \in Nat
    /\ Most \in Nat /\ Most = 2 + Cardinality(Requests) /\ MaxAttempts = 3
    /\ None \notin Accounts /\ None \notin Codes
BY OtpAssumption, FS_CardinalityType DEF Most, MaxAttempts

LEMMA Tallies ==
    ASSUME NEW S \in SUBSET Requests
    PROVE  /\ IsFiniteSet(S) /\ Cardinality(S) \in Nat
           /\ Cardinality(S) <= Cardinality(Requests)
BY Constants, FS_Subset, FS_CardinalityType

LEMMA Without ==
    ASSUME NEW S \in SUBSET Requests, NEW q \in Requests
    PROVE  /\ q \in S => Cardinality(S \ {q}) = Cardinality(S) - 1
           /\ q \notin S => Cardinality(S \ {q}) = Cardinality(S)
BY Tallies, FS_RemoveElement

LEMMA With ==
    ASSUME NEW S \in SUBSET Requests, NEW q \in Requests, q \notin S
    PROVE  Cardinality(S \cup {q}) = Cardinality(S) + 1
BY Tallies, FS_AddElement

LEMMA Counts ==
    /\ \A c : /\ JudgedBy(c) \in SUBSET Requests /\ Cardinality(JudgedBy(c)) \in Nat
              /\ Counting(c) \in SUBSET Requests /\ Cardinality(Counting(c)) \in Nat
              /\ Cardinality(Counting(c)) <= Cardinality(Requests)
              /\ Cardinality(JudgedBy(c)) <= Cardinality(Requests)
    /\ \A a : /\ CountingAt(a) \in SUBSET Requests
              /\ Cardinality(CountingAt(a)) \in Nat
              /\ Cardinality(CountingAt(a)) <= Cardinality(Requests)
<1>1. ASSUME NEW c
      PROVE  JudgedBy(c) \in SUBSET Requests /\ Counting(c) \in SUBSET Requests
  BY DEF JudgedBy, Counting
<1>2. ASSUME NEW a
      PROVE  CountingAt(a) \in SUBSET Requests
  BY DEF CountingAt
<1> QED BY <1>1, <1>2, Tallies

LEMMA Tally1 ==
    ASSUME NEW q \in Requests, NEW c
    PROVE  /\ Judged(q, c) => Cardinality(JudgedBy(c)) >= 1
           /\ Judged(q, c) /\ req[q].pc = "increment" => Cardinality(Counting(c)) >= 1
<1>1. /\ Judged(q, c) => q \in JudgedBy(c)
      /\ Judged(q, c) /\ req[q].pc = "increment" => q \in Counting(c)
  BY DEF JudgedBy, Counting
<1>2. \A S \in SUBSET Requests : q \in S => Cardinality(S) >= 1
  <2> TAKE S \in SUBSET Requests
  <2>1. /\ Cardinality(S) \in Nat /\ Cardinality(S \ {q}) \in Nat
        /\ q \in S => Cardinality(S \ {q}) = Cardinality(S) - 1
    <3>1. S \ {q} \in SUBSET Requests
      OBVIOUS
    <3> QED BY <3>1, Tallies, Without
  <2> QED BY <2>1
<1> QED BY <1>1, <1>2, Counts

\* What a step does to its request.
Moves(q, n) == req' = [req EXCEPT ![q] = n]

LEMMA Table ==
    ASSUME IInv
    PROVE  /\ req \in [Requests -> RequestState]
           /\ \A q \in Requests : RequestOk(req[q]) /\ req[q] \in RequestState
           /\ \A a \in Accounts :
                 /\ otp[a].code \in Codes \cup {None} /\ otp[a].attempts \in Nat
                 /\ otp[a].expired \in BOOLEAN
           /\ \A c \in Codes : wrong[c] \in Nat /\ used[c] \in Nat
           /\ wrong \in [Codes -> Nat] /\ used \in [Codes -> Nat]
<1>1. TypeOK /\ \A q \in Requests : RequestOk(req[q])
  BY DEF IInv
<1>2. /\ wrong \in [Codes -> Nat] /\ used \in [Codes -> Nat]
      /\ req \in [Requests -> RequestState]
  BY <1>1 DEF TypeOK
<1>3. otp \in [Accounts -> [code : Codes \cup {None}, expired : BOOLEAN,
                  attempts : 0..(MaxAttempts - 1 + Cardinality(Requests))]]
  BY <1>1 DEF TypeOK
<1>4. ASSUME NEW a \in Accounts
      PROVE  /\ otp[a].code \in Codes \cup {None} /\ otp[a].attempts \in Nat
             /\ otp[a].expired \in BOOLEAN
  BY <1>3
<1> QED BY <1>1, <1>2, <1>4

\* q is no longer judged by any code.
Uncounted(q) ==
    /\ \A c \in Codes :
          /\ Cardinality(JudgedBy(c)') =
                IF Judged(q, c) THEN Cardinality(JudgedBy(c)) - 1
                ELSE Cardinality(JudgedBy(c))
          /\ Cardinality(Counting(c)') =
                IF Judged(q, c) /\ req[q].pc = "increment"
                THEN Cardinality(Counting(c)) - 1
                ELSE Cardinality(Counting(c))
          /\ \A p \in Requests : Judged(p, c)' =>
                Judged(p, c) /\ p # q /\ req'[p] = req[p]
    /\ \A a \in Accounts :
          Cardinality(CountingAt(a)') =
             IF req[q].pc = "increment" /\ req[q].account = a
             THEN Cardinality(CountingAt(a)) - 1
             ELSE Cardinality(CountingAt(a))

\* A request that is no longer judged by a code, or was not and is not.
LEMMA Fewer ==
    ASSUME IInv, NEW q \in Requests, NEW n \in RequestState, Moves(q, n),
           n.op # "verify" \/ n.seen = None, n.pc # "increment"
    PROVE  Uncounted(q)
<1>1. \A p \in Requests : req'[p] = IF p = q THEN n ELSE req[p]
  BY Table DEF Moves
<1>2. ASSUME NEW c \in Codes
      PROVE  /\ JudgedBy(c)' = JudgedBy(c) \ {q}
             /\ Counting(c)' = Counting(c) \ {q}
             /\ \A p \in Requests : Judged(p, c)' =>
                   Judged(p, c) /\ p # q /\ req'[p] = req[p]
  <2>1. ~(n.op = "verify" /\ n.seen = c)
    BY Constants
  <2>2. \A p \in Requests : Judged(p, c)' <=> Judged(p, c) /\ p # q
    BY <1>1, <2>1 DEF Judged
  <2> QED BY <1>1, <2>2 DEF JudgedBy, Counting
<1>3. ASSUME NEW a \in Accounts
      PROVE  CountingAt(a)' = CountingAt(a) \ {q}
  BY <1>1 DEF CountingAt
<1>4. \A c : /\ q \in JudgedBy(c) <=> Judged(q, c)
             /\ q \in Counting(c) <=> Judged(q, c) /\ req[q].pc = "increment"
  BY DEF JudgedBy, Counting
<1>5. \A a : q \in CountingAt(a) <=> req[q].pc = "increment" /\ req[q].account = a
  BY DEF CountingAt
<1> QED BY <1>2, <1>3, <1>4, <1>5, Counts, Without DEF Uncounted

\* A request that is judged by nothing, or as it was.
LEMMA AsMany ==
    ASSUME IInv, NEW q \in Requests, NEW n \in RequestState, Moves(q, n),
           n.seen = req[q].seen,
           n.seen = None \/ (n.op = req[q].op /\ n.account = req[q].account),
           n.pc # "increment", req[q].pc # "increment"
    PROVE  /\ \A c \in Codes :
                 /\ JudgedBy(c)' = JudgedBy(c) /\ Counting(c)' = Counting(c)
                 /\ \A p \in Requests : Judged(p, c)' <=> Judged(p, c)
           /\ \A a \in Accounts : CountingAt(a)' = CountingAt(a)
<1>1. \A p \in Requests : req'[p] = IF p = q THEN n ELSE req[p]
  BY Table DEF Moves
<1>2. ASSUME NEW c \in Codes
      PROVE  /\ JudgedBy(c)' = JudgedBy(c) /\ Counting(c)' = Counting(c)
             /\ \A p \in Requests : Judged(p, c)' <=> Judged(p, c)
  <2>1. \A p \in Requests : Judged(p, c)' <=> Judged(p, c)
    BY <1>1, Constants DEF Judged
  <2> QED BY <1>1, <2>1 DEF JudgedBy, Counting
<1>3. ASSUME NEW a \in Accounts
      PROVE  CountingAt(a)' = CountingAt(a)
  BY <1>1 DEF CountingAt
<1> QED BY <1>2, <1>3

-----------------------------------------------------------------------------
(* Steps that leave the table otp_codes.                                   *)

Answered(c) == [Idle EXCEPT !.pc = "done", !.status = c]

LEMMA AnswerFacts ==
    /\ Idle \in RequestState /\ RequestOk(Idle) /\ Idle.seen = None
    /\ Idle.pc = "idle"
    /\ \A c \in {200, 401, 404, 410, 429, 500} :
          /\ Answered(c) \in RequestState /\ RequestOk(Answered(c))
          /\ Answered(c).seen = None /\ Answered(c).pc = "done"
          /\ \A q : Reply(q, c) => Moves(q, Answered(c))
<1>1. /\ Idle \in RequestState /\ RequestOk(Idle) /\ Idle.seen = None
      /\ Idle.pc = "idle"
  BY DEF Idle, RequestState, RequestOk
<1>2. ASSUME NEW c \in {200, 401, 404, 410, 429, 500}
      PROVE  /\ Answered(c) \in RequestState /\ RequestOk(Answered(c))
             /\ Answered(c).seen = None /\ Answered(c).pc = "done"
             /\ \A q : Reply(q, c) => Moves(q, Answered(c))
  <2> DEFINE y == [Idle EXCEPT !.pc = "done"]
  <2>1. y = [op |-> "none", account |-> None, code |-> None, seen |-> None,
             pc |-> "done", status |-> 0]
    BY DEF Idle
  <2>2. Answered(c) = [y EXCEPT !.status = c]
    BY DEF Answered
  <2> HIDE DEF y
  <2>3. Answered(c) = [op |-> "none", account |-> None, code |-> None,
                       seen |-> None, pc |-> "done", status |-> c]
    BY <2>1, <2>2
  <2>4. \A q : Reply(q, c) => Moves(q, Answered(c))
    BY DEF Reply, Moves, Answered
  <2> QED BY <2>3, <2>4 DEF RequestState, RequestOk
<1> QED BY <1>1, <1>2

\* The request ends, and may leave its wrong guess uncounted.
Ends(q) ==
    /\ \/ Moves(q, Idle)
       \/ \E c \in {200, 401, 404, 410, 429, 500} : Moves(q, Answered(c))
    /\ NotCounting(q)
    /\ UNCHANGED <<otp, inbox, told, crossed, registered, used, contested, strayed>>

LEMMA EndKeeps ==
    ASSUME IInv, NEW q \in Requests, Ends(q)
    PROVE  IInv'
<1>1. PICK n \in RequestState : /\ Moves(q, n) /\ RequestOk(n)
                                /\ n.seen = None /\ n.pc \in {"idle", "done"}
  BY AnswerFacts DEF Ends
<1>2. /\ UNCHANGED <<otp, inbox, told, crossed, registered, used, contested, strayed>>
      /\ NotCounting(q)
  BY DEF Ends
<1>3. \A p \in Requests : req'[p] = IF p = q THEN n ELSE req[p]
  BY <1>1, Table DEF Moves
<1>4. req' \in [Requests -> RequestState] /\ \A p \in Requests : RequestOk(req'[p])
  BY <1>1, Table DEF Moves
<1>5. Uncounted(q)
  <2>1. n.pc # "increment"
    BY <1>1
  <2> QED BY <1>1, <2>1, Fewer
<1>6. ASSUME NEW c \in Codes
      PROVE  wrong'[c] = IF Judged(q, c) /\ req[q].pc = "increment"
                         THEN wrong[c] - 1 ELSE wrong[c]
  <2>1. CASE req[q].pc # "increment"
    BY <1>2, <2>1 DEF NotCounting
  <2>2. CASE req[q].pc = "increment"
    <3>1. req[q].op = "verify" /\ wrong' = [wrong EXCEPT ![req[q].seen] = @ - 1]
      BY <1>2, <2>2, Table DEF NotCounting, RequestOk
    <3> QED BY <2>2, <3>1, Table DEF Judged
  <2> QED BY <2>1, <2>2
<1>7. ASSUME NEW c \in Codes
      PROVE  /\ wrong'[c] \in Nat /\ wrong'[c] <= wrong[c]
             /\ Cardinality(Counting(c)') \in Nat
             /\ wrong'[c] - Cardinality(Counting(c)')
                   = wrong[c] - Cardinality(Counting(c))
             /\ Cardinality(JudgedBy(c)') \in Nat
             /\ Cardinality(JudgedBy(c)') <= Cardinality(JudgedBy(c))
  <2>1. /\ wrong[c] \in Nat /\ Cardinality(Counting(c)) \in Nat
        /\ Cardinality(JudgedBy(c)) \in Nat
        /\ Cardinality(Counting(c)) <= wrong[c]
    BY Table, Counts DEF IInv, Known
  <2>2. Judged(q, c) /\ req[q].pc = "increment" => Cardinality(Counting(c)) >= 1
    BY Counts, Tally1
  <2>3. Judged(q, c) => Cardinality(JudgedBy(c)) >= 1
    BY Tally1
  <2> QED BY <1>5, <1>6, <2>1, <2>2, <2>3 DEF Uncounted
<1>8. TypeOK'
  <2>1. wrong' \in [Codes -> Nat]
    <3>1. \E S : wrong' = [c \in Codes |-> wrong'[c]]
      BY <1>2, Table DEF NotCounting
    <3> QED BY <1>7, <3>1
  <2> QED BY <1>2, <1>4, <2>1 DEF IInv, TypeOK
<1>9. ASSUME NEW c \in Codes
      PROVE  Known(c)'
  <2>1. /\ used'[c] = used[c] /\ used[c] \in Nat /\ contested' = contested
        /\ wrong[c] \in Nat /\ Cardinality(Counting(c)) \in Nat
        /\ Cardinality(JudgedBy(c)) \in Nat /\ Known(c)
    BY <1>2, Table, Counts DEF IInv
  <2> QED BY <1>7, <2>1, Constants DEF Known
<1>10. ASSUME NEW a \in Accounts
       PROVE  Row(a)'
  <2>1. /\ otp' = otp /\ otp[a].attempts \in Nat /\ Row(a)
        /\ Cardinality(CountingAt(a)) \in Nat
    BY <1>2, Table, Counts DEF IInv
  <2> QED BY <1>5, <2>1, Constants DEF Row, Uncounted
<1>11. ASSUME NEW a \in Accounts, NEW c \in Codes, otp'[a].code = c
       PROVE  Stored(a, c)'
  <2>1. /\ otp' = otp /\ otp[a].attempts \in Nat /\ Stored(a, c)
        /\ wrong[c] \in Nat /\ Cardinality(Counting(c)) \in Nat
        /\ used'[c] = used[c]
    BY <1>2, <1>11, Table, Counts DEF IInv
  <2>2. wrong'[c] <= otp'[a].attempts + Cardinality(Counting(c)')
    BY <1>7, <2>1 DEF Stored
  <2>3. \A p \in Requests : Judged(p, c)' =>
           req'[p].account = a /\ req'[p].pc \in {"increment", "delete"}
    BY <1>5, <2>1 DEF Stored, Uncounted
  <2> QED BY <2>1, <2>2, <2>3 DEF Stored
<1>12. ASSUME NEW a \in Accounts \ crossed'
       PROVE  Current(a)'
  <2>1. Current(a) /\ otp' = otp /\ inbox' = inbox /\ told' = told
    BY <1>2, <1>12 DEF IInv
  <2>2. \A p \in Requests : Sending(p, a)' => Sending(p, a) /\ req'[p] = req[p]
    BY <1>1, <1>3 DEF Sending
  <2> QED BY <2>1, <2>2 DEF Current
<1>13. ASSUME NEW a \in Accounts, NEW c \in Codes, otp'[a].code = c
       PROVE  Earned(a, c)'
  <2>1. /\ otp' = otp /\ otp[a].attempts \in Nat /\ strayed' = strayed
        /\ Earned(a, c) /\ Stored(a, c)
        /\ wrong[c] \in Nat /\ Cardinality(CountingAt(a)) \in Nat
    BY <1>2, <1>13, Table, Counts DEF IInv
  <2>2. Judged(q, c) => req[q].account = a
    BY <2>1 DEF Stored
  <2>3. wrong[c] - Cardinality(CountingAt(a))
           <= wrong'[c] - Cardinality(CountingAt(a)')
    BY <1>5, <1>6, <2>1, <2>2 DEF Uncounted
  <2> QED BY <1>5, <1>6, <2>1, <2>3, Constants DEF Earned, Stray, Uncounted
<1> QED BY <1>4, <1>8, <1>9, <1>10, <1>11, <1>12, <1>13 DEF IInv

\* The request goes on to its next call, and is judged as it was.
PassesTo(q, n) ==
    /\ Moves(q, n)
    /\ n.seen = req[q].seen
    /\ \/ n.seen = None
       \/ n.op = req[q].op /\ n.account = req[q].account /\ req[q].pc = "lookup"
    /\ n.pc \notin {"increment", "send"} /\ req[q].pc \notin {"increment", "send"}
    /\ UNCHANGED <<otp, inbox, told, crossed, registered, wrong, used, contested, strayed>>

LEMMA PassKeeps ==
    ASSUME IInv, NEW q \in Requests, NEW n \in RequestState, RequestOk(n),
           PassesTo(q, n)
    PROVE  IInv'
<1>1. /\ Moves(q, n) /\ n.seen = req[q].seen
      /\ \/ n.seen = None
         \/ n.op = req[q].op /\ n.account = req[q].account /\ req[q].pc = "lookup"
      /\ n.pc \notin {"increment", "send"} /\ req[q].pc \notin {"increment", "send"}
  BY DEF PassesTo
<1>2. /\ UNCHANGED <<otp, inbox, told, crossed, registered, wrong, used, contested, strayed>>
  BY DEF PassesTo
<1>3. \A p \in Requests : req'[p] = IF p = q THEN n ELSE req[p]
  BY <1>1, Table DEF Moves
<1>4. req' \in [Requests -> RequestState] /\ \A p \in Requests : RequestOk(req'[p])
  BY <1>1, Table DEF Moves
<1>5. /\ \A c \in Codes :
            /\ JudgedBy(c)' = JudgedBy(c) /\ Counting(c)' = Counting(c)
            /\ \A p \in Requests : Judged(p, c)' <=> Judged(p, c)
      /\ \A a \in Accounts : CountingAt(a)' = CountingAt(a)
  <2>1. n.pc # "increment" /\ req[q].pc # "increment"
    BY <1>1
  <2>2. n.seen = None \/ (n.op = req[q].op /\ n.account = req[q].account)
    BY <1>1
  <2>3. Moves(q, n) /\ n.seen = req[q].seen
    BY <1>1
  <2> QED BY ONLY IInv, q \in Requests, n \in RequestState, <2>1, <2>2, <2>3, AsMany
<1>6. TypeOK'
  BY <1>2, <1>4 DEF IInv, TypeOK
<1>7. ASSUME NEW c \in Codes
      PROVE  Known(c)'
  <2>1. Known(c)
    BY DEF IInv
  <2> QED BY <1>2, <1>5, <2>1 DEF Known
<1>8. ASSUME NEW a \in Accounts
      PROVE  Row(a)'
  <2>1. Row(a)
    BY DEF IInv
  <2> QED BY <1>2, <1>5, <2>1 DEF Row, Most
<1>9. ASSUME NEW a \in Accounts, NEW c \in Codes, otp'[a].code = c
      PROVE  Stored(a, c)'
  <2>1. otp' = otp /\ Stored(a, c)
    BY <1>2, <1>9 DEF IInv
  <2>2. ASSUME NEW p \in Requests, Judged(p, c)'
        PROVE  req'[p].account = a /\ req'[p].pc \in {"increment", "delete"}
    <3>1. Judged(p, c) /\ req[p].account = a /\ req[p].pc \in {"increment", "delete"}
      BY <1>5, <2>1, <2>2 DEF Stored
    <3>2. p # q
      BY <1>1, <3>1, Constants DEF Judged
    <3> QED BY <1>3, <3>1, <3>2
  <2> QED BY <1>2, <1>5, <2>1, <2>2 DEF Stored
<1>10. ASSUME NEW a \in Accounts \ crossed'
       PROVE  Current(a)'
  <2>1. Current(a) /\ otp' = otp /\ inbox' = inbox /\ told' = told
    BY <1>2, <1>10 DEF IInv
  <2>2. \A p \in Requests : Sending(p, a)' => Sending(p, a) /\ req'[p] = req[p]
    BY <1>1, <1>3 DEF Sending
  <2> QED BY <2>1, <2>2 DEF Current
<1>11. ASSUME NEW a \in Accounts, NEW c \in Codes, otp'[a].code = c
       PROVE  Earned(a, c)'
  BY <1>2, <1>5, <1>11 DEF IInv, Earned, Stray
<1> QED BY <1>4, <1>6, <1>7, <1>8, <1>9, <1>10, <1>11 DEF IInv

LEMMA SubmitKeeps ==
    ASSUME IInv, NEW q \in Requests, Submit(q)
    PROVE  IInv'
<1>1. PICK a \in Accounts, op \in {"request", "verify"}, c \in Codes \cup {None},
           pc \in {"detect", "store", "select"} :
         /\ pc \in {"detect", FirstCall(op)}
         /\ Moves(q, [op |-> op, account |-> a, code |-> c, seen |-> None,
                      pc |-> pc, status |-> 0])
  BY DEF Submit, Moves, FirstCall
<1> DEFINE n == [op |-> op, account |-> a, code |-> c, seen |-> None,
                 pc |-> pc, status |-> 0]
<1>2. /\ pc = "store" => op = "request"
      /\ pc = "select" => op = "verify"
  BY <1>1 DEF FirstCall
<1>3. n \in RequestState
  BY <1>2 DEF RequestState
<1>4. RequestOk(n)
  BY <1>2 DEF RequestOk
<1>5. PassesTo(q, n)
  <2>1. req[q].seen = None /\ req[q].pc = "idle"
    BY DEF Submit, Idle
  <2> QED BY <1>1, <1>2, <2>1 DEF PassesTo, Submit, sms, counts
<1> HIDE DEF n
<1> QED BY <1>3, <1>4, <1>5, PassKeeps

\* A request that goes on to another call.
LEMMA GotoFacts ==
    ASSUME IInv, NEW q \in Requests,
           NEW pc \in {"store", "select", "lookup", "insert"}, Goto(q, pc)
    PROVE  \E n \in RequestState :
              /\ Moves(q, n) /\ n.pc = pc /\ n.op = req[q].op
              /\ n.account = req[q].account /\ n.seen = req[q].seen
<1> DEFINE n == [req[q] EXCEPT !.pc = pc]
<1>1. req[q] \in RequestState
  BY Table
<1>2. /\ n \in RequestState /\ n.pc = pc /\ n.op = req[q].op
      /\ n.account = req[q].account /\ n.seen = req[q].seen
  BY <1>1 DEF RequestState
<1>3. Moves(q, n)
  BY DEF Goto, Moves
<1> QED BY <1>2, <1>3

LEMMA DetectRoleKeeps ==
    ASSUME IInv, NEW q \in Requests, DetectRole(q)
    PROVE  IInv'
<1>1. /\ req[q].pc = "detect" /\ req[q].op \in {"request", "verify"}
      /\ req[q].seen = None /\ req[q].account \in Accounts
      /\ UNCHANGED <<otp, inbox, told, crossed, registered, wrong, used, contested, strayed>>
  BY Table DEF DetectRole, RequestOk, sms, counts
<1>2. CASE Goto(q, FirstCall(req[q].op))
  <2>1. FirstCall(req[q].op) \in {"store", "select", "lookup", "insert"}
    BY DEF FirstCall
  <2>2. PICK n \in RequestState :
           /\ Moves(q, n) /\ n.pc = FirstCall(req[q].op) /\ n.op = req[q].op
           /\ n.account = req[q].account /\ n.seen = req[q].seen
    BY <1>2, <2>1, GotoFacts
  <2>3. RequestOk(n)
    BY <1>1, <2>2 DEF RequestOk, FirstCall
  <2>4. PassesTo(q, n)
    BY <1>1, <2>2 DEF PassesTo, FirstCall
  <2> QED BY <2>3, <2>4, PassKeeps
<1>3. CASE Reply(q, 404)
  <2>1. Moves(q, Answered(404))
    BY <1>3, AnswerFacts
  <2>2. Ends(q)
    BY <1>1, <2>1 DEF Ends, NotCounting
  <2> QED BY <2>2, EndKeeps
<1> QED BY <1>2, <1>3 DEF DetectRole

LEMMA LookupUserKeeps ==
    ASSUME IInv, NEW q \in Requests, LookupUser(q)
    PROVE  IInv'
<1>1. /\ req[q].pc = "lookup" /\ req[q].op = "verify"
      /\ req[q].seen \in Codes /\ req[q].account \in Accounts
      /\ UNCHANGED <<otp, inbox, told, crossed, registered, wrong, used, contested, strayed>>
  BY Table DEF LookupUser, RequestOk, sms, counts
<1>2. CASE Goto(q, "insert")
  <2>1. PICK n \in RequestState :
           /\ Moves(q, n) /\ n.pc = "insert" /\ n.op = req[q].op
           /\ n.account = req[q].account /\ n.seen = req[q].seen
    BY <1>2, GotoFacts
  <2>2. RequestOk(n)
    BY <1>1, <2>1 DEF RequestOk
  <2>3. PassesTo(q, n)
    BY <1>1, <2>1 DEF PassesTo
  <2> QED BY <2>2, <2>3, PassKeeps
<1>3. CASE Reply(q, 401)
  <2>1. Moves(q, Answered(401))
    BY <1>3, AnswerFacts
  <2>2. Ends(q)
    BY <1>1, <2>1 DEF Ends, NotCounting
  <2> QED BY <2>2, EndKeeps
<1> QED BY <1>2, <1>3 DEF LookupUser

LEMMA EndingsKeep ==
    ASSUME IInv, NEW q \in Requests, CallFails(q) \/ Killed(q) \/ Close(q)
    PROVE  IInv'
<1>1. CASE CallFails(q)
  <2>1. \E c \in {200, 401, 404, 410, 429, 500} : Moves(q, Answered(c))
    BY <1>1, AnswerFacts DEF CallFails
  <2> QED BY <1>1, <2>1, EndKeeps DEF Ends, CallFails, sms
<1>2. CASE Killed(q)
  <2>1. Ends(q)
    BY <1>2 DEF Ends, Killed, sms, Moves
  <2> QED BY <2>1, EndKeeps
<1>3. CASE Close(q)
  <2>1. Ends(q)
    BY <1>3 DEF Ends, Close, NotCounting, sms, counts, Moves
  <2> QED BY <2>1, EndKeeps
<1> QED BY <1>1, <1>2, <1>3

\* Requests are not touched.
LEMMA ExpireKeeps ==
    ASSUME IInv, NEW a \in Accounts, Expire(a)
    PROVE  IInv'
<1>1. /\ otp[a] # NoCode /\ otp' = [otp EXCEPT ![a].expired = TRUE]
      /\ UNCHANGED <<inbox, told, crossed, registered, wrong, used, contested, strayed, req>>
  BY DEF Expire, sms, counts
<1>2. otp \in [Accounts -> [code : Codes \cup {None}, expired : BOOLEAN,
                  attempts : 0..(MaxAttempts - 1 + Cardinality(Requests))]]
  BY DEF IInv, TypeOK
<1>3. \A b \in Accounts : /\ otp'[b].code = otp[b].code
                          /\ otp'[b].attempts = otp[b].attempts
                          /\ b # a => otp'[b] = otp[b]
  BY <1>1, <1>2
<1>4. \A c \in Codes : /\ JudgedBy(c)' = JudgedBy(c) /\ Counting(c)' = Counting(c)
                       /\ \A p \in Requests : Judged(p, c)' <=> Judged(p, c)
  BY <1>1 DEF JudgedBy, Counting, Judged
<1>5. \A b \in Accounts : CountingAt(b)' = CountingAt(b)
  BY <1>1 DEF CountingAt
<1>6. TypeOK'
  <2>1. otp' \in [Accounts -> [code : Codes \cup {None}, expired : BOOLEAN,
                     attempts : 0..(MaxAttempts - 1 + Cardinality(Requests))]]
    BY <1>1, <1>2
  <2> QED BY <1>1, <2>1 DEF IInv, TypeOK
<1>7. ASSUME NEW c \in Codes
      PROVE  Known(c)'
  BY <1>1, <1>4 DEF IInv, Known, Most
<1>8. ASSUME NEW b \in Accounts
      PROVE  Row(b)'
  <2>1. Row(b) /\ Row(a)
    BY DEF IInv
  <2>2. otp'[b].code = None => b # a
    BY <1>1, <1>3, <2>1 DEF Row
  <2> QED BY <1>3, <1>5, <2>1, <2>2 DEF Row, Most
<1>9. ASSUME NEW b \in Accounts, NEW c \in Codes, otp'[b].code = c
      PROVE  Stored(b, c)'
  <2>1. Stored(b, c)
    BY <1>3, <1>9 DEF IInv
  <2> QED BY <1>1, <1>3, <1>4, <2>1 DEF Stored
<1>10. ASSUME NEW b \in Accounts \ crossed'
       PROVE  Current(b)'
  BY <1>1, <1>3, <1>10 DEF IInv, Current, Sending
<1>11. ASSUME NEW b \in Accounts, NEW c \in Codes, otp'[b].code = c
       PROVE  Earned(b, c)'
  <2>1. Earned(b, c)
    BY <1>3, <1>11 DEF IInv
  <2> QED BY <1>1, <1>3, <1>5, <2>1 DEF Earned, Stray
<1> QED BY <1>1, <1>6, <1>7, <1>8, <1>9, <1>10, <1>11 DEF IInv

LEMMA TablesStand ==
    ASSUME IInv, registered' \subseteq Accounts,
           UNCHANGED <<otp, inbox, told, crossed, wrong, used, contested, strayed, req>>
    PROVE  IInv'
<1>1. TypeOK'
  BY DEF IInv, TypeOK
<1>2. \A c : /\ JudgedBy(c)' = JudgedBy(c) /\ Counting(c)' = Counting(c)
             /\ \A p : Judged(p, c)' <=> Judged(p, c)
  BY DEF JudgedBy, Counting, Judged
<1>3. \A a : CountingAt(a)' = CountingAt(a)
  BY DEF CountingAt
<1>4. \A c \in Codes : Known(c)'
  BY <1>2 DEF IInv, Known, Most
<1>5. \A a \in Accounts : Row(a)'
  BY <1>3 DEF IInv, Row, Most
<1>6. \A a \in Accounts, c \in Codes : otp'[a].code = c => Stored(a, c)'
  BY <1>2 DEF IInv, Stored
<1>7. \A a \in Accounts \ crossed' : Current(a)'
  BY DEF IInv, Current, Sending
<1>8. \A q \in Requests : RequestOk(req'[q])
  BY DEF IInv
<1>9. \A a \in Accounts, c \in Codes : otp'[a].code = c => Earned(a, c)'
  BY <1>3 DEF IInv, Earned, Stray
<1> QED BY <1>1, <1>4, <1>5, <1>6, <1>7, <1>8, <1>9 DEF IInv

LEMMA RegisterKeeps ==
    ASSUME IInv, NEW a \in Accounts, Register(a)
    PROVE  IInv'
<1>1. registered' \subseteq Accounts
  BY DEF Register, IInv, TypeOK
<1> QED BY <1>1, TablesStand DEF Register, sms, counts

LEMMA StutterKeeps ==
    ASSUME IInv, UNCHANGED vars
    PROVE  IInv'
<1>1. registered' \subseteq Accounts
  BY DEF vars, IInv, TypeOK
<1> QED BY <1>1, TablesStand DEF vars, sms, counts

-----------------------------------------------------------------------------
(* RequestOTP.                                                             *)

LEMMA SendCodeKeeps ==
    ASSUME IInv, NEW q \in Requests, SendCode(q)
    PROVE  IInv'
<1> DEFINE a == req[q].account
<1>1. /\ req[q].pc = "send" /\ req[q].op = "request" /\ a \in Accounts
      /\ req[q].seen \in Codes
      /\ inbox' = [inbox EXCEPT ![a] = req[q].seen]
      /\ told' \in {told, told \cup {a}}
      /\ UNCHANGED <<otp, crossed, registered, wrong, used, contested, strayed>>
  BY Table DEF SendCode, RequestOk, counts
<1>2. PICK n \in RequestState : /\ Moves(q, n) /\ RequestOk(n)
                                /\ n.seen = None /\ n.pc = "done"
  BY AnswerFacts DEF SendCode
<1>3. req' \in [Requests -> RequestState] /\ \A p \in Requests : RequestOk(req'[p])
  BY <1>2, Table DEF Moves
<1>4. \A p \in Requests : req'[p] = IF p = q THEN n ELSE req[p]
  BY <1>2, Table DEF Moves
<1>5. /\ \A c \in Codes : /\ Counting(c)' = Counting(c) /\ JudgedBy(c)' = JudgedBy(c)
                          /\ \A p \in Requests : Judged(p, c)' <=> Judged(p, c)
                          /\ ~Judged(q, c)
      /\ \A b \in Accounts : CountingAt(b)' = CountingAt(b)
  <2>1. \A c \in Codes : \A p \in Requests :
           /\ Judged(p, c)' <=> Judged(p, c)
           /\ ~Judged(q, c)
    BY <1>1, <1>2, <1>4, Constants DEF Judged
  <2> QED BY <1>1, <1>2, <1>4, <2>1 DEF Counting, JudgedBy, CountingAt
<1>6. inbox \in [Accounts -> Codes \cup {None}]
  BY DEF IInv, TypeOK
<1>7. TypeOK'
  BY <1>1, <1>3, <1>6 DEF IInv, TypeOK
<1>8. ASSUME NEW c \in Codes
      PROVE  Known(c)'
  BY <1>1, <1>5 DEF IInv, Known, Most
<1>9. ASSUME NEW b \in Accounts
      PROVE  Row(b)'
  BY <1>1, <1>5 DEF IInv, Row, Most
<1>10. ASSUME NEW b \in Accounts, NEW c \in Codes, otp'[b].code = c
       PROVE  Stored(b, c)'
  <2>1. Stored(b, c)
    BY <1>1, <1>10 DEF IInv
  <2>2. \A p \in Requests : Judged(p, c)' => Judged(p, c) /\ req'[p] = req[p]
    BY <1>4, <1>5
  <2> QED BY <1>1, <1>5, <2>1, <2>2 DEF Stored
<1>11. ASSUME NEW b \in Accounts \ crossed'
       PROVE  Current(b)'
  <2>1. Current(b) /\ otp' = otp
    BY <1>1, <1>11 DEF IInv
  <2>2. \A p \in Requests : Sending(p, b)' => Sending(p, b) /\ req'[p] = req[p]
    BY <1>2, <1>4 DEF Sending
  <2>3. b \in told' => otp[b].code \in {inbox'[b], None}
    <3>1. CASE b = a
      BY <1>1, <1>6, <2>1, <3>1 DEF Current, Sending
    <3>2. CASE b # a
      BY <1>1, <1>6, <2>1, <3>2 DEF Current
    <3> QED BY <3>1, <3>2
  <2> QED BY <2>1, <2>2, <2>3 DEF Current
<1>12. ASSUME NEW b \in Accounts, NEW c \in Codes, otp'[b].code = c
       PROVE  Earned(b, c)'
  BY <1>1, <1>5, <1>12 DEF IInv, Earned, Stray
<1> QED BY <1>3, <1>7, <1>8, <1>9, <1>10, <1>11, <1>12 DEF IInv

\* A request whose code has been stored and is to be sent.
Posting(m, c) == [m EXCEPT !.pc = "send", !.seen = c]

LEMMA PostingFacts ==
    ASSUME NEW m \in RequestState, NEW c \in Codes, m.op = "request",
           m.account \in Accounts
    PROVE  /\ Posting(m, c) \in RequestState /\ RequestOk(Posting(m, c))
           /\ Posting(m, c).pc = "send" /\ Posting(m, c).seen = c
           /\ Posting(m, c).op = "request" /\ Posting(m, c).account = m.account
<1> DEFINE x == [m EXCEPT !.pc = "send"]
<1>1. /\ x \in RequestState /\ x.pc = "send" /\ x.op = m.op
      /\ x.account = m.account
  BY DEF RequestState
<1>2. Posting(m, c) = [x EXCEPT !.seen = c]
  BY DEF Posting
<1> HIDE DEF x
<1>3. /\ Posting(m, c) \in RequestState
      /\ Posting(m, c).pc = "send" /\ Posting(m, c).seen = c
      /\ Posting(m, c).op = "request" /\ Posting(m, c).account = m.account
  BY <1>1, <1>2 DEF RequestState
<1> QED BY <1>3 DEF RequestOk

LEMMA StoreCodeKeeps ==
    ASSUME IInv, NEW q \in Requests, StoreCode(q)
    PROVE  IInv'
<1> DEFINE a == req[q].account
<1>1. /\ req[q].pc = "store" /\ req[q].op = "request" /\ a \in Accounts
      /\ req[q].seen = None /\ req[q] \in RequestState
      /\ UNCHANGED <<inbox, registered>>
  BY Table DEF StoreCode, RequestOk
<1>2. PICK c \in Codes :
         /\ Fresh(c)
         /\ otp' = [otp EXCEPT ![a] = [code |-> c, attempts |-> 0, expired |-> FALSE]]
         /\ told' = told \ {a}
         /\ crossed' = IF \E p \in Requests : Sending(p, a)
                       THEN crossed \cup {a} ELSE crossed \ {a}
         /\ Moves(q, Posting(req[q], c)) \/ Reply(q, 500)
         /\ wrong' = [wrong EXCEPT ![c] = 0]
         /\ used' = [used EXCEPT ![c] = 0]
         /\ contested' = contested \ {c}
         /\ strayed' = IF \E p \in Requests : ToCount(p, a)
                       THEN strayed \cup {c} ELSE strayed \ {c}
  BY DEF StoreCode, Replaced, Moves, Posting
<1>3. PICK n \in RequestState :
         /\ Moves(q, n) /\ RequestOk(n)
         /\ \/ n.seen = None /\ n.pc = "done"
            \/ n.op = "request" /\ n.seen = c /\ n.pc = "send" /\ n.account = a
  BY <1>1, <1>2, PostingFacts, AnswerFacts
<1>4. \A p \in Requests : req'[p] = IF p = q THEN n ELSE req[p]
  BY <1>3, Table DEF Moves
<1>5. req' \in [Requests -> RequestState] /\ \A p \in Requests : RequestOk(req'[p])
  BY <1>3, Table DEF Moves
<1>6. /\ otp'[a] = [code |-> c, attempts |-> 0, expired |-> FALSE]
      /\ \A b \in Accounts : b # a => otp'[b] = otp[b]
      /\ a \notin told'
      /\ \A b \in Accounts : b # a => (b \in told' <=> b \in told)
  BY <1>1, <1>2 DEF IInv, TypeOK
<1>7. /\ \A d \in Codes : /\ Counting(d)' = Counting(d) /\ JudgedBy(d)' = JudgedBy(d)
                          /\ \A p \in Requests : Judged(p, d)' <=> Judged(p, d)
                          /\ ~Judged(q, d)
      /\ \A b \in Accounts : CountingAt(b)' = CountingAt(b)
  <2>1. \A d \in Codes : \A p \in Requests :
           /\ Judged(p, d)' <=> Judged(p, d)
           /\ ~Judged(q, d)
    BY <1>1, <1>3, <1>4, Constants DEF Judged
  <2> QED BY <1>1, <1>3, <1>4, <2>1 DEF Counting, JudgedBy, CountingAt
\* Nobody was judged by the new code.
<1>8. /\ \A p \in Requests : ~Judged(p, c)
      /\ Counting(c) = {} /\ JudgedBy(c) = {}
      /\ Cardinality(Counting(c)) = 0 /\ Cardinality(JudgedBy(c)) = 0
  <2>1. \A p \in Requests : ~Judged(p, c)
    BY <1>2 DEF Fresh, Judged
  <2>2. Counting(c) = {} /\ JudgedBy(c) = {}
    BY <2>1 DEF Counting, JudgedBy
  <2> QED BY <2>1, <2>2, FS_EmptySet
<1>9. /\ wrong'[c] = 0 /\ used'[c] = 0
      /\ \A d \in Codes : d # c =>
            /\ wrong'[d] = wrong[d] /\ used'[d] = used[d]
            /\ d \in contested' <=> d \in contested
            /\ d \in strayed' <=> d \in strayed
  BY <1>2, Table
<1>10. TypeOK'
  <2>1. otp' \in [Accounts -> [code : Codes \cup {None}, expired : BOOLEAN,
                     attempts : 0..(MaxAttempts - 1 + Cardinality(Requests))]]
    <3>1. [code |-> c, attempts |-> 0, expired |-> FALSE] \in
             [code : Codes \cup {None}, expired : BOOLEAN,
              attempts : 0..(MaxAttempts - 1 + Cardinality(Requests))]
      BY Constants
    <3> QED BY <1>1, <1>2, <3>1 DEF IInv, TypeOK
  <2>2. /\ crossed' \subseteq Accounts /\ contested' \subseteq Codes
        /\ strayed' \subseteq Codes
    BY <1>1, <1>2 DEF IInv, TypeOK
  <2>3. told' \subseteq Accounts
    BY <1>2 DEF IInv, TypeOK
  <2>4. wrong' \in [Codes -> Nat] /\ used' \in [Codes -> Nat]
    BY <1>2, Table
  <2> QED BY <1>1, <1>5, <2>1, <2>2, <2>3, <2>4 DEF IInv, TypeOK
<1>11. ASSUME NEW d \in Codes
       PROVE  Known(d)'
  <2>1. CASE d = c
    BY <1>7, <1>8, <1>9, <2>1, Constants DEF Known
  <2>2. CASE d # c
    BY <1>7, <1>9, <2>2 DEF IInv, Known, Most
  <2> QED BY <2>1, <2>2
<1>12. ASSUME NEW b \in Accounts
       PROVE  Row(b)'
  <2>1. CASE b = a
    BY <1>6, <1>7, <2>1, Constants, Counts DEF Row
  <2>2. CASE b # a
    BY <1>6, <1>7, <2>2 DEF IInv, Row, Most
  <2> QED BY <2>1, <2>2
<1>13. ASSUME NEW b \in Accounts, NEW d \in Codes, otp'[b].code = d
       PROVE  Stored(b, d)'
  <2>1. \A x \in Accounts : otp[x].code # c
    BY <1>2 DEF Fresh
  <2>2. CASE b = a
    <3>1. d = c
      BY <1>6, <1>13, <2>2
    <3>2. \A x \in Accounts : otp'[x].code = c => x = a
      BY <1>6, <2>1
    <3>3. wrong'[c] <= otp'[a].attempts + Cardinality(Counting(c)')
      BY <1>6, <1>7, <1>8, <1>9
    <3> QED BY <1>7, <1>8, <1>9, <2>2, <3>1, <3>2, <3>3 DEF Stored
  <2>3. CASE b # a
    <3>1. otp[b].code = d /\ otp'[b] = otp[b] /\ d # c
      BY <1>6, <1>13, <2>1, <2>3
    <3>2. Stored(b, d)
      BY <3>1 DEF IInv
    <3>3. \A x \in Accounts : otp'[x].code = d => x = b
      BY <1>6, <3>1, <3>2 DEF Stored
    <3>4. \A p \in Requests : Judged(p, d)' => Judged(p, d) /\ req'[p] = req[p]
      BY <1>4, <1>7
    <3> QED BY <1>7, <1>9, <3>1, <3>2, <3>3, <3>4 DEF Stored
  <2> QED BY <2>2, <2>3
<1>14. ASSUME NEW b \in Accounts \ crossed'
       PROVE  Current(b)'
  <2>1. CASE b = a
    <3>1. \A p \in Requests : ~Sending(p, a)
      BY <1>2, <1>14, <2>1
    <3>2. ASSUME NEW p \in Requests, Sending(p, b)'
          PROVE  req'[p].seen = c
      <4>1. req'[p].pc = "send" /\ req'[p].account = a
        BY <2>1, <3>2 DEF Sending
      <4>2. p = q
        BY <1>4, <3>1, <4>1 DEF Sending
      <4>3. n.pc = "send" => n.seen = c
        BY <1>3
      <4> QED BY <1>4, <4>1, <4>2, <4>3
    <3>3. otp'[a].code = c /\ a \notin told'
      BY <1>6
    <3> QED BY <2>1, <3>2, <3>3 DEF Current
  <2>2. CASE b # a
    <3>1. Current(b)
      BY <1>2, <1>14, <2>2 DEF IInv
    <3>2. \A p \in Requests : Sending(p, b)' => Sending(p, b) /\ req'[p] = req[p]
      BY <1>3, <1>4, <2>2 DEF Sending
    <3> QED BY <1>1, <1>6, <2>2, <3>1, <3>2 DEF Current
  <2> QED BY <2>1, <2>2
<1>15. ASSUME NEW b \in Accounts, NEW d \in Codes, otp'[b].code = d
       PROVE  Earned(b, d)'
  <2>1. CASE b = a
    <3>1. d = c /\ otp'[b].attempts = 0 /\ wrong'[d] = 0
      BY <1>6, <1>9, <1>15, <2>1
    <3>2. Cardinality(CountingAt(a)) <= Cardinality(Requests) - 1
      <4>1. /\ Requests \ {q} \in SUBSET Requests
            /\ CountingAt(a) \in SUBSET (Requests \ {q})
        BY <1>1 DEF CountingAt
      <4>2. /\ IsFiniteSet(Requests \ {q})
            /\ Cardinality(Requests \ {q}) = Cardinality(Requests) - 1
        BY <4>1, Tallies, Without
      <4> QED BY <4>1, <4>2, FS_Subset
    <3>3. c \notin strayed' => Cardinality(CountingAt(a)) = 0
      <4>1. c \notin strayed' => CountingAt(a) = {}
        BY <1>2 DEF CountingAt, ToCount
      <4> QED BY <4>1, FS_EmptySet
    <3> QED BY <1>7, <2>1, <3>1, <3>2, <3>3, Constants, Counts DEF Earned, Stray
  <2>2. CASE b # a
    <3>1. otp[b].code = d /\ otp'[b] = otp[b] /\ d # c
      BY <1>2, <1>6, <1>15, <2>2 DEF Fresh
    <3>2. Earned(b, d)
      BY <3>1 DEF IInv
    <3> QED BY <1>7, <1>9, <3>1, <3>2 DEF Earned, Stray
  <2> QED BY <2>1, <2>2
<1> QED BY <1>5, <1>10, <1>11, <1>12, <1>13, <1>14, <1>15 DEF IInv

-----------------------------------------------------------------------------
(* VerifyOTP.                                                              *)

\* A request that was judged by c, and how.
Judging(m, c, pc) == [m EXCEPT !.seen = c, !.pc = pc]

LEMMA JudgingFacts ==
    ASSUME NEW m \in RequestState, NEW c \in Codes, NEW pc \in {"increment", "delete"},
           m.op = "verify", m.account \in Accounts
    PROVE  LET n == Judging(m, c, pc)
           IN  /\ n \in RequestState /\ RequestOk(n) /\ n.pc = pc /\ n.seen = c
               /\ n.op = "verify" /\ n.account = m.account
<1> DEFINE x == [m EXCEPT !.seen = c]
           n == Judging(m, c, pc)
<1>1. /\ x \in RequestState /\ x.seen = c /\ x.op = m.op
      /\ x.account = m.account
  BY DEF RequestState
<1>2. n = [x EXCEPT !.pc = pc]
  BY DEF Judging
<1> HIDE DEF x
<1>3. /\ n \in RequestState /\ n.pc = pc /\ n.seen = c
      /\ n.op = "verify" /\ n.account = m.account
  BY <1>1, <1>2 DEF RequestState
<1> HIDE DEF n
<1>4. RequestOk(n)
  BY <1>3 DEF RequestOk
<1> QED BY <1>3, <1>4 DEF n

\* The code is one more request's.
LEMMA JudgingKeeps ==
    ASSUME IInv, NEW q \in Requests, NEW a \in Accounts, NEW c \in Codes,
           NEW n \in RequestState, RequestOk(n), Moves(q, n),
           req[q].seen = None, req[q].pc \notin {"increment", "send"},
           n.op = "verify", n.seen = c, n.account = a,
           n.pc \in {"increment", "delete"},
           otp[a].code = c, otp[a].attempts < MaxAttempts,
           wrong' = [wrong EXCEPT ![c] = IF n.pc = "delete" THEN @
                        ELSE CountedUpTo(@, MaxAttempts + Cardinality(Requests))],
           contested' = IF \E p \in Requests : Judged(p, c)
                        THEN contested \cup {c} ELSE contested,
           UNCHANGED <<otp, inbox, told, crossed, registered, used, strayed>>
    PROVE  IInv'
<1>1. \A p \in Requests : req'[p] = IF p = q THEN n ELSE req[p]
  BY Table DEF Moves
<1>2. req' \in [Requests -> RequestState] /\ \A p \in Requests : RequestOk(req'[p])
  BY Table DEF Moves
<1> DEFINE more == n.pc = "increment"
<1>3. more \in BOOLEAN /\ (more <=> n.pc # "delete") /\ (more <=> n.pc = "increment")
  OBVIOUS
<1>4. \A p \in Requests, d \in Codes :
         /\ Judged(p, d)' <=> Judged(p, d) \/ (p = q /\ d = c)
         /\ ~Judged(q, d)
  BY <1>1, Constants DEF Judged
<1>5. /\ JudgedBy(c)' = JudgedBy(c) \cup {q} /\ q \notin JudgedBy(c)
      /\ Counting(c)' = IF more THEN Counting(c) \cup {q} ELSE Counting(c)
      /\ q \notin Counting(c)
      /\ \A d \in Codes : d # c => /\ JudgedBy(d)' = JudgedBy(d)
                                   /\ Counting(d)' = Counting(d)
  BY <1>1, <1>4 DEF JudgedBy, Counting
<1>6. /\ CountingAt(a)' = IF more THEN CountingAt(a) \cup {q} ELSE CountingAt(a)
      /\ q \notin CountingAt(a)
      /\ \A b \in Accounts : b # a => CountingAt(b)' = CountingAt(b)
  BY <1>1 DEF CountingAt
<1>7. /\ Cardinality(JudgedBy(c)') = Cardinality(JudgedBy(c)) + 1
      /\ Cardinality(Counting(c)') =
            IF more THEN Cardinality(Counting(c)) + 1 ELSE Cardinality(Counting(c))
      /\ Cardinality(CountingAt(a)') =
            IF more THEN Cardinality(CountingAt(a)) + 1 ELSE Cardinality(CountingAt(a))
  BY <1>5, <1>6, Counts, With
<1>8. /\ Cardinality(JudgedBy(c)') <= Cardinality(Requests)
      /\ Cardinality(Counting(c)') <= Cardinality(Requests)
      /\ Cardinality(CountingAt(a)') <= Cardinality(Requests)
  <2>1. /\ JudgedBy(c)' \in SUBSET Requests /\ Counting(c)' \in SUBSET Requests
        /\ CountingAt(a)' \in SUBSET Requests
    BY <1>5, <1>6, Counts
  <2> QED BY <2>1, Tallies
\* What is known of the code before.
<1>9. /\ wrong[c] \in Nat /\ otp[a].attempts \in Nat /\ otp[a].attempts <= 2
      /\ Cardinality(Counting(c)) \in Nat /\ Cardinality(JudgedBy(c)) \in Nat
      /\ Cardinality(CountingAt(a)) \in Nat
      /\ Cardinality(Counting(c)) <= wrong[c]
      /\ wrong[c] <= otp[a].attempts + Cardinality(Counting(c))
      /\ wrong[c] <= Most /\ (c \notin contested => wrong[c] <= MaxAttempts)
      /\ used[c] = 0 /\ Known(c) /\ Stored(a, c) /\ Row(a)
  <2>1. Known(c) /\ Stored(a, c) /\ Row(a)
    BY DEF IInv
  <2>2. otp[a].attempts \in Nat /\ otp[a].attempts <= 2
    BY Table, Constants
  <2> QED BY <2>1, <2>2, Table, Counts DEF Known, Stored
<1>10. /\ wrong'[c] = IF more THEN wrong[c] + 1 ELSE wrong[c]
       /\ \A d \in Codes : d # c => wrong'[d] = wrong[d]
       /\ wrong' \in [Codes -> Nat]
  <2>1. CountedUpTo(wrong[c], MaxAttempts + Cardinality(Requests)) = wrong[c] + 1
    BY <1>9, Constants DEF CountedUpTo
  <2>2. wrong' = [wrong EXCEPT ![c] = IF more THEN wrong[c] + 1 ELSE wrong[c]]
    BY <1>3, <2>1
  <2> QED BY <1>9, <2>2, Table
<1> HIDE DEF more
<1>11. TypeOK'
  <2>1. contested' \subseteq Codes
    BY DEF IInv, TypeOK
  <2> QED BY <1>2, <1>10, <2>1 DEF IInv, TypeOK
<1>12. ASSUME NEW d \in Codes
       PROVE  Known(d)'
  <2>1. CASE d = c
    <3>1. wrong'[c] <= Most
      BY <1>3, <1>7, <1>8, <1>9, <1>10, Constants
    <3>2. c \notin contested' => Cardinality(JudgedBy(c)) = 0 /\ Cardinality(Counting(c)) = 0
      <4>1. ASSUME c \notin contested'
            PROVE  JudgedBy(c) = {} /\ Counting(c) = {}
        BY <4>1 DEF JudgedBy, Counting
      <4> QED BY <4>1, FS_EmptySet
    <3>3. c \notin contested' => wrong'[c] <= MaxAttempts
      BY <1>3, <1>9, <1>10, <3>2, Constants
    <3>4. Cardinality(Counting(c)') <= wrong'[c]
      BY <1>3, <1>7, <1>9, <1>10
    <3>5. /\ used'[c] + Cardinality(JudgedBy(c)') <= Cardinality(Requests)
          /\ c \notin contested' => used'[c] + Cardinality(JudgedBy(c)') <= 1
      BY <1>7, <1>8, <1>9, <3>2, Constants
    <3> QED BY <2>1, <3>1, <3>3, <3>4, <3>5 DEF Known, Most
  <2>2. CASE d # c
    <3>1. d \in contested' <=> d \in contested
      BY <2>2
    <3> QED BY <1>5, <1>10, <2>2, <3>1 DEF IInv, Known, Most
  <2> QED BY <2>1, <2>2
<1>13. ASSUME NEW b \in Accounts
       PROVE  Row(b)'
  <2>1. CASE b = a
    BY <1>7, <1>8, <1>9, <2>1, Constants DEF Row
  <2>2. CASE b # a
    BY <1>6, <2>2 DEF IInv, Row, Most
  <2> QED BY <2>1, <2>2
<1>14. ASSUME NEW b \in Accounts, NEW d \in Codes, otp'[b].code = d
       PROVE  Stored(b, d)'
  <2>1. Stored(b, d)
    BY <1>14 DEF IInv
  <2>2. CASE d = c
    <3>1. b = a
      BY <1>9, <1>14, <2>2 DEF Stored
    <3>2. wrong'[c] <= otp[a].attempts + Cardinality(Counting(c)')
      BY <1>3, <1>7, <1>9, <1>10
    <3>3. ASSUME NEW p \in Requests, Judged(p, c)'
          PROVE  req'[p].account = a /\ req'[p].pc \in {"increment", "delete"}
      <4>1. CASE p = q
        BY <1>1, <4>1
      <4>2. CASE p # q
        BY <1>1, <1>4, <1>9, <3>3, <4>2 DEF Stored
      <4> QED BY <4>1, <4>2
    <3> QED BY <1>9, <2>1, <2>2, <3>1, <3>2, <3>3 DEF Stored
  <2>3. CASE d # c
    <3>1. \A p \in Requests : Judged(p, d)' => Judged(p, d) /\ req'[p] = req[p]
      BY <1>1, <1>4, <2>3
    <3> QED BY <1>5, <1>10, <2>1, <2>3, <3>1 DEF Stored
  <2> QED BY <2>2, <2>3
<1>15. ASSUME NEW b \in Accounts \ crossed'
       PROVE  Current(b)'
  <2>1. Current(b)
    BY <1>15 DEF IInv
  <2>2. \A p \in Requests : Sending(p, b)' => Sending(p, b) /\ req'[p] = req[p]
    BY <1>1 DEF Sending
  <2> QED BY <2>1, <2>2 DEF Current
<1>16. ASSUME NEW b \in Accounts, NEW d \in Codes, otp'[b].code = d
       PROVE  Earned(b, d)'
  <2>1. Earned(b, d)
    BY <1>16 DEF IInv
  <2>2. CASE b = a
    <3>1. d = c
      BY <1>16, <2>2
    <3> QED BY <1>7, <1>9, <1>10, <2>1, <2>2, <3>1, Constants DEF Earned, Stray
  <2>3. CASE b # a
    <3>1. d # c
      BY <1>9, <1>16, <2>3 DEF Stored
    <3> QED BY <1>6, <1>10, <2>1, <2>3, <3>1 DEF Earned, Stray
  <2> QED BY <2>2, <2>3
<1> QED BY <1>2, <1>11, <1>12, <1>13, <1>14, <1>15, <1>16 DEF IInv

LEMMA SelectCodeKeeps ==
    ASSUME IInv, NEW q \in Requests, SelectCode(q)
    PROVE  IInv'
<1> DEFINE m == req[q]
           a == m.account
           row == otp[a]
           right == row.code = m.code
<1>1. /\ m.pc = "select" /\ m.op = "verify" /\ a \in Accounts /\ m.seen = None
      /\ m \in RequestState
      /\ UNCHANGED <<otp, inbox, told, crossed, registered, used, strayed>>
  BY Table DEF SelectCode, RequestOk, sms
<1>2. CASE row = NoCode \/ row.expired \/ Locked(row)
  <2>1. PICK s \in {200, 401, 404, 410, 429, 500} : Reply(q, s)
    <3>1. (CASE row = NoCode -> 401
             [] row # NoCode /\ row.expired -> 410
             [] OTHER -> 429) \in {200, 401, 404, 410, 429, 500}
      OBVIOUS
    <3> QED BY <1>2, <3>1 DEF SelectCode
  <2>2. UNCHANGED <<wrong, contested>>
    BY <1>2 DEF SelectCode
  <2>3. Ends(q)
    BY <1>1, <2>1, <2>2, AnswerFacts DEF Ends, NotCounting
  <2> QED BY <2>3, EndKeeps
<1>3. CASE ~(row = NoCode \/ row.expired \/ Locked(row))
  <2> DEFINE c == row.code
             pc == IF right THEN "delete" ELSE "increment"
             n == Judging(m, c, pc)
  <2>1. /\ Moves(q, [m EXCEPT !.seen = c, !.pc = pc])
        /\ wrong' = [wrong EXCEPT ![c] = IF right THEN @
                        ELSE CountedUpTo(@, MaxAttempts + Cardinality(Requests))]
        /\ contested' = IF \E p \in Requests : Judged(p, c)
                        THEN contested \cup {c} ELSE contested
    BY <1>3 DEF SelectCode, Moves
  <2>2. c \in Codes /\ row.attempts < MaxAttempts
    BY <1>1, <1>3, Table, Constants DEF Locked, IInv, Row
  <2>3. pc \in {"increment", "delete"} /\ (pc = "delete" <=> right)
    OBVIOUS
  <2> HIDE DEF pc, right
  <2>4. /\ n \in RequestState /\ RequestOk(n) /\ n.pc = pc /\ n.seen = c
        /\ n.op = "verify" /\ n.account = a
    BY <1>1, <2>2, <2>3, JudgingFacts
  <2>5. Moves(q, n)
    BY <2>1 DEF Judging
  <2>6. wrong' = [wrong EXCEPT ![c] = IF n.pc = "delete" THEN @
                     ELSE CountedUpTo(@, MaxAttempts + Cardinality(Requests))]
    BY <2>1, <2>3, <2>4
  <2>7. /\ req[q].seen = None /\ req[q].pc \notin {"increment", "send"}
        /\ n.pc \in {"increment", "delete"}
        /\ otp[a].code = c /\ otp[a].attempts < MaxAttempts
    BY <1>1, <2>2, <2>3, <2>4
  <2> HIDE DEF n, c, a, m
  <2> QED BY ONLY IInv, q \in Requests, <1>1, <2>1, <2>2, <2>4, <2>5, <2>6, <2>7,
             JudgingKeeps DEF row
<1> QED BY <1>2, <1>3

LEMMA CountAttemptKeeps ==
    ASSUME IInv, NEW q \in Requests, CountAttempt(q)
    PROVE  IInv'
<1>1. PICK a \in Accounts, c \in Codes :
         /\ req[q].account = a /\ req[q].seen = c
         /\ req[q].pc = "increment" /\ req[q].op = "verify"
         /\ otp' = Counted(a)
         /\ UNCHANGED <<inbox, told, crossed, registered, wrong, used, contested, strayed>>
  BY Table DEF CountAttempt, RequestOk, sms, counts
<1>2. PICK n \in RequestState : /\ Moves(q, n) /\ RequestOk(n)
                                /\ n.seen = None /\ n.pc = "done"
  BY AnswerFacts DEF CountAttempt
<1>3. \A p \in Requests : req'[p] = IF p = q THEN n ELSE req[p]
  BY <1>2, Table DEF Moves
<1>4. req' \in [Requests -> RequestState] /\ \A p \in Requests : RequestOk(req'[p])
  BY <1>2, Table DEF Moves
<1>5. Uncounted(q)
  <2>1. n.pc # "increment"
    BY <1>2
  <2> QED BY <1>2, <2>1, Fewer
<1>6. \A d \in Codes : Judged(q, d) <=> d = c
  BY <1>1 DEF Judged
<1>7. otp \in [Accounts -> [code : Codes \cup {None}, expired : BOOLEAN,
                  attempts : 0..(MaxAttempts - 1 + Cardinality(Requests))]]
  BY DEF IInv, TypeOK
<1>8. /\ \A b \in Accounts : /\ otp'[b].code = otp[b].code
                             /\ b # a => otp'[b] = otp[b]
                             /\ otp[b] = NoCode => otp'[b] = NoCode
      /\ otp'[a].attempts = IF otp[a] = NoCode THEN otp[a].attempts
                            ELSE otp[a].attempts + 1
      /\ otp' = IF otp[a] = NoCode THEN otp ELSE [otp EXCEPT ![a].attempts = @ + 1]
  BY <1>1, <1>7 DEF Counted
<1>9. /\ otp[a].attempts \in Nat /\ Cardinality(CountingAt(a)) \in Nat
      /\ Cardinality(CountingAt(a)') = Cardinality(CountingAt(a)) - 1
      /\ Cardinality(CountingAt(a)') \in Nat
      /\ otp[a].attempts + Cardinality(CountingAt(a)) <= Most
      /\ \A b \in Accounts : b # a =>
            Cardinality(CountingAt(b)') = Cardinality(CountingAt(b))
  <2>1. CountingAt(a) \in SUBSET Requests /\ q \in CountingAt(a)
    BY <1>1 DEF CountingAt
  <2>2. Cardinality(CountingAt(a) \ {q}) = Cardinality(CountingAt(a)) - 1
    BY <2>1, Without
  <2>3. Cardinality(CountingAt(a) \ {q}) \in Nat
    <3>1. CountingAt(a) \ {q} \in SUBSET Requests
      BY <2>1
    <3> QED BY <3>1, Tallies
  <2> QED BY <1>1, <1>5, <2>2, <2>3, Table, Counts DEF IInv, Row, Uncounted
<1>10. TypeOK'
  <2>1. otp[a].attempts + 1 \in 0..(MaxAttempts - 1 + Cardinality(Requests))
    BY <1>9, Constants
  <2>2. otp' \in [Accounts -> [code : Codes \cup {None}, expired : BOOLEAN,
                     attempts : 0..(MaxAttempts - 1 + Cardinality(Requests))]]
    BY <1>7, <1>8, <2>1
  <2> QED BY <1>1, <1>4, <2>2 DEF IInv, TypeOK
<1>11. ASSUME NEW d \in Codes
       PROVE  Known(d)'
  <2>1. /\ Known(d) /\ Cardinality(Counting(d)') <= Cardinality(Counting(d))
        /\ Cardinality(JudgedBy(d)') <= Cardinality(JudgedBy(d))
        /\ Cardinality(JudgedBy(d)') \in Nat /\ Cardinality(JudgedBy(d)) \in Nat
        /\ Cardinality(Counting(d)') \in Nat /\ Cardinality(Counting(d)) \in Nat
        /\ wrong[d] \in Nat /\ used[d] \in Nat
    BY <1>5, Table, Counts, Tally1 DEF IInv, Uncounted
  <2> QED BY <1>1, <2>1, Constants DEF Known, Most
<1>12. ASSUME NEW b \in Accounts
       PROVE  Row(b)'
  <2>1. CASE b = a
    BY <1>8, <1>9, <2>1, Constants DEF IInv, Row
  <2>2. CASE b # a
    BY <1>8, <1>9, <2>2 DEF IInv, Row, Most
  <2> QED BY <2>1, <2>2
<1>13. ASSUME NEW b \in Accounts, NEW d \in Codes, otp'[b].code = d
       PROVE  Stored(b, d)'
  <2>1. Stored(b, d) /\ otp[b].code = d
    BY <1>8, <1>13 DEF IInv
  <2>2. \A p \in Requests : Judged(p, d)' => Judged(p, d) /\ req'[p] = req[p]
    BY <1>5 DEF Uncounted
  <2>3. wrong[d] <= otp'[b].attempts + Cardinality(Counting(d)')
    <3>1. /\ wrong[d] \in Nat /\ Cardinality(Counting(d)) \in Nat
          /\ otp[b].attempts \in Nat
          /\ wrong[d] <= otp[b].attempts + Cardinality(Counting(d))
          /\ Cardinality(Counting(d)') =
                IF d = c THEN Cardinality(Counting(d)) - 1 ELSE Cardinality(Counting(d))
      BY <1>1, <1>5, <1>6, <2>1, Table, Counts DEF Stored, Uncounted
    <3>2. CASE d = c
      <4>1. b = a
        BY <1>1, <1>6, <2>1, <3>2 DEF Stored
      <4>2. otp[a] # NoCode
        BY <2>1, <4>1, Constants DEF NoCode
      <4>3. otp'[b].attempts = otp[b].attempts + 1
        BY <1>8, <4>1, <4>2
      <4> QED BY <3>1, <3>2, <4>3
    <3>3. CASE d # c
      <4>1. otp'[b].attempts \in Nat /\ otp'[b].attempts >= otp[b].attempts
        BY <1>8, <3>1
      <4> QED BY <3>1, <3>3, <4>1
    <3> QED BY <3>2, <3>3
  <2> QED BY <1>1, <1>8, <2>1, <2>2, <2>3 DEF Stored
<1>14. ASSUME NEW b \in Accounts \ crossed'
       PROVE  Current(b)'
  <2>1. Current(b)
    BY <1>1, <1>14 DEF IInv
  <2>2. \A p \in Requests : Sending(p, b)' => Sending(p, b) /\ req'[p] = req[p]
    BY <1>2, <1>3 DEF Sending
  <2> QED BY <1>1, <1>8, <2>1, <2>2 DEF Current
<1>15. ASSUME NEW b \in Accounts, NEW d \in Codes, otp'[b].code = d
       PROVE  Earned(b, d)'
  <2>1. Earned(b, d) /\ otp[b].code = d
    BY <1>8, <1>15 DEF IInv
  <2>2. CASE b = a
    <3>1. otp[a] # NoCode
      BY <2>1, <2>2, Constants DEF NoCode
    <3>2. otp'[a].attempts = otp[a].attempts + 1
      BY <1>8, <3>1
    <3>3. otp'[a].attempts + Cardinality(CountingAt(a)')
             = otp[a].attempts + Cardinality(CountingAt(a))
      BY <1>9, <3>2
    <3> QED BY <1>1, <2>1, <2>2, <3>3 DEF Earned, Stray
  <2>3. CASE b # a
    BY <1>1, <1>8, <1>9, <2>1, <2>3 DEF Earned, Stray
  <2> QED BY <2>2, <2>3
<1> QED BY <1>4, <1>10, <1>11, <1>12, <1>13, <1>14, <1>15 DEF IInv

LEMMA DeleteCodeKeeps ==
    ASSUME IInv, NEW q \in Requests, DeleteCode(q)
    PROVE  IInv'
<1>1. PICK a \in Accounts, c \in Codes :
         /\ req[q].account = a /\ req[q].seen = c
         /\ req[q].pc = "delete" /\ req[q].op = "verify"
         /\ otp' = [otp EXCEPT ![a] = NoCode]
         /\ UNCHANGED <<inbox, told, crossed, registered, wrong, used, contested, strayed>>
  BY Table DEF DeleteCode, RequestOk, Deleted, sms, counts
<1>2. PICK n \in RequestState :
         /\ Moves(q, n) /\ RequestOk(n) /\ n.pc \in {"done", "lookup"}
         /\ \/ n.seen = None
            \/ n.op = "verify" /\ n.account = a /\ n.seen = c
  <2>1. CASE Goto(q, "lookup")
    <3>1. PICK n \in RequestState :
             /\ Moves(q, n) /\ n.pc = "lookup" /\ n.op = req[q].op
             /\ n.account = req[q].account /\ n.seen = req[q].seen
      BY <2>1, GotoFacts
    <3>2. RequestOk(n)
      BY <1>1, <3>1 DEF RequestOk
    <3> QED BY <1>1, <3>1, <3>2
  <2>2. CASE Reply(q, 500)
    BY <2>2, AnswerFacts
  <2> QED BY <2>1, <2>2 DEF DeleteCode
<1>3. \A p \in Requests : req'[p] = IF p = q THEN n ELSE req[p]
  BY <1>2, Table DEF Moves
<1>4. req' \in [Requests -> RequestState] /\ \A p \in Requests : RequestOk(req'[p])
  BY <1>2, Table DEF Moves
<1>5. /\ otp'[a] = NoCode /\ \A b \in Accounts : b # a => otp'[b] = otp[b]
      /\ otp'[a].code = None /\ otp'[a].attempts = 0
  BY <1>1 DEF IInv, TypeOK, NoCode
<1>6. /\ \A d \in Codes : \A p \in Requests : Judged(p, d)' => Judged(p, d)
      /\ \A d \in Codes : Judged(q, d) <=> d = c
      /\ \A d \in Codes : Counting(d)' = Counting(d) /\ JudgedBy(d)' \subseteq JudgedBy(d)
      /\ \A b \in Accounts : CountingAt(b)' = CountingAt(b)
  <2>1. \A d \in Codes : \A p \in Requests :
           /\ Judged(p, d)' => Judged(p, d)
           /\ p # q => (Judged(p, d)' <=> Judged(p, d))
           /\ Judged(q, d) <=> d = c
    BY <1>1, <1>2, <1>3, Constants DEF Judged
  <2>2. n.pc # "increment"
    BY <1>2
  <2> QED BY <1>1, <1>3, <2>1, <2>2 DEF Counting, JudgedBy, CountingAt
<1>7. TypeOK'
  <2>1. NoCode \in [code : Codes \cup {None}, expired : BOOLEAN,
                    attempts : 0..(MaxAttempts - 1 + Cardinality(Requests))]
    BY Constants DEF NoCode
  <2> QED BY <1>1, <1>4, <2>1 DEF IInv, TypeOK
<1>8. ASSUME NEW d \in Codes
      PROVE  Known(d)'
  <2>1. /\ Known(d) /\ Counting(d)' = Counting(d)
        /\ Cardinality(JudgedBy(d)') <= Cardinality(JudgedBy(d))
        /\ Cardinality(JudgedBy(d)') \in Nat /\ Cardinality(JudgedBy(d)) \in Nat
        /\ used[d] \in Nat
    <3>1. IsFiniteSet(JudgedBy(d))
      BY Counts, Tallies
    <3> QED BY <1>6, <3>1, FS_Subset, FS_CardinalityType, Counts, Table DEF IInv
  <2> QED BY <1>1, <2>1, Constants DEF Known, Most
<1>9. ASSUME NEW b \in Accounts
      PROVE  Row(b)'
  <2>1. CASE b = a
    BY <1>5, <1>6, <2>1, Counts, Constants DEF Row
  <2>2. CASE b # a
    BY <1>5, <1>6, <2>2 DEF IInv, Row, Most
  <2> QED BY <2>1, <2>2
<1>10. ASSUME NEW b \in Accounts, NEW d \in Codes, otp'[b].code = d
       PROVE  Stored(b, d)'
  <2>1. b # a
    BY <1>5, <1>10, Constants
  <2>2. Stored(b, d) /\ otp'[b] = otp[b]
    BY <1>5, <1>10, <2>1 DEF IInv
  <2>3. ~Judged(q, d)
    BY <1>1, <2>1, <2>2 DEF Stored
  <2>4. \A p \in Requests : Judged(p, d)' => Judged(p, d) /\ req'[p] = req[p]
    BY <1>3, <1>6, <2>3
  <2>5. \A x \in Accounts : otp'[x].code = d => x = b
    BY <1>5, <2>2, Constants DEF Stored
  <2> QED BY <1>1, <1>6, <2>2, <2>4, <2>5 DEF Stored
<1>11. ASSUME NEW b \in Accounts \ crossed'
       PROVE  Current(b)'
  <2>1. Current(b)
    BY <1>1, <1>11 DEF IInv
  <2>2. \A p \in Requests : Sending(p, b)' => Sending(p, b) /\ req'[p] = req[p]
    BY <1>2, <1>3 DEF Sending
  <2>3. otp'[b].code \in {otp[b].code, None}
    BY <1>5
  <2> QED BY <1>1, <2>1, <2>2, <2>3 DEF Current
<1>12. ASSUME NEW b \in Accounts, NEW d \in Codes, otp'[b].code = d
       PROVE  Earned(b, d)'
  <2>1. b # a
    BY <1>5, <1>12, Constants
  <2>2. Earned(b, d) /\ otp'[b] = otp[b]
    BY <1>5, <1>12, <2>1 DEF IInv
  <2> QED BY <1>1, <1>6, <2>2 DEF Earned, Stray
<1> QED BY <1>4, <1>7, <1>8, <1>9, <1>10, <1>11, <1>12 DEF IInv

LEMMA IssueTokensKeeps ==
    ASSUME IInv, NEW q \in Requests, IssueTokens(q)
    PROVE  IInv'
<1>1. PICK c \in Codes :
         /\ req[q].seen = c /\ req[q].pc = "insert" /\ req[q].op = "verify"
         /\ UNCHANGED <<otp, inbox, told, crossed, registered, wrong, contested, strayed>>
  BY Table DEF IssueTokens, RequestOk, sms
<1>2. CASE Reply(q, 500) /\ UNCHANGED used
  <2>1. Ends(q)
    BY <1>1, <1>2, AnswerFacts DEF Ends, NotCounting
  <2> QED BY <2>1, EndKeeps
<1>3. CASE /\ Reply(q, 200)
           /\ used' = [used EXCEPT ![c] = CountedUpTo(@, Cardinality(Requests) + 1)]
  <2>1. PICK n \in RequestState : /\ Moves(q, n) /\ RequestOk(n)
                                  /\ n.seen = None /\ n.pc = "done"
    BY <1>3, AnswerFacts
  <2>2. \A p \in Requests : req'[p] = IF p = q THEN n ELSE req[p]
    BY <2>1, Table DEF Moves
  <2>3. req' \in [Requests -> RequestState] /\ \A p \in Requests : RequestOk(req'[p])
    BY <2>1, Table DEF Moves
  <2>4. Uncounted(q)
    <3>1. n.pc # "increment"
      BY <2>1
    <3> QED BY <2>1, <3>1, Fewer
  <2>5. \A d \in Codes : Judged(q, d) <=> d = c
    BY <1>1 DEF Judged
  <2>6. /\ \A d \in Codes : Cardinality(Counting(d)') = Cardinality(Counting(d))
        /\ \A a \in Accounts : Cardinality(CountingAt(a)') = Cardinality(CountingAt(a))
        /\ Cardinality(JudgedBy(c)') = Cardinality(JudgedBy(c)) - 1
        /\ \A d \in Codes : d # c =>
              Cardinality(JudgedBy(d)') = Cardinality(JudgedBy(d))
    BY <1>1, <2>4, <2>5 DEF Uncounted
  <2>7. /\ used[c] \in Nat /\ Cardinality(JudgedBy(c)) \in Nat /\ Known(c)
        /\ Cardinality(JudgedBy(c)) >= 1
        /\ used[c] + Cardinality(JudgedBy(c)) <= Cardinality(Requests)
    BY <2>5, Table, Counts, Tally1 DEF IInv, Known
  <2>8. /\ used'[c] = used[c] + 1 /\ used' \in [Codes -> Nat]
        /\ \A d \in Codes : d # c => used'[d] = used[d]
    <3>1. CountedUpTo(used[c], Cardinality(Requests) + 1) = used[c] + 1
      BY <2>7, Constants DEF CountedUpTo
    <3> QED BY <1>3, <2>7, <3>1, Table
  <2>9. TypeOK'
    BY <1>1, <2>3, <2>8 DEF IInv, TypeOK
  <2>10. ASSUME NEW d \in Codes
         PROVE  Known(d)'
    <3>1. CASE d = c
      BY <1>1, <2>6, <2>7, <2>8, <3>1, Constants DEF Known, Most
    <3>2. CASE d # c
      BY <1>1, <2>6, <2>8, <3>2 DEF IInv, Known, Most
    <3> QED BY <3>1, <3>2
  <2>11. ASSUME NEW a \in Accounts
         PROVE  Row(a)'
    BY <1>1, <2>6 DEF IInv, Row, Most
  <2>12. ASSUME NEW a \in Accounts, NEW d \in Codes, otp'[a].code = d
         PROVE  Stored(a, d)'
    <3>1. Stored(a, d)
      BY <1>1, <2>12 DEF IInv
    <3>2. d # c
      BY <1>1, <2>5, <3>1 DEF Stored
    <3>3. \A p \in Requests : Judged(p, d)' => Judged(p, d) /\ req'[p] = req[p]
      BY <2>4 DEF Uncounted
    <3> QED BY <1>1, <2>6, <2>8, <3>1, <3>2, <3>3 DEF Stored
  <2>13. ASSUME NEW a \in Accounts \ crossed'
         PROVE  Current(a)'
    <3>1. Current(a)
      BY <1>1, <2>13 DEF IInv
    <3>2. \A p \in Requests : Sending(p, a)' => Sending(p, a) /\ req'[p] = req[p]
      BY <2>1, <2>2 DEF Sending
    <3> QED BY <1>1, <3>1, <3>2 DEF Current
  <2>14. ASSUME NEW a \in Accounts, NEW d \in Codes, otp'[a].code = d
         PROVE  Earned(a, d)'
    <3>1. Earned(a, d)
      BY <1>1, <2>14 DEF IInv
    <3> QED BY <1>1, <2>6, <3>1 DEF Earned, Stray
  <2> QED BY <2>3, <2>9, <2>10, <2>11, <2>12, <2>13, <2>14 DEF IInv
<1> QED BY <1>1, <1>2, <1>3 DEF IssueTokens

-----------------------------------------------------------------------------
(* The invariant.                                                          *)

LEMMA InitHolds == Init => IInv
<1> SUFFICES ASSUME Init PROVE IInv
  OBVIOUS
<1>1. TypeOK
  <2>1. NoCode \in [code : Codes \cup {None}, expired : BOOLEAN,
                    attempts : 0..(MaxAttempts - 1 + Cardinality(Requests))]
    BY Constants DEF NoCode
  <2> QED BY <2>1, AnswerFacts DEF Init, TypeOK
<1>2. \A q \in Requests : req[q] = Idle /\ req[q].op = "none" /\ req[q].pc = "idle"
  BY DEF Init, Idle
<1>3. \A q \in Requests : RequestOk(req[q])
  BY <1>2, AnswerFacts
<1>4. /\ \A c \in Codes : JudgedBy(c) = {} /\ Counting(c) = {}
      /\ \A a \in Accounts : CountingAt(a) = {}
  BY <1>2 DEF JudgedBy, Counting, CountingAt, Judged
<1>5. \A c \in Codes : Known(c)
  <2> TAKE c \in Codes
  <2>1. /\ Cardinality(JudgedBy(c)) = 0 /\ Cardinality(Counting(c)) = 0
        /\ wrong[c] = 0 /\ used[c] = 0
    BY <1>4, FS_EmptySet DEF Init
  <2> QED BY <2>1, Constants DEF Known
<1>6. \A a \in Accounts : otp[a] = NoCode /\ otp[a].code = None /\ otp[a].attempts = 0
  BY DEF Init, NoCode
<1>7. \A a \in Accounts : Row(a)
  BY <1>4, <1>6, FS_EmptySet, Constants DEF Row
<1>8. \A a \in Accounts, c \in Codes :
         otp[a].code = c => Stored(a, c) /\ Earned(a, c)
  BY <1>6, Constants
<1>9. \A a \in Accounts : Current(a)
  BY <1>2, <1>6 DEF Init, Current
<1> QED BY <1>1, <1>3, <1>5, <1>7, <1>8, <1>9 DEF IInv

LEMMA StepKeeps == IInv /\ [Next]_vars => IInv'
<1> SUFFICES ASSUME IInv, [Next]_vars PROVE IInv'
  OBVIOUS
<1>1. CASE UNCHANGED vars
  BY <1>1, StutterKeeps
<1>2. ASSUME NEW q \in Requests, RequestOTP(q)
      PROVE  IInv'
  BY <1>2, DetectRoleKeeps, StoreCodeKeeps, SendCodeKeeps DEF RequestOTP
<1>3. ASSUME NEW q \in Requests, VerifyOTP(q)
      PROVE  IInv'
  BY <1>3, DetectRoleKeeps, SelectCodeKeeps, CountAttemptKeeps, DeleteCodeKeeps,
     LookupUserKeeps, IssueTokensKeeps DEF VerifyOTP
<1>4. CASE Next
  BY <1>2, <1>3, <1>4, SubmitKeeps, EndingsKeep, ExpireKeeps, RegisterKeeps DEF Next
<1> QED BY <1>1, <1>4

LEMMA InvariantHolds == Spec => []IInv
BY InitHolds, StepKeeps, PTL DEF Spec

-----------------------------------------------------------------------------
(* The theorems.                                                           *)

\* The rows of otp_codes and what is kept of a request have their types;
\* above all, attempts stays a small number: what three guesses, and those
\* that were being judged meanwhile, can make it.
THEOREM Typed == Spec => []TypeOK
BY InvariantHolds, PTL DEF IInv

\* A code that requests are judged by one at a time meets three wrong
\* guesses at most, and any code no more than every request under way can
\* add to two, whatever fails or dies between the calls.
THEOREM GuessesAreBounded == Spec => []GuessesBounded
<1>1. IInv => GuessesBounded
  BY DEF IInv, Known, GuessesBounded, Most
<1> QED BY <1>1, InvariantHolds, PTL

\* A code that requests are judged by one at a time buys one token pair, and
\* any code no more than there are requests under way.
THEOREM UsesAreBounded == Spec => []UsesBounded
<1>1. IInv => UsesBounded
  <2> SUFFICES ASSUME IInv, NEW c \in Codes
               PROVE  used[c] <= IF c \in contested THEN Cardinality(Requests) ELSE 1
    BY DEF UsesBounded
  <2>1. /\ used[c] \in Nat /\ Cardinality(JudgedBy(c)) \in Nat /\ Known(c)
    BY Table, Counts DEF IInv
  <2> QED BY <2>1, Constants DEF Known
<1> QED BY <1>1, InvariantHolds, PTL

\* A stored code has no more attempts than wrong guesses were made at it,
\* but for those at an older code that were to be counted when it was stored.
THEOREM LocksAreEarned == Spec => []LockIsEarned
<1>1. IInv => LockIsEarned
  <2> SUFFICES ASSUME IInv, NEW a \in Accounts, NEW c \in Codes, otp[a].code = c
               PROVE  otp[a].attempts <= wrong[c] + Stray(c)
    BY Table DEF LockIsEarned, Stray
  <2>1. /\ otp[a].attempts \in Nat /\ Cardinality(CountingAt(a)) \in Nat
        /\ wrong[c] \in Nat /\ Earned(a, c)
    BY Table, Counts DEF IInv
  <2> QED BY <2>1, Constants DEF Earned, Stray
<1> QED BY <1>1, InvariantHolds, PTL

\* Whoever had a 200 for a code, asked for no other since and crossed no
\* other, has the stored code in the last SMS, or none is stored any more.
THEOREM TheLastSmsCounts == Spec => []LastSmsCounts
<1>1. IInv => LastSmsCounts
  <2> SUFFICES ASSUME IInv, NEW a \in told \ crossed
               PROVE  otp[a].code \in {inbox[a], None}
    BY DEF LastSmsCounts
  <2>1. a \in Accounts \ crossed
    BY DEF IInv, TypeOK
  <2> QED BY <2>1 DEF IInv, Current
<1> QED BY <1>1, InvariantHolds, PTL

=============================================================================
