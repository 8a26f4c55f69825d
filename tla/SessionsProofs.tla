--------------------------- MODULE SessionsProofs ---------------------------
(***************************************************************************)
(* Rotation, reuse and the end of sessions, for any number of users,       *)
(* tokens and requests, with or without faults.                            *)
(*                                                                         *)
(* The argument: what a request may rely on (RequestOk) survives whatever  *)
(* the others do to the table (Grows).  What a user whose requests come    *)
(* one at a time may rely on beyond that (Lone) survives because nobody    *)
(* else touches that user's tokens (Untouched).                            *)
(***************************************************************************)
EXTENDS Sessions, TLAPS

Dead(row) == row.state \in {"revoked", "deleted"}

\* T is the table, t a token.
TokenOk(T, t) ==
    /\ T[t].state = "unissued" => T[t] = Unissued
    /\ T[t].state # "unissued" => T[t].user \in Users
    /\ T[t].parent # None => /\ Dead(T[T[t].parent])
                             /\ T[T[t].parent].user = T[t].user

TokensOk(T) == \A t \in Tokens : TokenOk(T, t)

\* Which operation can be at which call, with which token.
RequestOk(m, T) ==
    /\ m.pc = "idle" => m = Idle
    /\ m.pc # "done" => m.code = 0
    /\ m.pc \in {"select", "revoke", "breach"} => m.op = "refresh"
    /\ m.pc = "insert" => m.op \in {"login", "refresh"}
    /\ m.pc = "delete" => m.op = "logout"
    /\ m.op # "none" => m.user \in Users
    /\ m.op # "refresh" => m.token = None
    /\ m.op = "refresh" => /\ m.token \in Tokens
                           /\ T[m.token].state # "unissued"
                           /\ T[m.token].user = m.user
                           /\ m.pc \in {"insert", "breach"} => Dead(T[m.token])
    /\ m.stale => /\ m.op = "refresh" /\ Dead(T[m.token])
                  /\ m.pc \notin {"revoke", "insert"}
                  /\ m.code # 200

\* Of a user whose requests do not overlap: between its calls a refresh
\* finds its token as it left it, and no successor of it.
Lone(m, T) ==
    m.op = "refresh" /\ m.user \notin Overlapping =>
        /\ m.pc = "revoke" => T[m.token].state = "live"
        /\ m.pc = "insert" => /\ T[m.token].state = "revoked"
                              /\ \A s \in Tokens : T[s].parent # m.token

\* Who is not in Overlapping has one request under way.
OneAtATime ==
    \A p, q \in Requests :
        p # q /\ req[p].user = req[q].user /\ req[p].user # None =>
            req[p].user \in Overlapping

\* EndIsFinal and OneSuccessor, of a table.
Final(T) == \A t \in Tokens :
    /\ T[t].user \notin Overlapping
    /\ T[t].state = "live"
    /\ T[t].parent # None
    => T[T[t].parent].state # "deleted"

Single(T) == \A s, t \in Tokens :
    s # t /\ T[s].parent # None /\ T[s].user \notin Overlapping =>
        T[s].parent # T[t].parent

\* The inductive invariant.
IInv ==
    /\ TypeOK
    /\ TokensOk(tok)
    /\ \A t \in sent : tok[t].state # "unissued"
    /\ \A q \in Requests : RequestOk(req[q], tok) /\ Lone(req[q], tok)
    /\ OneAtATime
    /\ Final(tok) /\ Single(tok)

\* A table's later contents.
Grows(A, B) == \A t \in Tokens :
    A[t].state # "unissued" =>
        /\ B[t].state # "unissued"
        /\ B[t].user = A[t].user /\ B[t].parent = A[t].parent
        /\ Dead(A[t]) => Dead(B[t])

\* Only tokens of u differ.
Untouched(u, A, B) == \A t \in Tokens :
    B[t] # A[t] => A[t].user \in {u, None} /\ B[t].user = u

-----------------------------------------------------------------------------
(* Facts about the constants and the tables.                               *)

LEMMA NoneIsNone == None \notin Tokens /\ None \notin Users
BY SessionsAssumption

LEMMA IdleOk ==
    ASSUME NEW T
    PROVE  Idle \in RequestState /\ RequestOk(Idle, T) /\ Lone(Idle, T)
BY DEF Idle, RequestState, RequestOk, Lone

LEMMA RowFacts ==
    ASSUME NEW T \in [Tokens -> Row], NEW t \in Tokens
    PROVE  /\ T[t] \in Row
           /\ T[t].user \in Users \cup {None}
           /\ T[t].parent \in Tokens \cup {None}
           /\ T[t].state \in {"unissued", "live", "revoked", "deleted"}
BY DEF Row

LEMMA RequestFacts ==
    ASSUME IInv, NEW q \in Requests
    PROVE  /\ req[q] \in RequestState
           /\ RequestOk(req[q], tok) /\ Lone(req[q], tok)
           /\ req[q].user \in Users \cup {None}
           /\ req[q].token \in Tokens \cup {None}
           /\ req[q].stale \in BOOLEAN
           /\ req[q].op \in {"none", "login", "refresh", "logout"}
           /\ req[q].pc \in {"idle", "select", "revoke", "breach", "insert",
                             "delete", "done"}
           /\ req[q].code \in {0, 200, 401, 500}
BY DEF IInv, TypeOK, RequestState

Answered(m, c) == [m EXCEPT !.pc = "done", !.code = c]

LEMMA AnswerFacts ==
    ASSUME NEW m \in RequestState, NEW c \in {200, 401, 500}
    PROVE  /\ Answered(m, c) \in RequestState
           /\ Answered(m, c).pc = "done" /\ Answered(m, c).code = c
           /\ Answered(m, c).op = m.op /\ Answered(m, c).user = m.user
           /\ Answered(m, c).token = m.token /\ Answered(m, c).stale = m.stale
<1> DEFINE y == [m EXCEPT !.pc = "done"]
<1>1. /\ y \in RequestState /\ y.pc = "done" /\ y.op = m.op /\ y.user = m.user
      /\ y.token = m.token /\ y.stale = m.stale
  BY DEF RequestState
<1>2. Answered(m, c) = [y EXCEPT !.code = c]
  BY DEF Answered
<1> HIDE DEF y
<1> QED BY <1>1, <1>2 DEF RequestState

\* A request's knowledge survives what is done to the table.
LEMMA RequestOkStable ==
    ASSUME NEW A, NEW B, Grows(A, B),
           NEW m \in RequestState, RequestOk(m, A)
    PROVE  RequestOk(m, B)
BY DEF RequestOk, Grows

LEMMA LoneStable ==
    ASSUME NEW A \in [Tokens -> Row], NEW B \in [Tokens -> Row],
           NEW u \in Users, TokensOk(B), Grows(A, B), Untouched(u, A, B),
           NEW m \in RequestState, RequestOk(m, A), Lone(m, A),
           m.op # "none" => m.user # u \/ u \in Overlapping
    PROVE  Lone(m, B)
<1> SUFFICES ASSUME m.op = "refresh", m.user \notin Overlapping
             PROVE  Lone(m, B)
  BY DEF Lone
<1>1. /\ m.token \in Tokens /\ m.user \in Users /\ m.user # u
      /\ A[m.token].state # "unissued" /\ A[m.token].user = m.user
  BY DEF RequestOk
<1>2. B[m.token] = A[m.token]
  BY <1>1, NoneIsNone DEF Untouched
<1>3. ASSUME NEW s \in Tokens, A[s].parent # m.token
      PROVE  B[s].parent # m.token
  <2>1. CASE B[s] = A[s]
    BY <1>3, <2>1
  <2>2. CASE B[s] # A[s]
    <3>1. B[s].user = u
      BY <2>2 DEF Untouched
    <3>2. B[m.token].user # u
      BY <1>1, <1>2
    <3> QED BY <3>1, <3>2, <1>1, NoneIsNone DEF TokensOk, TokenOk
  <2> QED BY <2>1, <2>2
<1> QED BY <1>2, <1>3 DEF Lone

-----------------------------------------------------------------------------
(* A step of one request keeps the invariant if it leaves itself and the   *)
(* table in order.                                                         *)

LEMMA OneStep ==
    ASSUME IInv, NEW q \in Requests, NEW n \in RequestState,
           req' = [req EXCEPT ![q] = n],
           n.user \in {req[q].user, None},
           tok' \in [Tokens -> Row], sent' \subseteq Tokens,
           NEW u \in Users, req[q].user = u,
           Grows(tok, tok'), Untouched(u, tok, tok'), TokensOk(tok'),
           \A t \in sent' : tok'[t].state # "unissued",
           RequestOk(n, tok'), Lone(n, tok'),
           Final(tok'), Single(tok')
    PROVE  IInv'
<1>1. /\ tok \in [Tokens -> Row]
      /\ req \in [Requests -> RequestState]
  BY DEF IInv, TypeOK
<1>2. TypeOK'
  BY <1>1 DEF TypeOK
<1>3. ASSUME NEW p \in Requests
      PROVE  RequestOk(req'[p], tok') /\ Lone(req'[p], tok')
  <2>1. CASE p = q
    BY <2>1, <1>1
  <2>2. CASE p # q
    <3>1. req'[p] = req[p]
      BY <2>2, <1>1
    <3>2. req[p] \in RequestState /\ RequestOk(req[p], tok) /\ Lone(req[p], tok)
      BY RequestFacts
    <3>3. RequestOk(req[p], tok')
      BY <3>2, RequestOkStable
    <3>4. req[p].user # u \/ u \in Overlapping
      BY <2>2, NoneIsNone DEF IInv, OneAtATime
    <3>5. Lone(req[p], tok')
      BY <1>1, <3>2, <3>4, LoneStable
    <3> QED BY <3>1, <3>3, <3>5
  <2> QED BY <2>1, <2>2
<1>4. OneAtATime'
  <2>1. \A p \in Requests : req'[p].user \in {req[p].user, None}
    BY <1>1
  <2> QED BY <2>1 DEF IInv, OneAtATime
<1> QED BY <1>2, <1>3, <1>4 DEF IInv

\* A step that leaves the table alone.
LEMMA QuietStep ==
    ASSUME IInv, NEW q \in Requests, NEW n \in RequestState,
           req' = [req EXCEPT ![q] = n],
           n.user \in {req[q].user, None} \/ OneAtATime',
           UNCHANGED <<tok, sent>>,
           RequestOk(n, tok), Lone(n, tok)
    PROVE  IInv'
<1>1. /\ tok \in [Tokens -> Row]
      /\ req \in [Requests -> RequestState]
      /\ sent \subseteq Tokens
  BY DEF IInv, TypeOK
<1>2. TypeOK'
  BY <1>1 DEF TypeOK
<1>3. OneAtATime'
  <2> SUFFICES ASSUME n.user \in {req[q].user, None}
               PROVE  OneAtATime'
    OBVIOUS
  <2>1. \A p \in Requests : req'[p].user \in {req[p].user, None}
    BY <1>1
  <2> QED BY <2>1 DEF IInv, OneAtATime
<1>4. \A p \in Requests : RequestOk(req'[p], tok') /\ Lone(req'[p], tok')
  BY <1>1 DEF IInv
<1> QED BY <1>2, <1>3, <1>4 DEF IInv, TokensOk, Final, Single

-----------------------------------------------------------------------------
(* The calls, one lemma each.                                              *)

LEMMA ArriveKeeps ==
    ASSUME IInv, NEW q \in Requests, NEW u \in Users, NEW op, NEW t, NEW pc,
           Arrive(q, u, op, t, pc),
           \/ op = "login" /\ t = None /\ pc = "insert"
           \/ op = "logout" /\ t = None /\ pc = "delete"
           \/ op = "refresh" /\ t \in sent /\ u = tok[t].user /\ pc = "select"
    PROVE  IInv'
<1> DEFINE st == t # None /\ tok[t].state # "live"
           n  == [op |-> op, user |-> u, token |-> t, pc |-> pc, code |-> 0,
                  stale |-> st]
<1>1. /\ req' = [req EXCEPT ![q] = n]
      /\ UNCHANGED <<tok, sent>>
      /\ u \in Overlapping \/ \A p \in Requests : req[p].user # u
  BY DEF Arrive, MayStart
<1>2. /\ tok \in [Tokens -> Row] /\ sent \subseteq Tokens
      /\ req \in [Requests -> RequestState]
      /\ \A s \in sent : tok[s].state # "unissued"
  BY DEF IInv, TypeOK
<1>0. st \in BOOLEAN /\ (st => t # None /\ tok[t].state # "live")
  OBVIOUS
<1> HIDE DEF st
<1>3. n \in RequestState
  BY <1>2, <1>0 DEF RequestState
<1>4. RequestOk(n, tok)
  <2>1. CASE op = "refresh"
    <3>1. t \in Tokens /\ tok[t].state \in {"live", "revoked", "deleted"}
      BY <1>2, <2>1, RowFacts
    <3> QED BY <2>1, <3>1, <1>0, NoneIsNone DEF RequestOk, Dead
  <2>2. CASE op \in {"login", "logout"}
    BY <2>2, <1>0, NoneIsNone DEF RequestOk
  <2> QED BY <2>1, <2>2
<1>5. Lone(n, tok)
  BY DEF Lone
<1>6. OneAtATime'
  <2>1. \A p \in Requests : req'[p] = IF p = q THEN n ELSE req[p]
    BY <1>1, <1>2
  <2> QED BY <2>1, <1>1 DEF IInv, OneAtATime
<1> HIDE DEF n
<1> QED BY <1>1, <1>3, <1>4, <1>5, <1>6, QuietStep

\* An answer that is no success, and no row written.
LEMMA ReplyKeeps ==
    ASSUME IInv, NEW q \in Requests, NEW c \in {401, 500},
           Reply(q, c), req[q].pc # "idle", UNCHANGED <<tok, sent>>
    PROVE  IInv'
<1> DEFINE n == Answered(req[q], c)
<1>1. req' = [req EXCEPT ![q] = n]
  BY DEF Reply, Answered
<1>2. /\ req[q] \in RequestState /\ RequestOk(req[q], tok)
  BY RequestFacts
<1>3. /\ n \in RequestState /\ n.pc = "done" /\ n.code = c
      /\ n.op = req[q].op /\ n.user = req[q].user
      /\ n.token = req[q].token /\ n.stale = req[q].stale
  BY <1>2, AnswerFacts
<1>4. RequestOk(n, tok) /\ Lone(n, tok)
  BY <1>2, <1>3 DEF RequestOk, Lone
<1> HIDE DEF n
<1> QED BY <1>1, <1>3, <1>4, QuietStep

\* A slot is free again: the answer was read, or the process died.
LEMMA ForgetKeeps ==
    ASSUME IInv, NEW q \in Requests,
           req' = [req EXCEPT ![q] = Idle], UNCHANGED <<tok, sent>>
    PROVE  IInv'
<1>1. Idle \in RequestState /\ RequestOk(Idle, tok) /\ Lone(Idle, tok)
  BY IdleOk
<1>2. Idle.user \in {req[q].user, None}
  BY DEF Idle
<1> QED BY <1>1, <1>2, QuietStep

LEMMA SelectKeeps ==
    ASSUME IInv, NEW q \in Requests, SelectToken(q)
    PROVE  IInv'
<1> DEFINE n(pc) == [req[q] EXCEPT !.pc = pc]
<1>1. /\ req[q].pc = "select" /\ UNCHANGED <<tok, sent>>
      /\ \/ tok[req[q].token].state = "live" /\ Goto(q, "revoke")
         \/ tok[req[q].token].state = "revoked" /\ Goto(q, "breach")
         \/ Reply(q, 401)
  <2>1. tok[req[q].token].state \in {"live", "revoked", "deleted"}
    BY RequestFacts, RowFacts DEF SelectToken, RequestOk, IInv, TypeOK
  <2> QED BY <2>1 DEF SelectToken
<1>2. /\ req[q] \in RequestState /\ RequestOk(req[q], tok)
      /\ req \in [Requests -> RequestState]
  BY RequestFacts DEF IInv, TypeOK
<1>3. CASE Reply(q, 401)
  BY <1>1, <1>3, ReplyKeeps
<1>4. ASSUME NEW pc \in {"revoke", "breach"}, Goto(q, pc),
             tok[req[q].token].state = IF pc = "revoke" THEN "live" ELSE "revoked"
      PROVE  IInv'
  <2>1. req' = [req EXCEPT ![q] = n(pc)]
    BY <1>4, <1>2 DEF Goto
  <2>2. n(pc) \in RequestState /\ n(pc).user = req[q].user
    BY <1>2 DEF RequestState
  <2>3. RequestOk(n(pc), tok) /\ Lone(n(pc), tok)
    BY <1>1, <1>2, <1>4 DEF RequestOk, Lone, RequestState, Dead, Idle
  <2> HIDE DEF n
  <2> QED BY <1>1, <2>1, <2>2, <2>3, QuietStep
<1> QED BY <1>1, <1>3, <1>4

LEMMA RevokeKeeps ==
    ASSUME IInv, NEW q \in Requests, RevokeToken(q)
    PROVE  IInv'
<1> DEFINE m == req[q]
           t == m.token
           next == [m EXCEPT !.pc = "insert"]
           fail == Answered(m, 500)
<1>1. /\ m.pc = "revoke" /\ sent' = sent
      /\ tok' = IF Stored(t) THEN [tok EXCEPT ![t].state = "revoked"] ELSE tok
  BY DEF RevokeToken, Revoked
<1>2. /\ m \in RequestState /\ RequestOk(m, tok) /\ Lone(m, tok)
      /\ m.op = "refresh" /\ t \in Tokens /\ m.user \in Users
      /\ tok[t].state # "unissued" /\ tok[t].user = m.user /\ ~m.stale
      /\ m.code = 0
  BY <1>1, RequestFacts DEF RequestOk
<1>3. /\ tok \in [Tokens -> Row] /\ TokensOk(tok)
      /\ req \in [Requests -> RequestState]
      /\ sent \subseteq Tokens /\ \A s \in sent : tok[s].state # "unissued"
      /\ Final(tok) /\ Single(tok)
  BY DEF IInv, TypeOK
<1>4. /\ tok' \in [Tokens -> Row]
      /\ \A s \in Tokens :
            /\ s # t => tok'[s] = tok[s]
            /\ tok'[s].user = tok[s].user /\ tok'[s].parent = tok[s].parent
            /\ tok'[s].state # tok[s].state => tok'[s].state = "revoked" /\ s = t
      /\ tok[t].state = "live" => tok'[t].state = "revoked"
      /\ Dead(tok'[t])
  <2>1. tok[t].state \in {"live", "revoked", "deleted"}
    BY <1>2, <1>3, RowFacts
  <2> QED BY <1>1, <1>2, <1>3, <2>1 DEF Row, Stored, Dead
<1>5. Grows(tok, tok') /\ Untouched(m.user, tok, tok')
  BY <1>2, <1>3, <1>4 DEF Grows, Untouched, Dead
<1>6. TokensOk(tok')
  <2> SUFFICES ASSUME NEW s \in Tokens
               PROVE  TokenOk(tok', s)
    BY DEF TokensOk
  <2>1. TokenOk(tok, s) /\ tok[s].parent \in Tokens \cup {None}
    BY <1>3, RowFacts DEF TokensOk
  <2>2. tok'[s].state = "unissued" => tok'[s] = tok[s]
    BY <1>2, <1>4 DEF Dead
  <2> QED BY <1>2, <1>4, <2>1, <2>2 DEF TokenOk, Dead
<1>7. Final(tok') /\ Single(tok')
  <2>1. \A s \in Tokens : tok[s].parent \in Tokens \cup {None}
    BY <1>3, RowFacts
  <2>2. \A s \in Tokens : /\ tok'[s].state = "deleted" => tok[s].state = "deleted"
                          /\ tok'[s].state = "live" => tok[s].state = "live"
    BY <1>4
  <2> QED BY <1>3, <1>4, <2>1, <2>2 DEF Final, Single
<1>8. \A s \in sent' : tok'[s].state # "unissued"
  BY <1>1, <1>3, <1>4
<1>9. CASE Goto(q, "insert")
  <2>1. req' = [req EXCEPT ![q] = next]
    BY <1>9, <1>3 DEF Goto
  <2>2. next \in RequestState /\ next.user = m.user
    BY <1>2 DEF RequestState
  <2>3. RequestOk(next, tok')
    BY <1>2, <1>4 DEF RequestOk, RequestState
  <2>4. Lone(next, tok')
    <3>1. tok[t].state = "live" => \A s \in Tokens : tok[s].parent # t
      BY <1>2, <1>3, NoneIsNone DEF TokensOk, TokenOk, Dead
    <3> QED BY <1>1, <1>2, <1>4, <3>1 DEF Lone, RequestState
  <2> HIDE DEF next
  <2> QED BY <1>1, <1>2, <1>3, <1>4, <1>5, <1>6, <1>7, <1>8, <2>1, <2>2, <2>3,
             <2>4, OneStep
<1>10. CASE Reply(q, 500)
  <2>1. req' = [req EXCEPT ![q] = fail]
    BY <1>10 DEF Reply, Answered
  <2>2. /\ fail \in RequestState /\ fail.pc = "done" /\ fail.code = 500
        /\ fail.op = m.op /\ fail.user = m.user
        /\ fail.token = m.token /\ fail.stale = m.stale
    BY <1>2, AnswerFacts
  <2>3. RequestOk(fail, tok') /\ Lone(fail, tok')
    BY <1>2, <1>4, <2>2 DEF RequestOk, Lone
  <2> HIDE DEF fail
  <2> QED BY <1>1, <1>2, <1>3, <1>4, <1>5, <1>6, <1>7, <1>8, <2>1, <2>2, <2>3,
             OneStep
<1> QED BY <1>9, <1>10 DEF RevokeToken

LEMMA InsertKeeps ==
    ASSUME IInv, NEW q \in Requests, InsertToken(q)
    PROVE  IInv'
<1> DEFINE m == req[q]
<1>1. PICK t \in Tokens :
         /\ m.pc = "insert" /\ tok[t] = Unissued
         /\ tok' = [tok EXCEPT ![t] = [user |-> m.user, parent |-> m.token,
                                       state |-> "live"]]
         /\ \/ Reply(q, 200) /\ sent' = sent \cup {t}
            \/ Reply(q, 500) /\ sent' = sent
  BY DEF InsertToken
<1>2. PICK c \in {200, 500} : Reply(q, c) /\ sent' \subseteq sent \cup {t}
  BY <1>1
<1> DEFINE n == Answered(m, c)
           p == m.token
<1>3. /\ m \in RequestState /\ RequestOk(m, tok) /\ Lone(m, tok)
      /\ m.user \in Users /\ p \in Tokens \cup {None}
  BY <1>1, RequestFacts DEF RequestOk
<1>4. /\ tok \in [Tokens -> Row] /\ TokensOk(tok)
      /\ req \in [Requests -> RequestState]
      /\ sent \subseteq Tokens /\ \A s \in sent : tok[s].state # "unissued"
      /\ Final(tok) /\ Single(tok)
  BY DEF IInv, TypeOK
<1>5. /\ tok[t].state = "unissued" /\ tok[t].user = None /\ tok[t].parent = None
  BY <1>1 DEF Unissued
<1>6. /\ tok' \in [Tokens -> Row]
      /\ \A s \in Tokens : s # t => tok'[s] = tok[s]
      /\ tok'[t].user = m.user /\ tok'[t].parent = p /\ tok'[t].state = "live"
  BY <1>1, <1>3, <1>4 DEF Row
<1>7. p # None => /\ p \in Tokens /\ p # t /\ tok'[p] = tok[p]
                  /\ Dead(tok[p]) /\ tok[p].user = m.user
                  /\ m.op = "refresh"
  BY <1>1, <1>3, <1>5, <1>6 DEF RequestOk, Dead
<1>8. \A s \in Tokens : /\ tok[s].parent \in Tokens \cup {None}
                        /\ tok[s].parent # t
  BY <1>4, <1>5, RowFacts, NoneIsNone DEF TokensOk, TokenOk, Dead
<1>9. Grows(tok, tok') /\ Untouched(m.user, tok, tok')
  BY <1>5, <1>6 DEF Grows, Untouched, Dead
<1>10. TokensOk(tok')
  <2> SUFFICES ASSUME NEW s \in Tokens
               PROVE  TokenOk(tok', s)
    BY DEF TokensOk
  <2>1. CASE s = t
    BY <2>1, <1>3, <1>6, <1>7, NoneIsNone DEF TokenOk
  <2>2. CASE s # t
    BY <2>2, <1>4, <1>6, <1>8 DEF TokensOk, TokenOk
  <2> QED BY <2>1, <2>2
<1>11. p # None /\ m.user \notin Overlapping =>
          tok[p].state = "revoked" /\ \A s \in Tokens : tok[s].parent # p
  BY <1>1, <1>3, <1>7 DEF Lone
<1>12. Final(tok')
  <2> SUFFICES ASSUME NEW s \in Tokens, tok'[s].user \notin Overlapping,
                      tok'[s].state = "live", tok'[s].parent # None
               PROVE  tok'[tok'[s].parent].state # "deleted"
    BY DEF Final
  <2>1. CASE s = t
    BY <2>1, <1>6, <1>7, <1>11
  <2>2. CASE s # t
    BY <2>2, <1>4, <1>6, <1>8 DEF Final
  <2> QED BY <2>1, <2>2
<1>13. Single(tok')
  <2> SUFFICES ASSUME NEW r \in Tokens, NEW s \in Tokens, r # s,
                      tok'[r].parent # None, tok'[r].user \notin Overlapping,
                      tok'[r].parent = tok'[s].parent
               PROVE  FALSE
    BY DEF Single
  <2>1. CASE r # t /\ s # t
    BY <2>1, <1>4, <1>6 DEF Single
  <2>2. CASE r = t
    BY <2>2, <1>6, <1>11
  <2>3. CASE s = t
    <3>1. tok[r].parent = p /\ tok[r].user \notin Overlapping
      BY <2>3, <1>6
    <3>2. tok[p].user = tok[r].user
      BY <3>1, <1>6, <2>3, <1>4 DEF TokensOk, TokenOk
    <3> QED BY <2>3, <3>1, <3>2, <1>6, <1>7, <1>11
  <2> QED BY <2>1, <2>2, <2>3
<1>14. sent' \subseteq Tokens /\ \A s \in sent' : tok'[s].state # "unissued"
  BY <1>2, <1>4, <1>6
<1>15. req' = [req EXCEPT ![q] = n]
  BY <1>2 DEF Reply, Answered
<1>16. /\ n \in RequestState /\ n.pc = "done" /\ n.code = c
       /\ n.op = m.op /\ n.user = m.user
       /\ n.token = m.token /\ n.stale = m.stale
  BY <1>3, AnswerFacts
<1>17. RequestOk(n, tok') /\ Lone(n, tok')
  BY <1>1, <1>3, <1>6, <1>7, <1>16, NoneIsNone DEF RequestOk, Lone
<1> HIDE DEF n
<1> QED BY <1>3, <1>6, <1>9, <1>10, <1>12, <1>13, <1>14, <1>15, <1>16, <1>17,
           OneStep

\* Logout's DELETE, and that of the breach rule.
LEMMA WithoutKeeps ==
    ASSUME IInv, NEW q \in Requests, NEW c \in {200, 401, 500},
           req[q].pc \in {"breach", "delete"}, c = 200 => req[q].pc = "delete",
           tok' = Without(req[q].user), sent' = sent, Reply(q, c)
    PROVE  IInv'
<1> DEFINE m == req[q]
           n == Answered(m, c)
<1>1. /\ m \in RequestState /\ RequestOk(m, tok) /\ m.user \in Users
  BY RequestFacts DEF RequestOk
<1>2. /\ tok \in [Tokens -> Row] /\ TokensOk(tok)
      /\ sent \subseteq Tokens /\ \A s \in sent : tok[s].state # "unissued"
      /\ Final(tok) /\ Single(tok)
  BY DEF IInv, TypeOK
<1>3. /\ tok' \in [Tokens -> Row]
      /\ \A s \in Tokens :
            /\ tok'[s].user = tok[s].user /\ tok'[s].parent = tok[s].parent
            /\ tok[s].user # m.user => tok'[s] = tok[s]
            /\ tok[s].user = m.user => tok'[s].state = "deleted"
  BY <1>2 DEF Without, Row
<1>4. \A s \in Tokens : /\ tok[s].parent \in Tokens \cup {None}
                        /\ tok[s].state = "unissued" => tok[s].user = None
  BY <1>2, RowFacts DEF TokensOk, TokenOk, Unissued
<1>5. Grows(tok, tok') /\ Untouched(m.user, tok, tok')
  BY <1>3 DEF Grows, Untouched, Dead
<1>6. TokensOk(tok')
  <2> SUFFICES ASSUME NEW s \in Tokens
               PROVE  TokenOk(tok', s)
    BY DEF TokensOk
  <2>1. TokenOk(tok, s)
    BY <1>2 DEF TokensOk
  <2>2. tok'[s].state = "unissued" => tok'[s] = tok[s]
    BY <1>3
  <2> QED BY <1>1, <1>3, <1>4, <2>1, <2>2, NoneIsNone DEF TokenOk, Dead
<1>7. Final(tok')
  <2> SUFFICES ASSUME NEW s \in Tokens, tok'[s].user \notin Overlapping,
                      tok'[s].state = "live", tok'[s].parent # None
               PROVE  tok'[tok'[s].parent].state # "deleted"
    BY DEF Final
  <2>1. tok[s].user # m.user /\ tok'[s] = tok[s] /\ tok[s].parent \in Tokens
    BY <1>3, <1>4
  <2>2. tok[tok[s].parent].user = tok[s].user
    BY <1>2, <2>1 DEF TokensOk, TokenOk
  <2> QED BY <1>2, <1>3, <2>1, <2>2 DEF Final
<1>8. Single(tok')
  BY <1>2, <1>3 DEF Single
<1>9. \A s \in sent' : tok'[s].state # "unissued"
  BY <1>2, <1>3
<1>10. req' = [req EXCEPT ![q] = n]
  BY DEF Reply, Answered
<1>11. /\ n \in RequestState /\ n.pc = "done" /\ n.code = c
       /\ n.op = m.op /\ n.user = m.user
       /\ n.token = m.token /\ n.stale = m.stale
  BY <1>1, AnswerFacts
<1>12. RequestOk(m, tok')
  BY <1>1, <1>5, RequestOkStable
<1>13. RequestOk(n, tok') /\ Lone(n, tok')
  BY <1>11, <1>12 DEF RequestOk, Lone
<1> HIDE DEF n
<1> QED BY <1>1, <1>2, <1>3, <1>5, <1>6, <1>7, <1>8, <1>9, <1>10, <1>11, <1>13,
           OneStep

LEMMA HandlerKeeps ==
    ASSUME IInv, NEW q \in Requests, Handler(q)
    PROVE  IInv'
<1>1. CASE Breach(q)
  BY <1>1, WithoutKeeps DEF Breach
<1>2. CASE DeleteTokens(q)
  BY <1>2, WithoutKeeps DEF DeleteTokens
<1> QED BY <1>1, <1>2, SelectKeeps, RevokeKeeps, InsertKeeps DEF Handler

-----------------------------------------------------------------------------

\* The invariant does not say what becomes of the tokens when nothing happens.
LEMMA StutterKeeps ==
    ASSUME IInv, UNCHANGED vars
    PROVE  IInv'
BY DEF vars, IInv, TypeOK, OneAtATime, TokensOk, Final, Single

LEMMA InitHolds == Init => IInv
<1> SUFFICES ASSUME Init
             PROVE  IInv
  OBVIOUS
<1>1. Unissued \in Row /\ Unissued.state = "unissued" /\ Unissued.parent = None
  BY DEF Unissued, Row
<1>2. TypeOK
  BY <1>1, IdleOk DEF Init, TypeOK
<1>3. \A t \in Tokens : tok[t] = Unissued
  BY DEF Init
<1>4. TokensOk(tok) /\ Final(tok) /\ Single(tok)
  BY <1>1, <1>3 DEF TokensOk, TokenOk, Final, Single
<1>5. \A q \in Requests : req[q] = Idle /\ RequestOk(req[q], tok) /\ Lone(req[q], tok)
  BY IdleOk DEF Init
<1>6. OneAtATime
  BY <1>5 DEF OneAtATime, Idle
<1> QED BY <1>2, <1>4, <1>5, <1>6 DEF IInv, Init

LEMMA StepKeeps == IInv /\ [Next]_vars => IInv'
<1> SUFFICES ASSUME IInv, [Next]_vars
             PROVE  IInv'
  OBVIOUS
<1>1. ASSUME NEW q \in Requests, NEW u \in Users, Login(q, u) \/ Logout(q, u)
      PROVE  IInv'
  BY <1>1, ArriveKeeps DEF Login, Logout
<1>2. ASSUME NEW q \in Requests, NEW t \in Tokens, Refresh(q, t)
      PROVE  IInv'
  <2>1. t \in sent /\ Arrive(q, tok[t].user, "refresh", t, "select")
    BY <1>2 DEF Refresh
  <2>2. tok[t].user \in Users
    BY <2>1 DEF IInv, TokensOk, TokenOk
  <2> QED BY <2>1, <2>2, ArriveKeeps
<1>3. ASSUME NEW q \in Requests, DbError(q)
      PROVE  IInv'
  <2>1. UNCHANGED <<tok, sent>> /\ req[q].pc # "idle"
        /\ (Reply(q, 401) \/ Reply(q, 500))
    BY <1>3 DEF DbError
  <2> QED BY <2>1, ReplyKeeps
<1>4. ASSUME NEW q \in Requests, Killed(q) \/ Close(q)
      PROVE  IInv'
  BY <1>4, ForgetKeeps DEF Killed, Close
<1>5. CASE UNCHANGED vars
  BY <1>5, StutterKeeps
<1> QED BY <1>1, <1>2, <1>3, <1>4, <1>5, HandlerKeeps DEF Next

LEMMA InvariantHolds == Spec => []IInv
BY InitHolds, StepKeeps, PTL DEF Spec

\* What the invariant says of each property.
LEMMA InvariantSays ==
    IInv => TypeOK /\ RotationRevokes /\ ReuseRefused /\ OneSuccessor /\ EndIsFinal
<1> SUFFICES ASSUME IInv
             PROVE  TypeOK /\ RotationRevokes /\ ReuseRefused /\ OneSuccessor
                    /\ EndIsFinal
  OBVIOUS
<1>1. RotationRevokes
  BY DEF IInv, TokensOk, TokenOk, Dead, RotationRevokes
<1>2. ReuseRefused
  BY DEF IInv, RequestOk, ReuseRefused
<1>3. OneSuccessor
  BY DEF IInv, Single, OneSuccessor
<1>4. EndIsFinal
  BY DEF IInv, Final, EndIsFinal, Outlives
<1> QED BY <1>1, <1>2, <1>3, <1>4 DEF IInv

(* The handlers keep the types of refresh_tokens and of the requests.      *)
THEOREM TypeCorrect == Spec => []TypeOK
BY InvariantHolds, InvariantSays, PTL

(* RefreshToken never leaves a token alive that it has traded.             *)
THEOREM RotationStands == Spec => []RotationRevokes
BY InvariantHolds, InvariantSays, PTL

(* RefreshToken gives nothing for a token that was dead when it arrived.   *)
THEOREM ReuseBuysNothing == Spec => []ReuseRefused
BY InvariantHolds, InvariantSays, PTL

(* Without overlap RefreshToken makes one successor of a token, whatever   *)
(* fails, dies or is retried.                                              *)
THEOREM AtMostOneSuccessor == Spec => []OneSuccessor
BY InvariantHolds, InvariantSays, PTL

(* Without overlap nothing outlives Logout or the breach rule.             *)
THEOREM EndStands == Spec => []EndIsFinal
BY InvariantHolds, InvariantSays, PTL
=============================================================================
