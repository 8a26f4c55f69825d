------------------------------ MODULE Sessions ------------------------------
(***************************************************************************)
(* Refresh tokens: the table refresh_tokens and the handlers of            *)
(* internal/api/auth.go that write it, one action per call to the          *)
(* database.  A session starts with a login (the last call of VerifyOTP    *)
(* and of the three registrations), is carried on by RefreshToken, which   *)
(* trades a token for its successor, and ends with Logout or with the      *)
(* breach rule.  Nothing but the row's revoked_at guards a token, and the  *)
(* row is not locked between the SELECT and the UPDATE.                    *)
(***************************************************************************)
EXTENDS Naturals, FiniteSets

CONSTANTS
    Users,          \* the subjects of tokens: riders, drivers, admins
    Tokens,         \* bound: the tokens that can ever be issued
    Requests,       \* the requests the server can be serving at a time
    None,
    Overlapping,    \* users who may have two requests under way at a time
    Faults          \* may calls to the database fail, may the process die

ASSUME SessionsAssumption ==
    /\ None \notin Tokens \cup Users
    /\ Overlapping \subseteq Users
    /\ Faults \in BOOLEAN

VARIABLES
    tok,            \* refresh_tokens, with what became of deleted rows
    sent,           \* the tokens some client has been answered with
    req             \* the requests being served

vars == <<tok, sent, req>>

\* parent is the token that was traded for this one; no column holds it.
Row == [user : Users \cup {None}, parent : Tokens \cup {None},
        state : {"unissued", "live", "revoked", "deleted"}]

Unissued == [user |-> None, parent |-> None, state |-> "unissued"]

\* stale: the presented token was dead when the request arrived.
RequestState ==
    [op    : {"none", "login", "refresh", "logout"},
     user  : Users \cup {None},
     token : Tokens \cup {None},
     stale : BOOLEAN,
     pc    : {"idle", "select", "revoke", "breach", "insert", "delete", "done"},
     code  : {0, 200, 401, 500}]

Idle == [op |-> "none", user |-> None, token |-> None, stale |-> FALSE,
         pc |-> "idle", code |-> 0]

TypeOK ==
    /\ tok \in [Tokens -> Row]
    /\ sent \subseteq Tokens
    /\ req \in [Requests -> RequestState]

Init ==
    /\ tok = [t \in Tokens |-> Unissued]
    /\ sent = {}
    /\ req = [q \in Requests |-> Idle]

Stored(t) == tok[t].state \in {"live", "revoked"}

-----------------------------------------------------------------------------
(* Arrival and answer.                                                     *)

\* The bound on tokens never stops a request half-way.
TokensLeft ==
    Cardinality({t \in Tokens : tok[t].state = "unissued"})
        > Cardinality({q \in Requests : req[q].op \in {"login", "refresh"}})

MayStart(q, u) ==
    /\ req[q] = Idle
    /\ u \in Overlapping \/ \A p \in Requests : req[p].user # u

Arrive(q, u, op, t, pc) ==
    /\ MayStart(q, u)
    /\ req' = [req EXCEPT ![q] =
           [op |-> op, user |-> u, token |-> t, pc |-> pc, code |-> 0,
            stale |-> t # None /\ tok[t].state # "live"]]
    /\ UNCHANGED <<tok, sent>>

\* A code was verified, or an account registered.
Login(q, u) == TokensLeft /\ Arrive(q, u, "login", None, "insert")

Refresh(q, t) ==
    TokensLeft /\ t \in sent /\ Arrive(q, tok[t].user, "refresh", t, "select")

\* With an access token, which no table holds.
Logout(q, u) == Arrive(q, u, "logout", None, "delete")

Reply(q, code) ==
    req' = [req EXCEPT ![q] = [@ EXCEPT !.pc = "done", !.code = code]]

Goto(q, pc) == req' = [req EXCEPT ![q].pc = pc]

Close(q) ==
    /\ req[q].pc = "done"
    /\ req' = [req EXCEPT ![q] = Idle]
    /\ UNCHANGED <<tok, sent>>

-----------------------------------------------------------------------------
(* The calls.                                                              *)

\* Mutant: revoked_at is not looked at.
SelectTokenAny(q) ==
    /\ req[q].pc = "select"
    /\ IF Stored(req[q].token) THEN Goto(q, "revoke") ELSE Reply(q, 401)
    /\ UNCHANGED <<tok, sent>>

SelectToken(q) ==
    /\ req[q].pc = "select"
    /\ CASE tok[req[q].token].state = "live"    -> Goto(q, "revoke")
         [] tok[req[q].token].state = "revoked" -> Goto(q, "breach")
         [] tok[req[q].token].state = "deleted" -> Reply(q, 401)
    /\ UNCHANGED <<tok, sent>>

\* Mutants: the token presented stays valid; it is marked in a way that no
\* handler knows.
RevokedForgotten(t) == tok

RevokedOtherwise(t) == [tok EXCEPT ![t].state = "rotated"]

\* UPDATE ... WHERE id: a row deleted meanwhile is not matched, and nobody
\* looks at the number of rows.
Revoked(t) == IF Stored(t) THEN [tok EXCEPT ![t].state = "revoked"] ELSE tok

RevokeToken(q) ==
    /\ req[q].pc = "revoke"
    /\ tok' = Revoked(req[q].token)
    /\ Goto(q, "insert") \/ (Faults /\ Reply(q, 500))
    /\ UNCHANGED sent

\* Login's or RefreshToken's INSERT.  A lost acknowledgement leaves a token
\* no client has.
InsertToken(q) ==
    /\ req[q].pc = "insert"
    /\ \E t \in Tokens :
          /\ tok[t] = Unissued
          /\ tok' = [tok EXCEPT ![t] = [user |-> req[q].user,
                        parent |-> req[q].token, state |-> "live"]]
          /\ \/ Reply(q, 200) /\ sent' = sent \cup {t}
             \/ Faults /\ Reply(q, 500) /\ UNCHANGED sent

\* Mutant: only the rows already revoked are deleted.
WithoutRevoked(u) ==
    [t \in Tokens |-> IF tok[t].user = u /\ tok[t].state = "revoked"
                      THEN [tok[t] EXCEPT !.state = "deleted"] ELSE tok[t]]

\* DELETE FROM refresh_tokens WHERE user_id.
Without(u) ==
    [t \in Tokens |-> IF tok[t].user = u
                      THEN [tok[t] EXCEPT !.state = "deleted"] ELSE tok[t]]

\* Answered 401 whether the DELETE succeeded or not.
Breach(q) ==
    /\ req[q].pc = "breach"
    /\ tok' = Without(req[q].user)
    /\ Reply(q, 401)
    /\ UNCHANGED sent

DeleteTokens(q) ==
    /\ req[q].pc = "delete"
    /\ tok' = Without(req[q].user)
    /\ Reply(q, 200) \/ (Faults /\ Reply(q, 500))
    /\ UNCHANGED sent

\* Mutant: a failed revocation is logged and passed over.
DbErrorLogged(q) ==
    /\ Faults
    /\ req[q].pc \notin {"idle", "done"}
    /\ CASE req[q].pc = "breach" -> Reply(q, 401)
         [] req[q].pc = "revoke" -> Goto(q, "insert")
         [] OTHER                -> Reply(q, 500)
    /\ UNCHANGED <<tok, sent>>

\* A call fails before it does anything.
DbError(q) ==
    /\ Faults
    /\ req[q].pc \notin {"idle", "done"}
    /\ Reply(q, IF req[q].pc = "breach" THEN 401 ELSE 500)
    /\ UNCHANGED <<tok, sent>>

-----------------------------------------------------------------------------

Handler(q) ==
    \/ SelectToken(q) \/ RevokeToken(q) \/ Breach(q) \/ InsertToken(q)
    \/ DeleteTokens(q)

\* The process dies between two calls.
Killed(q) ==
    /\ Faults
    /\ req[q].pc \notin {"idle", "done"}
    /\ req' = [req EXCEPT ![q] = Idle]
    /\ UNCHANGED <<tok, sent>>

Next ==
    \/ \E q \in Requests, u \in Users : Login(q, u) \/ Logout(q, u)
    \/ \E q \in Requests, t \in Tokens : Refresh(q, t)
    \/ \E q \in Requests : Handler(q) \/ DbError(q) \/ Killed(q) \/ Close(q)

Spec == Init /\ [][Next]_vars

\* net/http runs each handler in a goroutine of its own.
FairSpec == Spec /\ \A q \in Requests : WF_vars(Handler(q))

-----------------------------------------------------------------------------
(* What the handlers promise.                                              *)

(* "rota un refresh token: invalida el anterior" (auth.go:617): whoever    *)
(* holds a successor, the token traded for it is dead, for every           *)
(* interleaving, fault and crash.                                          *)
RotationRevokes == \A t \in Tokens :
    tok[t].parent # None => tok[tok[t].parent].state \in {"revoked", "deleted"}

(* A token that had been traded in, or whose session had ended, before a   *)
(* request arrived with it buys nothing, whatever the request overlaps.    *)
ReuseRefused == \A q \in Requests :
    req[q].stale => /\ req[q].pc \notin {"revoke", "insert"}
                    /\ req[q].code # 200

(* A token is traded for one successor at most, when its user's requests   *)
(* come one at a time: a retry after a crash or a lost answer does not     *)
(* make a second session of one.                                           *)
OneSuccessor == \A s, t \in Tokens :
    /\ s # t
    /\ tok[s].parent # None
    /\ tok[s].user \notin Overlapping
    => tok[s].parent # tok[t].parent

\* A live token whose session was ended before it was issued.
Outlives(t) ==
    /\ tok[t].state = "live"
    /\ tok[t].parent # None
    /\ tok[tok[t].parent].state = "deleted"

(* When Logout or the breach rule has ended such a user's sessions, no     *)
(* token that descends from them is live: deleting the rows is final.      *)
EndIsFinal == \A t \in Tokens : tok[t].user \notin Overlapping => ~Outlives(t)

(* ARCHITECTURE.md:205, "Revoked token reused -> all tokens deleted": once *)
(* a handler has seen a revoked token, every token of that user dies.      *)
BreachEndsSessions == \A t \in Tokens :
    (Stored(t) /\ \E q \in Requests : /\ req[q].pc = "breach"
                                      /\ req[q].user = tok[t].user)
        ~> tok[t].state = "deleted"

-----------------------------------------------------------------------------
(* What the documentation promises and the handlers do not keep.           *)

(* "Logout invalida todos los refresh tokens del usuario autenticado"      *)
(* (auth.go:716): no session outlives a logout, whatever overlaps it.      *)
LogoutIsFinal == \A t \in Tokens : ~Outlives(t)
=============================================================================
