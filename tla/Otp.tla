-------------------------------- MODULE Otp --------------------------------
(***************************************************************************)
(* One-time codes: the table otp_codes and the handlers RequestOTP and     *)
(* VerifyOTP of internal/api/auth.go, one action per call to the database  *)
(* or to the SMS provider.  No transaction joins the SELECT that judges a  *)
(* code to the UPDATE that counts a wrong one, or to the DELETE that makes *)
(* a right one unusable.                                                   *)
(*                                                                         *)
(* An account is a phone, normalised, with a role; when a body names no    *)
(* role, it is the account that the detection would find (Accounts.tla has *)
(* the detection).  A body that does not parse, a phone that is not ten    *)
(* digits and an unknown role are answered 400 before any call and are     *)
(* left out, and so is DEV_MODE.                                           *)
(***************************************************************************)
EXTENDS Naturals, FiniteSets

CONSTANTS
    Accounts,
    Codes,          \* bound: the codes that can be drawn
    Requests,       \* the requests the server can be serving at a time
    None,
    Faults          \* may calls fail, may the process die

ASSUME OtpAssumption ==
    /\ None \notin Accounts \cup Codes
    /\ IsFiniteSet(Requests)
    /\ Faults \in BOOLEAN

VARIABLES
    otp,            \* otp_codes
    inbox,          \* the code in the last SMS each account was delivered
    told,           \* accounts that had a 200 for a code since their last
                    \* code was stored
    crossed,        \* accounts whose last code was stored while the SMS of
                    \* another was still to be sent
    registered,     \* the accounts that exist
    wrong,          \* how often each code was compared with a wrong one, but
                    \* for the guesses whose counting failed
    used,           \* how often each code was answered with a token pair
    contested,      \* codes two requests under way were judged by
    strayed,        \* codes stored while wrong guesses at an older code of
                    \* the account were still to be counted
    req             \* the requests being served

sms    == <<inbox, told, crossed>>
counts == <<wrong, used, contested, strayed>>
vars   == <<otp, sms, registered, counts, req>>

MaxAttempts == 3

\* Bound: the two counts below stop where they would refute a property.
CountedUpTo(n, bound) == IF n < bound THEN n + 1 ELSE n

NoCode == [code |-> None, attempts |-> 0, expired |-> FALSE]

\* code is what the client entered, seen the code that was stored for it or
\* that it was judged by.
RequestState ==
    [op      : {"none", "request", "verify"},
     account : Accounts \cup {None},
     code    : Codes \cup {None},
     seen    : Codes \cup {None},
     pc      : {"idle", "detect", "store", "send", "select", "increment",
                "delete", "lookup", "insert", "done"},
     status  : {0, 200, 401, 404, 410, 429, 500}]

Idle == [op |-> "none", account |-> None, code |-> None, seen |-> None,
         pc |-> "idle", status |-> 0]

\* attempts is a SMALLINT: what it can reach with every request under way.
TypeOK ==
    /\ otp \in [Accounts -> [code : Codes \cup {None}, expired : BOOLEAN,
                    attempts : 0..(MaxAttempts - 1 + Cardinality(Requests))]]
    /\ inbox \in [Accounts -> Codes \cup {None}]
    /\ told \subseteq Accounts
    /\ crossed \subseteq Accounts
    /\ registered \subseteq Accounts
    /\ contested \subseteq Codes
    /\ strayed \subseteq Codes
    /\ wrong \in [Codes -> Nat]
    /\ used \in [Codes -> Nat]
    /\ req \in [Requests -> RequestState]

Init ==
    /\ otp = [a \in Accounts |-> NoCode]
    /\ inbox = [a \in Accounts |-> None]
    /\ told = {}
    /\ crossed = {}
    /\ registered = {}
    /\ contested = {}
    /\ strayed = {}
    /\ wrong = [c \in Codes |-> 0]
    /\ used = [c \in Codes |-> 0]
    /\ req = [q \in Requests |-> Idle]

-----------------------------------------------------------------------------
(* Arrival and answer.                                                     *)

\* What the request was about is forgotten with the answer.
Reply(q, status) ==
    req' = [req EXCEPT ![q] = [Idle EXCEPT !.pc = "done", !.status = status]]

Goto(q, pc) == req' = [req EXCEPT ![q].pc = pc]

FirstCall(op) == IF op = "request" THEN "store" ELSE "select"

\* A body without a role has it detected first, by the phone.
Submit(q) ==
    /\ req[q] = Idle
    /\ \E a \in Accounts, op \in {"request", "verify"}, c \in Codes \cup {None} :
          /\ (c = None) <=> (op = "request")
          /\ \E pc \in {"detect", FirstCall(op)} :
                req' = [req EXCEPT ![q] = [op |-> op, account |-> a, code |-> c,
                            seen |-> None, pc |-> pc, status |-> 0]]
    /\ UNCHANGED <<otp, sms, registered, counts>>

Close(q) ==
    /\ req[q].pc = "done"
    /\ req' = [req EXCEPT ![q] = Idle]
    /\ UNCHANGED <<otp, sms, registered, counts>>

DetectRole(q) ==
    /\ req[q].pc = "detect"
    /\ IF req[q].account \in registered
       THEN Goto(q, FirstCall(req[q].op))
       ELSE Reply(q, 404)
    /\ UNCHANGED <<otp, sms, registered, counts>>

-----------------------------------------------------------------------------
(* RequestOTP.                                                             *)

\* A random code: none that is stored or that a request under way has in its
\* hands.  One of the past, also of the last SMS, is counted anew.
Fresh(c) == /\ \A a \in Accounts : otp[a].code # c
            /\ \A p \in Requests : req[p].seen # c

\* Mutant: ON CONFLICT DO NOTHING.
StoredFirst(a, c) ==
    IF otp[a] # NoCode THEN otp
    ELSE [otp EXCEPT ![a] = [code |-> c, attempts |-> 0, expired |-> FALSE]]

\* Mutant: the attempts at the old code are kept.
ReplacedUncleared(a, c) ==
    [otp EXCEPT ![a] = [code |-> c, attempts |-> @.attempts, expired |-> FALSE]]

\* INSERT ... ON CONFLICT DO UPDATE: the last request's code replaces any
\* other and starts with no attempts.
Replaced(a, c) ==
    [otp EXCEPT ![a] = [code |-> c, attempts |-> 0, expired |-> FALSE]]

Sending(q, a)  == req[q].pc = "send" /\ req[q].account = a
ToCount(q, a) == req[q].pc = "increment" /\ req[q].account = a

StoreCode(q) ==
    /\ req[q].pc = "store"
    /\ LET a == req[q].account
       IN  \E c \in Codes :
              /\ Fresh(c)
              /\ otp' = Replaced(a, c)
              /\ told' = told \ {a}
              /\ crossed' = IF \E p \in Requests : Sending(p, a)
                            THEN crossed \cup {a} ELSE crossed \ {a}
              /\ \/ req' = [req EXCEPT ![q] =
                                [@ EXCEPT !.pc = "send", !.seen = c]]
                 \/ Faults /\ Reply(q, 500)
              /\ wrong' = [wrong EXCEPT ![c] = 0]
              /\ used' = [used EXCEPT ![c] = 0]
              /\ contested' = contested \ {c}
              /\ strayed' = IF \E p \in Requests : ToCount(p, a)
                            THEN strayed \cup {c} ELSE strayed \ {c}
    /\ UNCHANGED <<inbox, registered>>

\* Sender.Send delivers the SMS, and the provider's answer may be lost.  When
\* it fails (CallFails) the new code stays in place of the old one, and the
\* last SMS of the account is one with a code that is no longer stored.
SendCode(q) ==
    /\ req[q].pc = "send"
    /\ inbox' = [inbox EXCEPT ![req[q].account] = req[q].seen]
    /\ \/ Reply(q, 200) /\ told' = told \cup {req[q].account}
       \/ Faults /\ Reply(q, 500) /\ UNCHANGED told
    /\ UNCHANGED <<otp, crossed, registered, counts>>

RequestOTP(q) ==
    req[q].op = "request" /\ (DetectRole(q) \/ StoreCode(q) \/ SendCode(q))

-----------------------------------------------------------------------------
(* VerifyOTP.                                                              *)

\* Mutant: one attempt too many.
LockedLate(row) == row.attempts > MaxAttempts

Locked(row) == row.attempts >= MaxAttempts

Judged(q, c) == req[q].op = "verify" /\ req[q].seen = c

\* The SELECT and the checks on what it read: expiry before attempts, both
\* before the code.
SelectCode(q) ==
    /\ req[q].pc = "select"
    /\ LET row   == otp[req[q].account]
           right == row.code = req[q].code
       IN  IF row = NoCode \/ row.expired \/ Locked(row)
           THEN /\ Reply(q, CASE row = NoCode -> 401
                              [] row # NoCode /\ row.expired -> 410
                              [] OTHER -> 429)
                /\ UNCHANGED <<wrong, contested>>
           ELSE /\ req' = [req EXCEPT ![q] = [@ EXCEPT !.seen = row.code,
                              !.pc = IF right THEN "delete" ELSE "increment"]]
                /\ wrong' = [wrong EXCEPT ![row.code] =
                   IF right THEN @
                   ELSE CountedUpTo(@, MaxAttempts + Cardinality(Requests))]
                /\ contested' = IF \E p \in Requests : Judged(p, row.code)
                                THEN contested \cup {row.code} ELSE contested
    /\ UNCHANGED <<otp, sms, registered, used, strayed>>

\* Mutant: the failure is answered but not counted.
CountedNot(a) == otp

\* attempts = attempts + 1, on whatever row is there by now.
Counted(a) == IF otp[a] = NoCode THEN otp ELSE [otp EXCEPT ![a].attempts = @ + 1]

\* Answered 401 whether the UPDATE succeeded or not.
CountAttempt(q) ==
    /\ req[q].pc = "increment"
    /\ otp' = Counted(req[q].account)
    /\ Reply(q, 401)
    /\ UNCHANGED <<sms, registered, counts>>

\* Mutant: the row is kept.
DeletedNot(a) == otp

\* By phone and role: also a newer code goes.
Deleted(a) == [otp EXCEPT ![a] = NoCode]

DeleteCode(q) ==
    /\ req[q].pc = "delete"
    /\ otp' = Deleted(req[q].account)
    /\ Goto(q, "lookup") \/ (Faults /\ Reply(q, 500))
    /\ UNCHANGED <<sms, registered, counts>>

LookupUser(q) ==
    /\ req[q].pc = "lookup"
    /\ IF req[q].account \in registered THEN Goto(q, "insert") ELSE Reply(q, 401)
    /\ UNCHANGED <<otp, sms, registered, counts>>

\* The token pair: Login of module Sessions.
IssueTokens(q) ==
    /\ req[q].pc = "insert"
    /\ \/ /\ Reply(q, 200)
          /\ used' = [used EXCEPT ![req[q].seen] =
                          CountedUpTo(@, Cardinality(Requests) + 1)]
       \/ Faults /\ Reply(q, 500) /\ UNCHANGED used
    /\ UNCHANGED <<otp, sms, registered, wrong, contested, strayed>>

VerifyOTP(q) ==
    /\ req[q].op = "verify"
    /\ \/ DetectRole(q) \/ SelectCode(q) \/ CountAttempt(q)
       \/ DeleteCode(q) \/ LookupUser(q) \/ IssueTokens(q)

-----------------------------------------------------------------------------

\* A guess whose counting failed was free.
NotCounting(q) ==
    wrong' = IF req[q].pc = "increment"
             THEN [wrong EXCEPT ![req[q].seen] = @ - 1] ELSE wrong

\* A call fails before it does anything.
CallFails(q) ==
    /\ Faults
    /\ req[q].pc \notin {"idle", "done"}
    /\ Reply(q, IF req[q].pc = "increment" THEN 401 ELSE 500)
    /\ NotCounting(q)
    /\ UNCHANGED <<otp, sms, registered, used, contested, strayed>>

\* The process dies between two calls.
Killed(q) ==
    /\ Faults
    /\ req[q].pc \notin {"idle", "done"}
    /\ req' = [req EXCEPT ![q] = Idle]
    /\ NotCounting(q)
    /\ UNCHANGED <<otp, sms, registered, used, contested, strayed>>

\* expires_at passes: five minutes after the code was stored.
Expire(a) ==
    /\ otp[a] # NoCode
    /\ otp' = [otp EXCEPT ![a].expired = TRUE]
    /\ UNCHANGED <<sms, registered, counts, req>>

\* POST /auth/register/...: the row of users, drivers or admins.
Register(a) ==
    /\ registered' = registered \cup {a}
    /\ UNCHANGED <<otp, sms, counts, req>>

Next ==
    \/ \E q \in Requests :
          \/ Submit(q) \/ RequestOTP(q) \/ VerifyOTP(q)
          \/ CallFails(q) \/ Killed(q) \/ Close(q)
    \/ \E a \in Accounts : Expire(a) \/ Register(a)

Spec == Init /\ [][Next]_vars

-----------------------------------------------------------------------------
(* What the handlers promise.                                              *)

(* "Check attempts < 3" (ARCHITECTURE.md:250): a code that requests are    *)
(* judged by one at a time meets three wrong guesses at most, whatever     *)
(* fails or dies; every request that can be under way with them adds one,  *)
(* for it reads the count before the others raise it.  A guess whose       *)
(* UPDATE failed is not among them.                                        *)
GuessesBounded == \A c \in Codes :
    wrong[c] <= IF c \in contested
                THEN MaxAttempts - 1 + Cardinality(Requests)
                ELSE MaxAttempts

(* A code that requests are judged by one at a time buys one token pair,   *)
(* whatever fails, dies or is retried; of those that were judged by it     *)
(* together each may buy one, for none looks whether its DELETE found it.  *)
UsesBounded == \A c \in Codes :
    used[c] <= IF c \in contested THEN Cardinality(Requests) ELSE 1

(* Nobody is locked out by guesses that were not made: a stored code has   *)
(* no more attempts than wrong codes were compared with it.  The UPDATE    *)
(* that counts a guess names the account and not the code (auth.go:530):   *)
(* of the guesses at an older code that were still to be counted when this *)
(* one was stored, each may be counted against it, and no other.           *)
LockIsEarned == \A a \in Accounts :
    LET c == otp[a].code
    IN  c # None =>
            otp[a].attempts <= wrong[c] + IF c \in strayed
                                          THEN Cardinality(Requests) - 1 ELSE 0

(* A 200 for a code is worth something: until the account asks for another *)
(* one, the stored code is the one in the last SMS it was delivered, or    *)
(* none is stored any more, whatever became of all requests before that    *)
(* one and fails after it.  So asking again repairs the two cases in which *)
(* the last SMS holds a code that was replaced: the message of the newer   *)
(* one failed or was never sent, or (crossed) two messages passed each     *)
(* other; to be repaired, the request that asks again crosses no other.    *)
LastSmsCounts == \A a \in told \ crossed :
    otp[a].code \in {inbox[a], None}
=============================================================================
