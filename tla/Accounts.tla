------------------------------ MODULE Accounts ------------------------------
(***************************************************************************)
(* Registration and the login by phone: the tables users, drivers and      *)
(* admins, the handlers of internal/api/auth.go and internal/api/admin.go  *)
(* that insert into them, and the way VerifyOTP goes from a phone to an    *)
(* account.  Every one of them ends in the INSERT of a refresh token, so   *)
(* this module extends Sessions: what is here comes before its requests.   *)
(*                                                                         *)
(* A registration is two INSERTs in no transaction; the tables know a      *)
(* phone by its text, the handlers by its ten digits.  That the caller     *)
(* holds the right one-time code is module Otp.                            *)
(***************************************************************************)
EXTENDS Sessions

CONSTANTS
    Phones,         \* the phones, as people know them
    Roles,          \* the tables in use: the first of the three below
    Client,         \* the request slot of a rider's phone that keeps trying
    MaxFailures     \* bound: failures of the statements below

ASSUME AccountsAssumption ==
    /\ Roles \subseteq {"rider", "driver", "admin"}
    /\ "rider" \in Roles
    /\ "admin" \in Roles => "driver" \in Roles
    /\ IsFiniteSet(Users) /\ IsFiniteSet(Requests)
    /\ Client \in Requests
    /\ MaxFailures \in Nat
    /\ Overlapping = Users

VARIABLES
    acct,           \* the rows of the three tables
    reg,            \* the requests that are not yet in module Sessions
    client,         \* what the phone at slot Client is trying
    failures        \* how many statements have failed

accountVars == <<acct, reg, client, failures>>

allVars == <<vars, accountVars>>

\* Ways of writing a phone: ten digits, those after +52, with separators.
Spellings == {"plain", "plus52", "spaced"}

NoAccount == [role |-> "none", phone |-> None, form |-> "none"]

AccountRow == [role : Roles, phone : Phones, form : Spellings]

\* known: the phone had an account when the login arrived.
EntryState ==
    [op    : {"none", "register", "create", "login"},
     role  : Roles \cup {"none"},
     phone : Phones \cup {None},
     form  : Spellings \cup {"none"},
     known : BOOLEAN,
     pc    : {"idle", "account", "detect", "lookup", "done"},
     code  : {0, 201, 401, 404, 409, 500}]

NoEntry == [op |-> "none", role |-> "none", phone |-> None, form |-> "none",
            known |-> FALSE, pc |-> "idle", code |-> 0]

AccountsTypeOK ==
    /\ TypeOK
    /\ acct \in [Users -> AccountRow \cup {NoAccount}]
    /\ reg \in [Requests -> EntryState]
    /\ client \in {"register", "login", "in"}
    /\ failures \in 0..MaxFailures

SeededId == CHOOSE u \in Users : TRUE

\* Migration 000003 inserts a test account in each table, "+52" and all, each
\* with a phone of its own.
Seeded == [role : Roles, phone : Phones, form : {"plus52"}]

AccountsInit ==
    /\ Init
    /\ \E first \in Seeded \cup {NoAccount} :
          acct = [u \in Users |-> IF u = SeededId THEN first ELSE NoAccount]
    /\ reg = [q \in Requests |-> NoEntry]
    /\ client = "register"
    /\ failures = 0

-----------------------------------------------------------------------------
(* Phones.                                                                 *)

\* Mutant: the text is stored as it came.
Verbatim(spelling) == spelling

\* Strip what is no digit, then a leading 52 of twelve.
Normalized(spelling) == "plain"

\* Mutant: without the second half of the WHERE.
FindsPlain(form) == form = "plain"

\* WHERE phone = $1 OR phone = '+52' || $1.
Finds(form) == form \in {"plain", "plus52"}

Matches(role, p) == {u \in Users : /\ acct[u].role = role
                                   /\ acct[u].phone = p
                                   /\ Finds(acct[u].form)}

\* An account as a registration or a migration writes it.
HasAccount(role, p) ==
    \E u \in Users : /\ acct[u].role = role /\ acct[u].phone = p
                     /\ acct[u].form # "spaced"

\* UNIQUE (phone), of each table.
Taken(e) == \E u \in Users : acct[u] = [role  |-> e.role, phone |-> e.phone,
                                        form  |-> e.form]

-----------------------------------------------------------------------------
(* Arrival.  The bounds on tokens and ids never stop a request half-way,   *)
(* and keep one of each for the client.                                    *)

Free(q) == req[q] = Idle /\ reg[q] = NoEntry

Reserved(q) == IF client = "in" \/ q = Client THEN 0 ELSE 1

TokenPending(p) == \/ req[p].op \in {"login", "refresh"} /\ req[p].pc # "done"
                   \/ reg[p].pc \notin {"idle", "done"}

Room(q) ==
    Cardinality({t \in Tokens : tok[t].state = "unissued"})
        > Reserved(q) + Cardinality({p \in Requests \ {q} : TokenPending(p)})

RoomForAccount(q) ==
    Cardinality({u \in Users : acct[u] = NoAccount})
        > Reserved(q) + Cardinality({p \in Requests \ {q} :
                            reg[p].pc = "account" /\ ~Taken(reg[p])})

Enter(q, entry) ==
    /\ Free(q) /\ Room(q)
    /\ reg' = [reg EXCEPT ![q] = entry]
    /\ UNCHANGED <<vars, acct, client, failures>>

\* POST /auth/register/{rider,driver,admin}.
Register(q, role, p) == \E s \in Spellings :
    /\ \/ RoomForAccount(q)
       \/ Taken([role |-> role, phone |-> p, form |-> Normalized(s)])
    /\ Enter(q, [NoEntry EXCEPT !.op = "register", !.role = role, !.phone = p,
                                !.form = Normalized(s), !.pc = "account"])

\* POST /admin/drivers: AdminCreateDriver does not normalise.
AdminCreateDriver(q, p) == \E s \in Spellings :
    /\ "driver" \in Roles
    /\ RoomForAccount(q)
    /\ Enter(q, [NoEntry EXCEPT !.op = "create", !.role = "driver",
                                !.phone = p, !.form = s, !.pc = "account"])

\* POST /auth/verify-otp, with a role and without one.
LoginAs(q, role, p) ==
    Enter(q, [NoEntry EXCEPT !.op = "login", !.role = role, !.phone = p,
                             !.pc = "lookup", !.known = HasAccount(role, p)])

LoginAnyRole(q, p) ==
    Enter(q, [NoEntry EXCEPT !.op = "login", !.role = "rider", !.phone = p,
                  !.pc = "detect",
                  !.known = \E role \in Roles : HasAccount(role, p)])

-----------------------------------------------------------------------------
(* The statements.                                                         *)

Answer(q, code) ==
    reg' = [reg EXCEPT ![q] = [@ EXCEPT !.pc = "done", !.code = code]]

\* On to the INSERT INTO refresh_tokens of module Sessions.
Issue(q, u) ==
    /\ reg' = [reg EXCEPT ![q] = NoEntry]
    /\ Arrive(q, u, "login", None, "insert")

Failing == failures < MaxFailures /\ failures' = failures + 1

Unfailing == UNCHANGED failures

\* gen_random_uuid(): which of the free ids makes no difference.
FreshId == CHOOSE u \in Users : acct[u] = NoAccount

\* A second account for the phone is told 23505, 409.
InsertAccount(q) ==
    /\ reg[q].pc = "account"
    /\ IF Taken(reg[q])
       THEN Answer(q, 409) /\ Unfailing /\ UNCHANGED <<vars, acct>>
       ELSE LET u == FreshId IN
               /\ acct' = [acct EXCEPT ![u] =
                      [role |-> reg[q].role, phone |-> reg[q].phone,
                       form |-> reg[q].form]]
               /\ \/ /\ IF reg[q].op = "create"
                        THEN Answer(q, 201) /\ UNCHANGED vars
                        ELSE Issue(q, u)
                     /\ Unfailing
                  \/ Failing /\ Answer(q, 500) /\ UNCHANGED vars
    /\ UNCHANGED client

NextRole(role) == CASE role = "rider"  -> "driver"
                    [] role = "driver" -> "admin"
                    [] role = "admin"  -> "none"

\* One SELECT for each table: users, then drivers, then admins.
DetectRole(q) ==
    /\ reg[q].pc = "detect"
    /\ CASE Matches(reg[q].role, reg[q].phone) # {} ->
              reg' = [reg EXCEPT ![q].pc = "lookup"]
         [] Matches(reg[q].role, reg[q].phone) = {}
            /\ NextRole(reg[q].role) \in Roles ->
              reg' = [reg EXCEPT ![q].role = NextRole(@)]
         [] OTHER -> Answer(q, 404)
    /\ UNCHANGED <<vars, acct, client, failures>>

\* No ORDER BY: any of the rows that match.
LookupUser(q) ==
    /\ reg[q].pc = "lookup"
    /\ IF Matches(reg[q].role, reg[q].phone) = {}
       THEN Answer(q, 401) /\ UNCHANGED vars
       ELSE \E u \in Matches(reg[q].role, reg[q].phone) : Issue(q, u)
    /\ UNCHANGED <<acct, client, failures>>

\* A statement fails, or the process dies before it.
Fails(q) ==
    /\ \/ /\ reg[q].pc \in {"account", "detect", "lookup"}
          /\ Answer(q, 500) \/ reg' = [reg EXCEPT ![q] = NoEntry]
          /\ UNCHANGED req
       \/ /\ req[q].pc = "insert"
          /\ Reply(q, 500) \/ req' = [req EXCEPT ![q] = Idle]
          /\ UNCHANGED reg
    /\ Failing
    /\ UNCHANGED <<tok, sent, acct, client>>

\* Which of the free tokens is drawn makes no difference either.
DrawsNext == \A t \in Tokens :
    tok[t] = Unissued /\ tok'[t] # Unissued
        => t = CHOOSE s \in Tokens : tok[s] = Unissued

EntryHandler(q) ==
    \/ InsertAccount(q) \/ DetectRole(q) \/ LookupUser(q)
    \/ Handler(q) /\ DrawsNext /\ UNCHANGED accountVars

-----------------------------------------------------------------------------
(* The client: a rider's phone that registers, is sent to the login when   *)
(* it hears that it is registered, and tries again when it hears nothing   *)
(* or that something failed.                                               *)

ClientSubmits ==
    \E p \in Phones : \/ client = "register" /\ Register(Client, "rider", p)
                      \/ client = "login" /\ LoginAs(Client, "rider", p)

\* The answer has been read.
CloseEntry(q) ==
    /\ reg[q].pc = "done" \/ req[q].pc = "done"
    /\ reg' = [reg EXCEPT ![q] = NoEntry]
    /\ req' = [req EXCEPT ![q] = Idle]
    /\ client' = CASE q = Client /\ reg[q].code = 409 -> "login"
                   [] q = Client /\ req[q].code = 200 -> "in"
                   [] OTHER                           -> client
    /\ UNCHANGED <<tok, sent, acct, failures>>

Others(q) ==
    \/ \E p \in Phones :
          \/ \E role \in Roles : Register(q, role, p) \/ LoginAs(q, role, p)
          \/ AdminCreateDriver(q, p) \/ LoginAnyRole(q, p)
    \/ /\ Free(q) /\ UNCHANGED accountVars
       /\ \/ \E t \in Tokens : Room(q) /\ Refresh(q, t)
          \/ \E u \in Users : acct[u] # NoAccount /\ Logout(q, u)

AccountsNext ==
    \/ ClientSubmits
    \/ \E q \in Requests \ {Client} : Others(q)
    \/ \E q \in Requests : EntryHandler(q) \/ Fails(q) \/ CloseEntry(q)

AccountsSpec == AccountsInit /\ [][AccountsNext]_allVars

\* The server serves, as in Sessions, and the phone keeps trying.
AccountsFairSpec ==
    /\ AccountsSpec
    /\ \A q \in Requests : WF_allVars(EntryHandler(q))
    /\ WF_allVars(ClientSubmits)
    /\ WF_allVars(CloseEntry(Client))

-----------------------------------------------------------------------------
(* What the handlers promise.                                              *)

(* "409 si el teléfono ya existe" (auth.go:61, 141, 221): however they     *)
(* overlap and however the phone is written, registrations make one        *)
(* account of a phone in each table.  Of two accounts one was made by the  *)
(* admin panel or by the migration, which store the text as it is.         *)
TwinsAreUnnormalized == \A u, v \in Users :
    /\ u # v
    /\ acct[u] # NoAccount
    /\ acct[u].role = acct[v].role
    /\ acct[u].phone = acct[v].phone
    => /\ {acct[u].form, acct[v].form} # {"plain"}
       /\ \/ acct[u].role = "driver"
          \/ SeededId \in {u, v} /\ acct[SeededId].form = "plus52"

(* A phone with an account when its owner logs in is never told "phone not *)
(* registered" or "user not found", although the tables are looked at one  *)
(* after the other and the account is looked for once more after that.     *)
RegisteredGetsIn == \A q \in Requests :
    reg[q].op = "login" /\ reg[q].known => reg[q].code \notin {401, 404}

(* Whatever statement of its registration fails, the phone that tries      *)
(* again gets in: the account without a token that the failure may leave   *)
(* answers 409, and the login finds it.                                    *)
RegistrationRecovers == <>(client = "in")
=============================================================================
