--------------------------- MODULE AccountsProofs ---------------------------
(***************************************************************************)
(* Registration and the login by phone, for any number of accounts,        *)
(* phones and requests, whatever overlaps and whatever fails.              *)
(*                                                                         *)
(* The argument: a row, once written, stays as it is (Grown), so what a    *)
(* request has found or was told is there when it looks again (Knows); and *)
(* a registration that will insert a row has an id to insert it under,     *)
(* counted together with all the others that will (IdsLeft).               *)
(***************************************************************************)
EXTENDS Accounts, SessionsProofs, FiniteSetTheorems

\* What a request before its token can be doing.
EntryOk(m) ==
    /\ m.pc = "idle" \/ m.op = "none" => m = NoEntry
    /\ m.pc # "done" => m.code = 0
    /\ m.pc = "account" => m.op \in {"register", "create"}
    /\ m.pc \in {"detect", "lookup"} => m.op = "login"
    /\ m.op # "none" => m.role \in Roles /\ m.phone \in Phones
    /\ m.op = "register" => m.form = "plain"
    /\ m.op = "create" => m.role = "driver" /\ m.form \in Spellings

\* The tables that DetectRole has yet to look at.
Ahead(role) == {r \in Roles : role = "rider" \/ r = role \/ r = "admin"}

\* A login whose phone had an account will come upon one.
Knows(m) == m.op = "login" /\ m.known =>
    /\ m.pc = "lookup" => HasAccount(m.role, m.phone)
    /\ m.pc = "detect" => \E role \in Ahead(m.role) : HasAccount(role, m.phone)
    /\ m.code \notin {401, 404}

\* UNIQUE (phone), and who writes a phone in which way.
RowOk(u) == acct[u] # NoAccount =>
    /\ \A v \in Users : acct[v] = acct[u] => v = u
    /\ \/ acct[u].role = "driver"
       \/ acct[u].form = "plain"
       \/ u = SeededId /\ acct[u].form = "plus52"

FreeIds == {u \in Users : acct[u] = NoAccount}

Inserting == {q \in Requests : reg[q].pc = "account" /\ ~Taken(reg[q])}

IdsLeft == Cardinality(Inserting) <= Cardinality(FreeIds)

\* The inductive invariant: that of the sessions, and
AInv ==
    /\ IInv
    /\ AccountsTypeOK
    /\ \A q \in Requests : /\ EntryOk(reg[q]) /\ Knows(reg[q])
                           /\ reg[q] # NoEntry => req[q] = Idle
    /\ \A u \in Users : RowOk(u)
    /\ IdsLeft

-----------------------------------------------------------------------------
(* The constants and the records.                                          *)

LEMMA RolesFacts ==
    /\ "rider" \in Roles /\ "none" \notin Roles
    /\ \A r \in Roles : r \in {"rider", "driver", "admin"}
    /\ "admin" \in Roles => "driver" \in Roles
    /\ Client \in Requests /\ MaxFailures \in Nat
    /\ IsFiniteSet(Users) /\ IsFiniteSet(Requests)
BY AccountsAssumption

LEMMA EntryFacts ==
    ASSUME AInv, NEW q \in Requests
    PROVE  /\ reg[q] \in EntryState /\ EntryOk(reg[q]) /\ Knows(reg[q])
           /\ reg[q] # NoEntry => req[q] = Idle
BY DEF AInv, AccountsTypeOK

\* A record by its fields.
IsEntry(m, op, role, p, form, known, pc) ==
    /\ m \in EntryState
    /\ m.op = op /\ m.role = role /\ m.phone = p /\ m.form = form
    /\ m.known = known /\ m.pc = pc /\ m.code = 0

LEMMA NoEntryOk ==
    /\ IsEntry(NoEntry, "none", "none", None, "none", FALSE, "idle")
    /\ EntryOk(NoEntry) /\ Knows(NoEntry)
BY DEF IsEntry, NoEntry, EntryState, EntryOk, Knows

\* What Register and AdminCreateDriver write.
LEMMA RegisterEntry ==
    ASSUME NEW op \in {"register", "create"}, NEW role \in Roles, NEW p \in Phones,
           NEW form \in Spellings
    PROVE  IsEntry([NoEntry EXCEPT !.op = op, !.role = role, !.phone = p,
                                   !.form = form, !.pc = "account"],
                   op, role, p, form, FALSE, "account")
<1> DEFINE a == [NoEntry EXCEPT !.op = op]
<1>1. IsEntry(a, op, "none", None, "none", FALSE, "idle")
  BY NoEntryOk DEF IsEntry, EntryState
<1> HIDE DEF a
<1> DEFINE b == [a EXCEPT !.role = role]
<1>2. IsEntry(b, op, role, None, "none", FALSE, "idle")
  BY <1>1 DEF IsEntry, EntryState
<1> HIDE DEF b
<1> DEFINE c == [b EXCEPT !.phone = p]
<1>3. IsEntry(c, op, role, p, "none", FALSE, "idle")
  BY <1>2 DEF IsEntry, EntryState
<1> HIDE DEF c
<1> DEFINE d == [c EXCEPT !.form = form]
<1>4. IsEntry(d, op, role, p, form, FALSE, "idle")
  BY <1>3 DEF IsEntry, EntryState
<1> HIDE DEF d
<1>5. IsEntry([d EXCEPT !.pc = "account"], op, role, p, form, FALSE, "account")
  BY <1>4 DEF IsEntry, EntryState
<1> QED BY <1>5 DEF a, b, c, d

\* What LoginAs and LoginAnyRole write.
LEMMA LoginEntry ==
    ASSUME NEW role \in Roles, NEW p \in Phones, NEW pc \in {"detect", "lookup"},
           NEW known \in BOOLEAN
    PROVE  IsEntry([NoEntry EXCEPT !.op = "login", !.role = role, !.phone = p,
                                   !.pc = pc, !.known = known],
                   "login", role, p, "none", known, pc)
<1> DEFINE a == [NoEntry EXCEPT !.op = "login"]
<1>1. IsEntry(a, "login", "none", None, "none", FALSE, "idle")
  BY NoEntryOk DEF IsEntry, EntryState
<1> HIDE DEF a
<1> DEFINE b == [a EXCEPT !.role = role]
<1>2. IsEntry(b, "login", role, None, "none", FALSE, "idle")
  BY <1>1 DEF IsEntry, EntryState
<1> HIDE DEF b
<1> DEFINE c == [b EXCEPT !.phone = p]
<1>3. IsEntry(c, "login", role, p, "none", FALSE, "idle")
  BY <1>2 DEF IsEntry, EntryState
<1> HIDE DEF c
<1> DEFINE d == [c EXCEPT !.pc = pc]
<1>4. IsEntry(d, "login", role, p, "none", FALSE, pc)
  BY <1>3 DEF IsEntry, EntryState
<1> HIDE DEF d
<1>5. IsEntry([d EXCEPT !.known = known], "login", role, p, "none", known, pc)
  BY <1>4 DEF IsEntry, EntryState
<1> QED BY <1>5 DEF a, b, c, d

\* What Answer writes.
LEMMA AnswerEntry ==
    ASSUME NEW m \in EntryState, NEW code \in {201, 401, 404, 409, 500}
    PROVE  /\ Answered(m, code) \in EntryState
           /\ Answered(m, code).pc = "done" /\ Answered(m, code).code = code
           /\ Answered(m, code).op = m.op /\ Answered(m, code).role = m.role
           /\ Answered(m, code).phone = m.phone /\ Answered(m, code).form = m.form
           /\ Answered(m, code).known = m.known
<1> DEFINE a == [m EXCEPT !.pc = "done"]
<1>1. /\ a \in EntryState /\ a.pc = "done" /\ a.op = m.op /\ a.role = m.role
      /\ a.phone = m.phone /\ a.form = m.form /\ a.known = m.known
  BY DEF EntryState
<1>2. Answered(m, code) = [a EXCEPT !.code = code]
  BY DEF Answered
<1> HIDE DEF a
<1> QED BY <1>1, <1>2 DEF EntryState

-----------------------------------------------------------------------------
(* Rows stay.                                                              *)

Grown == \A u \in Users : acct[u] # NoAccount => acct'[u] = acct[u]

LEMMA HasStays ==
    ASSUME Grown, NEW role \in Roles, NEW p, HasAccount(role, p)
    PROVE  HasAccount(role, p)'
<1>1. PICK u \in Users : /\ acct[u].role = role /\ acct[u].phone = p
                         /\ acct[u].form # "spaced"
  BY DEF HasAccount
<1>2. acct[u] # NoAccount
  BY <1>1, RolesFacts DEF NoAccount
<1>3. acct'[u] = acct[u]
  BY <1>2 DEF Grown
<1> QED BY <1>1, <1>3 DEF HasAccount

LEMMA TakenStays ==
    ASSUME Grown, NEW e, e.role \in Roles, Taken(e)
    PROVE  Taken(e)'
<1>1. PICK u \in Users : acct[u] = [role |-> e.role, phone |-> e.phone, form |-> e.form]
  BY DEF Taken
<1>2. acct[u].role = e.role
  BY <1>1
<1>3. acct[u] # NoAccount
  BY <1>2, RolesFacts DEF NoAccount
<1> QED BY <1>1, <1>3 DEF Taken, Grown

LEMMA AheadRoles == \A role \in Roles : Ahead(role) \subseteq Roles
BY RolesFacts DEF Ahead

LEMMA KnowsStays ==
    ASSUME Grown, NEW m, EntryOk(m), Knows(m)
    PROVE  Knows(m)'
<1> SUFFICES ASSUME m.op = "login", m.known
             PROVE  /\ m.pc = "lookup" => HasAccount(m.role, m.phone)'
                    /\ m.pc = "detect" =>
                          \E role \in Ahead(m.role) : HasAccount(role, m.phone)'
                    /\ m.code \notin {401, 404}
  BY DEF Knows, Ahead
<1>1. m.role \in Roles
  BY DEF EntryOk
<1> QED BY <1>1, HasStays, AheadRoles DEF Knows

-----------------------------------------------------------------------------
(* A step of one request keeps the invariant if it leaves itself, the rows *)
(* and the ids in order.                                                   *)

LEMMA EntryStep ==
    ASSUME AInv, IInv', NEW q \in Requests, NEW m \in EntryState,
           reg' = [reg EXCEPT ![q] = m], EntryOk(m), Knows(m)',
           m # NoEntry => req'[q] = Idle,
           \A p \in Requests \ {q} : req'[p] = req[p],
           Grown, acct' \in [Users -> AccountRow \cup {NoAccount}],
           \A u \in Users : RowOk(u)', IdsLeft',
           client' \in {"register", "login", "in"}, failures' \in 0..MaxFailures
    PROVE  AInv'
<1>1. reg \in [Requests -> EntryState]
  BY DEF AInv, AccountsTypeOK
<1>2. AccountsTypeOK'
  BY <1>1 DEF AccountsTypeOK, IInv
<1>3. ASSUME NEW p \in Requests
      PROVE  /\ EntryOk(reg'[p]) /\ Knows(reg[p])'
             /\ reg'[p] # NoEntry => req'[p] = Idle
  <2>1. CASE p = q
    <3>1. reg'[p] = m
      BY <1>1, <2>1
    <3> QED BY <2>1, <3>1 DEF Knows
  <2>2. CASE p # q
    <3>1. PICK n : n = reg[p]
      OBVIOUS
    <3>2. reg'[p] = n /\ req'[p] = req[p]
      BY <1>1, <2>2, <3>1
    <3>3. EntryOk(n) /\ Knows(n) /\ (n # NoEntry => req[p] = Idle)
      BY <3>1, EntryFacts
    <3>4. Knows(n)'
      BY <3>3, KnowsStays
    <3> QED BY <3>2, <3>3, <3>4 DEF Knows
  <2> QED BY <2>1, <2>2
<1>4. \A p \in Requests : EntryOk(reg[p])'
  BY <1>3 DEF EntryOk
<1> QED BY <1>2, <1>3, <1>4 DEF AInv

LEMMA SetsAreFinite ==
    /\ IsFiniteSet(FreeIds) /\ IsFiniteSet(Inserting)
    /\ Cardinality(FreeIds) \in Nat /\ Cardinality(Inserting) \in Nat
<1>1. FreeIds \in SUBSET Users /\ Inserting \in SUBSET Requests
  BY DEF FreeIds, Inserting
<1> QED BY <1>1, RolesFacts, FS_Subset, FS_CardinalityType

\* Whoever will insert a row was going to: only q is new among them.
LEMMA InsertingShrinks ==
    ASSUME AInv, Grown, NEW q \in Requests, NEW m,
           reg' = [reg EXCEPT ![q] = m]
    PROVE  /\ Inserting' \subseteq Inserting \cup {q}
           /\ m.pc # "account" \/ Taken(m)' => Inserting' \subseteq Inserting \ {q}
<1>1. reg'[q] = m /\ \A p \in Requests \ {q} : reg'[p] = reg[p]
  BY DEF AInv, AccountsTypeOK
<1>2. ASSUME NEW p \in Requests \ {q}, p \in Inserting'
      PROVE  p \in Inserting
  <2>1. PICK e : e = reg[p]
    OBVIOUS
  <2>2. reg'[p] = e
    BY <1>1, <2>1
  <2>3. e.pc = "account" /\ ~Taken(e)'
    BY <1>2, <2>2 DEF Inserting, Taken
  <2>4. e.role \in Roles
    BY <2>1, <2>3, EntryFacts DEF EntryOk, NoEntry
  <2>5. ~Taken(e)
    BY <2>3, <2>4, TakenStays
  <2> QED BY <2>1, <2>3, <2>5 DEF Inserting
<1>3. m.pc # "account" \/ Taken(m)' => q \notin Inserting'
  BY <1>1 DEF Inserting, Taken
<1>4. Inserting' \subseteq Requests
  BY DEF Inserting
<1> QED BY <1>2, <1>3, <1>4

\* A step that writes no row, and starts no registration.
LEMMA QuietEntry ==
    ASSUME AInv, IInv', NEW q \in Requests, NEW m \in EntryState,
           reg' = [reg EXCEPT ![q] = m], EntryOk(m), Knows(m), m.pc # "account",
           m # NoEntry => req'[q] = Idle,
           \A p \in Requests \ {q} : req'[p] = req[p],
           acct' = acct,
           client' \in {"register", "login", "in"}, failures' \in 0..MaxFailures
    PROVE  AInv'
<1>1. Grown
  BY DEF Grown
<1>2. acct' \in [Users -> AccountRow \cup {NoAccount}] /\ \A u \in Users : RowOk(u)'
  BY DEF AInv, AccountsTypeOK, RowOk
<1>3. IdsLeft'
  <2>1. FreeIds' = FreeIds
    BY DEF FreeIds
  <2>2. Inserting' \in SUBSET Inserting
    BY <1>1, InsertingShrinks
  <2>3. Cardinality(Inserting') <= Cardinality(Inserting) /\ IsFiniteSet(Inserting')
    BY <2>2, SetsAreFinite, FS_Subset
  <2>4. Cardinality(Inserting') \in Nat
    BY <2>3, FS_CardinalityType
  <2> QED BY <2>1, <2>3, <2>4, SetsAreFinite DEF AInv, IdsLeft
<1>4. Knows(m)'
  BY <1>1, KnowsStays
<1> QED BY <1>1, <1>2, <1>3, <1>4, EntryStep

-----------------------------------------------------------------------------
(* Arrival.                                                                *)

LEMMA EnterFacts ==
    ASSUME AInv, NEW q \in Requests, NEW m, Enter(q, m)
    PROVE  /\ IInv' /\ req'[q] = Idle /\ req' = req /\ reg' = [reg EXCEPT ![q] = m]
           /\ acct' = acct /\ Grown
           /\ client' \in {"register", "login", "in"} /\ failures' \in 0..MaxFailures
<1>1. /\ UNCHANGED <<vars, acct, client, failures>> /\ req[q] = Idle
      /\ reg' = [reg EXCEPT ![q] = m]
  BY DEF Enter, Free
<1>2. IInv'
  BY <1>1, StutterKeeps DEF AInv
<1>3. req' = req
  BY <1>1 DEF vars
<1> QED BY <1>1, <1>2, <1>3 DEF AInv, AccountsTypeOK, Grown

\* A registration has an id to come, or will be told that it is too late.
LEMMA RegisterKeeps ==
    ASSUME AInv, NEW q \in Requests, NEW op \in {"register", "create"},
           NEW role \in Roles, NEW p \in Phones, NEW form \in Spellings,
           op = "register" => form = "plain",
           op = "create" => role = "driver",
           \/ RoomForAccount(q)
           \/ Taken([role |-> role, phone |-> p, form |-> form]),
           Enter(q, [NoEntry EXCEPT !.op = op, !.role = role, !.phone = p,
                                    !.form = form, !.pc = "account"])
    PROVE  AInv'
<1> DEFINE m == [NoEntry EXCEPT !.op = op, !.role = role, !.phone = p,
                                !.form = form, !.pc = "account"]
<1>1. IsEntry(m, op, role, p, form, FALSE, "account")
  BY RegisterEntry
<1> HIDE DEF m
<1>2. /\ IInv' /\ req'[q] = Idle /\ req' = req /\ reg' = [reg EXCEPT ![q] = m]
      /\ acct' = acct /\ Grown
      /\ client' \in {"register", "login", "in"} /\ failures' \in 0..MaxFailures
  BY EnterFacts DEF m
<1>3. m \in EntryState /\ EntryOk(m) /\ m.pc = "account" /\ m.op # "login"
  BY <1>1 DEF IsEntry, EntryOk
<1>4. Knows(m)'
  BY <1>3 DEF Knows
<1>5. acct' \in [Users -> AccountRow \cup {NoAccount}] /\ \A u \in Users : RowOk(u)'
  BY <1>2 DEF AInv, AccountsTypeOK, RowOk
<1>6. IdsLeft'
  <2>1. FreeIds' = FreeIds /\ Cardinality(FreeIds) \in Nat
        /\ Cardinality(Inserting) <= Cardinality(FreeIds)
        /\ IsFiniteSet(Inserting) /\ Cardinality(Inserting) \in Nat
    BY <1>2, SetsAreFinite DEF FreeIds, AInv, IdsLeft
  <2>2. CASE RoomForAccount(q)
    <3> DEFINE others == {r \in Requests \ {q} : reg[r].pc = "account" /\ ~Taken(reg[r])}
    <3>1. others \subseteq Inserting /\ Inserting \subseteq others \cup {q}
      BY DEF Inserting
    <3>2. IsFiniteSet(others) /\ Cardinality(others) \in Nat
      BY <2>1, <3>1, FS_Subset, FS_CardinalityType
    <3>3. Cardinality(FreeIds) > Cardinality(others)
      <4>1. Cardinality(FreeIds) > Reserved(q) + Cardinality(others)
        BY <2>2 DEF RoomForAccount, FreeIds
      <4>2. Reserved(q) \in {0, 1}
        BY DEF Reserved
      <4> HIDE DEF others
      <4> QED BY <2>1, <3>2, <4>1, <4>2
    <3>4. Inserting' \in SUBSET (others \cup {q})
      BY <1>2, <3>1, InsertingShrinks
    <3> HIDE DEF others
    <3>5. /\ IsFiniteSet(others \cup {q})
          /\ Cardinality(others \cup {q}) <= Cardinality(others) + 1
      <4>1. /\ IsFiniteSet(others \cup {q})
            /\ Cardinality(others \cup {q})
                 = IF q \in others THEN Cardinality(others) ELSE Cardinality(others) + 1
        BY <3>2, FS_AddElement
      <4> QED BY <4>1, <3>2
    <3>6. /\ IsFiniteSet(Inserting')
          /\ Cardinality(Inserting') <= Cardinality(others \cup {q})
      BY <3>4, <3>5, FS_Subset
    <3>7. Cardinality(Inserting') \in Nat /\ Cardinality(others \cup {q}) \in Nat
      BY <3>5, <3>6, FS_CardinalityType
    <3> QED BY <2>1, <3>2, <3>3, <3>5, <3>6, <3>7 DEF IdsLeft
  <2>3. CASE Taken([role |-> role, phone |-> p, form |-> form])
    <3>1. Taken(m)'
      BY <1>1, <1>2, <2>3 DEF Taken, IsEntry
    <3>2. Inserting' \in SUBSET Inserting
      BY <1>2, <3>1, InsertingShrinks
    <3>3. /\ IsFiniteSet(Inserting') /\ Cardinality(Inserting') <= Cardinality(Inserting)
      BY <2>1, <3>2, FS_Subset
    <3>4. Cardinality(Inserting') \in Nat
      BY <3>3, FS_CardinalityType
    <3> QED BY <2>1, <3>3, <3>4 DEF IdsLeft
  <2> QED BY <2>2, <2>3
<1> QED BY <1>2, <1>3, <1>4, <1>5, <1>6, EntryStep

LEMMA LoginKeeps ==
    ASSUME AInv, NEW q \in Requests, NEW p \in Phones, NEW role \in Roles,
           LoginAs(q, role, p) \/ LoginAnyRole(q, p)
    PROVE  AInv'
<1>1. ASSUME NEW r \in Roles, NEW pc \in {"detect", "lookup"}, NEW known \in BOOLEAN,
             Enter(q, [NoEntry EXCEPT !.op = "login", !.role = r, !.phone = p,
                                      !.pc = pc, !.known = known]),
             known => /\ pc = "lookup" => HasAccount(r, p)
                      /\ pc = "detect" => \E a \in Ahead(r) : HasAccount(a, p)
      PROVE  AInv'
  <2> DEFINE m == [NoEntry EXCEPT !.op = "login", !.role = r, !.phone = p,
                                  !.pc = pc, !.known = known]
  <2>1. IsEntry(m, "login", r, p, "none", known, pc)
    BY LoginEntry
  <2>2. Enter(q, m)
    BY <1>1
  <2> HIDE DEF m
  <2>3. m \in EntryState /\ EntryOk(m) /\ m.pc # "account"
    BY <2>1 DEF IsEntry, EntryOk
  <2>4. Knows(m)
    BY <1>1, <2>1 DEF IsEntry, Knows
  <2> QED BY <2>2, <2>3, <2>4, EnterFacts, QuietEntry
<1>2. CASE LoginAs(q, role, p)
  <2>1. PICK known \in BOOLEAN : known = HasAccount(role, p)
    BY DEF HasAccount
  <2>2. Enter(q, [NoEntry EXCEPT !.op = "login", !.role = role, !.phone = p,
                                 !.pc = "lookup", !.known = known])
    BY <1>2, <2>1 DEF LoginAs
  <2> QED BY <2>1, <2>2, <1>1
<1>3. CASE LoginAnyRole(q, p)
  <2>1. PICK known \in BOOLEAN : known = \E r \in Roles : HasAccount(r, p)
    OBVIOUS
  <2>2. Enter(q, [NoEntry EXCEPT !.op = "login", !.role = "rider", !.phone = p,
                                 !.pc = "detect", !.known = known])
    BY <1>3, <2>1 DEF LoginAnyRole
  <2>3. "rider" \in Roles /\ Ahead("rider") = Roles
    BY RolesFacts DEF Ahead
  <2>4. known => \E a \in Ahead("rider") : HasAccount(a, p)
    BY <2>1, <2>3
  <2> QED BY <2>2, <2>3, <2>4, <1>1
<1> QED BY <1>2, <1>3

-----------------------------------------------------------------------------
(* The statements.                                                         *)

\* An answer that changes nothing else.
LEMMA AnswerKeeps ==
    ASSUME AInv, NEW q \in Requests, NEW code \in {201, 401, 404, 409, 500},
           Answer(q, code), UNCHANGED vars, acct' = acct,
           reg[q].pc \notin {"idle", "done"},
           code \in {401, 404} => ~(reg[q].op = "login" /\ reg[q].known),
           client' \in {"register", "login", "in"}, failures' \in 0..MaxFailures
    PROVE  AInv'
<1> DEFINE n == Answered(reg[q], code)
<1>1. reg' = [reg EXCEPT ![q] = n]
  BY DEF Answer, Answered
<1>2. reg[q] \in EntryState /\ EntryOk(reg[q]) /\ (reg[q] # NoEntry => req[q] = Idle)
  BY EntryFacts
<1>3. /\ n \in EntryState /\ n.pc = "done" /\ n.code = code
      /\ n.op = reg[q].op /\ n.role = reg[q].role /\ n.phone = reg[q].phone
      /\ n.form = reg[q].form /\ n.known = reg[q].known
  BY <1>2, AnswerEntry
<1>4. reg[q].op # "none" /\ req[q] = Idle
  BY <1>2, NoEntryOk DEF EntryOk, IsEntry
<1> HIDE DEF n
<1>5. EntryOk(n) /\ n.pc # "account"
  BY <1>2, <1>3, <1>4 DEF EntryOk
<1>6. Knows(n)
  BY <1>3 DEF Knows
<1>7. IInv' /\ req' = req
  BY StutterKeeps DEF AInv, vars
<1> QED BY <1>1, <1>3, <1>4, <1>5, <1>6, <1>7, QuietEntry

\* On to the sessions.
LEMMA IssueFacts ==
    ASSUME AInv, NEW q \in Requests, NEW u \in Users, Issue(q, u)
    PROVE  /\ IInv' /\ reg' = [reg EXCEPT ![q] = NoEntry]
           /\ \A p \in Requests \ {q} : req'[p] = req[p]
<1>1. reg' = [reg EXCEPT ![q] = NoEntry] /\ Arrive(q, u, "login", None, "insert")
  BY DEF Issue
<1>2. IInv'
  BY <1>1, ArriveKeeps DEF AInv
<1>3. \A p \in Requests \ {q} : req'[p] = req[p]
  BY <1>1 DEF Arrive, AInv, IInv, TypeOK
<1> QED BY <1>1, <1>2, <1>3

LEMMA HasMatches ==
    ASSUME AInv, NEW role \in Roles, NEW p
    PROVE  HasAccount(role, p) <=> Matches(role, p) # {}
<1>1. ASSUME NEW u \in Users, acct[u].role = role
      PROVE  acct[u].form # "spaced" <=> Finds(acct[u].form)
  <2>1. acct[u] \in AccountRow
    BY <1>1, RolesFacts DEF AInv, AccountsTypeOK, NoAccount
  <2> QED BY <2>1 DEF AccountRow, Spellings, Finds
<1> QED BY <1>1 DEF HasAccount, Matches

\* Rider, driver, admin: the first tables, of those in use.
LEMMA NextRoleFacts ==
    ASSUME NEW role \in Roles
    PROVE  /\ NextRole(role) \in Roles =>
                 Ahead(role) \subseteq Ahead(NextRole(role)) \cup {role}
           /\ NextRole(role) \notin Roles => Ahead(role) \subseteq {role}
<1>1. /\ NextRole("rider") = "driver" /\ NextRole("driver") = "admin"
      /\ NextRole("admin") = "none"
  BY DEF NextRole
<1> QED BY <1>1, RolesFacts DEF Ahead

LEMMA DetectKeeps ==
    ASSUME AInv, NEW q \in Requests, DetectRole(q)
    PROVE  AInv'
<1> DEFINE m == reg[q]
<1>1. /\ m \in EntryState /\ EntryOk(m) /\ Knows(m) /\ m.pc = "detect"
      /\ m.op = "login" /\ m.role \in Roles /\ m.phone \in Phones /\ m.code = 0
      /\ m # NoEntry /\ req[q] = Idle
  BY EntryFacts, NoEntryOk DEF DetectRole, EntryOk, IsEntry
<1>2. /\ UNCHANGED vars /\ acct' = acct
      /\ client' \in {"register", "login", "in"} /\ failures' \in 0..MaxFailures
  BY DEF DetectRole, AInv, AccountsTypeOK
<1>3. IInv' /\ req' = req
  BY <1>2, StutterKeeps DEF AInv, vars
<1>4. HasAccount(m.role, m.phone) <=> Matches(m.role, m.phone) # {}
  BY <1>1, HasMatches
<1>5. CASE Matches(m.role, m.phone) # {}
  <2> DEFINE n == [m EXCEPT !.pc = "lookup"]
  <2>1. reg' = [reg EXCEPT ![q] = n]
    BY <1>5 DEF DetectRole
  <2>2. /\ n \in EntryState /\ n.pc = "lookup" /\ n.op = m.op /\ n.role = m.role
        /\ n.phone = m.phone /\ n.form = m.form /\ n.known = m.known /\ n.code = 0
    BY <1>1 DEF EntryState
  <2> HIDE DEF n
  <2>3. EntryOk(n)
    BY <1>1, <2>2 DEF EntryOk
  <2>4. Knows(n)
    BY <1>4, <1>5, <2>2 DEF Knows
  <2> QED BY <1>1, <1>2, <1>3, <2>1, <2>2, <2>3, <2>4, QuietEntry
<1>6. CASE Matches(m.role, m.phone) = {} /\ NextRole(m.role) \in Roles
  <2> DEFINE r == NextRole(m.role)
             n == [m EXCEPT !.role = r]
  <2>1. reg' = [reg EXCEPT ![q] = n]
    BY <1>6 DEF DetectRole
  <2>2. r \in Roles /\ Ahead(m.role) \subseteq Ahead(r) \cup {m.role}
    BY <1>1, <1>6, NextRoleFacts
  <2> HIDE DEF r
  <2>3. /\ n \in EntryState /\ n.pc = "detect" /\ n.op = m.op /\ n.role = r
        /\ n.phone = m.phone /\ n.form = m.form /\ n.known = m.known /\ n.code = 0
    BY <1>1, <2>2 DEF EntryState
  <2> HIDE DEF n
  <2>4. EntryOk(n)
    BY <1>1, <2>2, <2>3 DEF EntryOk
  <2>5. Knows(n)
    <3>1. m.known => \E a \in Ahead(m.role) : HasAccount(a, m.phone)
      BY <1>1 DEF Knows
    <3>2. m.known => \E a \in Ahead(r) : HasAccount(a, m.phone)
      BY <1>4, <1>6, <2>2, <3>1
    <3> QED BY <2>3, <3>2 DEF Knows
  <2> QED BY <1>1, <1>2, <1>3, <2>1, <2>3, <2>4, <2>5, QuietEntry
<1>7. CASE Matches(m.role, m.phone) = {} /\ NextRole(m.role) \notin Roles
  <2>1. Answer(q, 404)
    BY <1>7 DEF DetectRole
  <2>2. Ahead(m.role) \subseteq {m.role}
    BY <1>1, <1>7, NextRoleFacts
  <2>3. ~m.known
    BY <1>1, <1>4, <1>7, <2>2 DEF Knows
  <2> QED BY <1>1, <1>2, <2>1, <2>3, AnswerKeeps
<1> QED BY <1>5, <1>6, <1>7

LEMMA LookupKeeps ==
    ASSUME AInv, NEW q \in Requests, LookupUser(q)
    PROVE  AInv'
<1> DEFINE m == reg[q]
<1>1. /\ m \in EntryState /\ EntryOk(m) /\ Knows(m) /\ m.pc = "lookup"
      /\ m.op = "login" /\ m.role \in Roles /\ m.phone \in Phones
  BY EntryFacts DEF LookupUser, EntryOk, NoEntry
<1>2. /\ acct' = acct
      /\ client' \in {"register", "login", "in"} /\ failures' \in 0..MaxFailures
  BY DEF LookupUser, AInv, AccountsTypeOK
<1>3. CASE Matches(m.role, m.phone) = {}
  <2>1. Answer(q, 401) /\ UNCHANGED vars
    BY <1>3 DEF LookupUser
  <2>2. ~m.known
    BY <1>1, <1>3, HasMatches DEF Knows
  <2> QED BY <1>1, <1>2, <2>1, <2>2, AnswerKeeps
<1>4. CASE Matches(m.role, m.phone) # {}
  <2>1. PICK u \in Matches(m.role, m.phone) : Issue(q, u)
    BY <1>4 DEF LookupUser
  <2>2. u \in Users
    BY DEF Matches
  <2>3. NoEntry \in EntryState /\ EntryOk(NoEntry) /\ Knows(NoEntry)
        /\ NoEntry.pc # "account"
    BY NoEntryOk DEF IsEntry
  <2> QED BY <1>2, <2>1, <2>2, <2>3, IssueFacts, QuietEntry
<1> QED BY <1>3, <1>4


\* The row of a registration that is not too late.
LEMMA RowKeeps ==
    ASSUME AInv, NEW q \in Requests, NEW u, NEW row, NEW m,
           reg[q].pc = "account", ~Taken(reg[q]), u = FreshId,
           row = [role |-> reg[q].role, phone |-> reg[q].phone, form |-> reg[q].form],
           acct' = [acct EXCEPT ![u] = row],
           reg' = [reg EXCEPT ![q] = m], m.pc # "account"
    PROVE  /\ u \in Users /\ Grown /\ IdsLeft'
           /\ acct' \in [Users -> AccountRow \cup {NoAccount}]
           /\ \A v \in Users : RowOk(v)'
<1>1. /\ EntryOk(reg[q]) /\ reg[q] \in EntryState
      /\ acct \in [Users -> AccountRow \cup {NoAccount}]
      /\ \A v \in Users : RowOk(v)
  BY EntryFacts DEF AInv, AccountsTypeOK
<1>2. q \in Inserting
  BY DEF Inserting
<1>3. FreeIds # {}
  <2>1. /\ Cardinality(Inserting \ {q}) = Cardinality(Inserting) - 1
        /\ Cardinality(Inserting \ {q}) \in Nat
    BY <1>2, SetsAreFinite, FS_RemoveElement, FS_CardinalityType
  <2>2. Cardinality(FreeIds) >= 1
    BY <2>1, SetsAreFinite DEF AInv, IdsLeft
  <2> QED BY <2>2, FS_EmptySet
<1>4. u \in Users /\ acct[u] = NoAccount
  BY <1>3 DEF FreshId, FreeIds
<1>5. row \in AccountRow /\ row.role \in Roles /\ (row.role = "driver" \/ row.form = "plain")
  <2>1. /\ reg[q].op \in {"register", "create"} /\ reg[q].role \in Roles
        /\ reg[q].phone \in Phones /\ reg[q].form \in Spellings
        /\ reg[q].role = "driver" \/ reg[q].form = "plain"
    BY <1>1 DEF EntryOk, Spellings
  <2> QED BY <2>1 DEF AccountRow
<1>6. row # NoAccount
  BY <1>5, RolesFacts DEF NoAccount
<1>7. /\ acct'[u] = row
      /\ \A v \in Users \ {u} : acct'[v] = acct[v] /\ acct[v] # row
      /\ acct' \in [Users -> AccountRow \cup {NoAccount}]
  BY <1>1, <1>4, <1>5 DEF Taken
<1>8. Grown
  BY <1>4, <1>7 DEF Grown
<1>9. \A v \in Users : RowOk(v)'
  <2>1. RowOk(u)'
    BY <1>5, <1>7 DEF RowOk
  <2>2. ASSUME NEW v \in Users \ {u}
        PROVE  RowOk(v)'
    BY <1>1, <1>7 DEF RowOk
  <2> QED BY <2>1, <2>2
<1>10. IdsLeft'
  <2>1. FreeIds' = FreeIds \ {u} /\ u \in FreeIds
    BY <1>4, <1>6, <1>7 DEF FreeIds
  <2>2. Inserting' \in SUBSET (Inserting \ {q})
    BY <1>8, InsertingShrinks
  <2>3. /\ Cardinality(FreeIds') = Cardinality(FreeIds) - 1
        /\ IsFiniteSet(Inserting \ {q})
        /\ Cardinality(Inserting \ {q}) = Cardinality(Inserting) - 1
    BY <1>2, <2>1, SetsAreFinite, FS_RemoveElement
  <2>4. IsFiniteSet(Inserting') /\ Cardinality(Inserting') <= Cardinality(Inserting \ {q})
    BY <2>2, <2>3, FS_Subset
  <2>5. Cardinality(Inserting') \in Nat
    BY <2>4, FS_CardinalityType
  <2> QED BY <2>3, <2>4, <2>5, SetsAreFinite DEF AInv, IdsLeft
<1> QED BY <1>4, <1>7, <1>8, <1>9, <1>10

LEMMA InsertAccountKeeps ==
    ASSUME AInv, NEW q \in Requests, InsertAccount(q)
    PROVE  AInv'
<1> DEFINE e == reg[q]
           u == FreshId
           row == [role |-> e.role, phone |-> e.phone, form |-> e.form]
<1>1. /\ e \in EntryState /\ EntryOk(e) /\ e.pc = "account"
      /\ e.op \in {"register", "create"} /\ e # NoEntry /\ req[q] = Idle
  BY EntryFacts, NoEntryOk DEF InsertAccount, EntryOk, IsEntry
<1>2. client' \in {"register", "login", "in"} /\ failures' \in 0..MaxFailures
  <2>1. client' = client
    BY DEF InsertAccount
  <2>2. failures' = failures \/ (failures < MaxFailures /\ failures' = failures + 1)
    BY DEF InsertAccount, Failing, Unfailing
  <2> QED BY <2>1, <2>2, RolesFacts DEF AInv, AccountsTypeOK
<1>3. CASE Taken(e)
  <2>1. Answer(q, 409) /\ UNCHANGED <<vars, acct>>
    BY <1>3 DEF InsertAccount
  <2> QED BY <1>1, <1>2, <2>1, AnswerKeeps
<1>4. CASE ~Taken(e)
  <2>1. acct' = [acct EXCEPT ![u] = row]
    BY <1>4 DEF InsertAccount
  <2>2. ASSUME NEW m \in EntryState, reg' = [reg EXCEPT ![q] = m],
               EntryOk(m), m.op # "login", m.pc # "account", IInv',
               m # NoEntry => req'[q] = Idle,
               \A p \in Requests \ {q} : req'[p] = req[p]
        PROVE  AInv'
    <3>1. /\ Grown /\ IdsLeft'
          /\ acct' \in [Users -> AccountRow \cup {NoAccount}]
          /\ \A v \in Users : RowOk(v)'
      BY <1>1, <1>4, <2>1, <2>2, RowKeeps
    <3>2. Knows(m)'
      BY <2>2 DEF Knows
    <3> QED BY <1>2, <2>2, <3>1, <3>2, EntryStep
  <2>3. ASSUME NEW code \in {201, 500}, Answer(q, code), UNCHANGED vars
        PROVE  AInv'
    <3> DEFINE n == Answered(e, code)
    <3>1. reg' = [reg EXCEPT ![q] = n]
      BY <2>3 DEF Answer, Answered
    <3>2. /\ n \in EntryState /\ n.pc = "done" /\ n.code = code
          /\ n.op = e.op /\ n.role = e.role /\ n.phone = e.phone
          /\ n.form = e.form /\ n.known = e.known
      BY <1>1, AnswerEntry
    <3> HIDE DEF n
    <3>3. EntryOk(n)
      BY <1>1, <3>2 DEF EntryOk
    <3>4. IInv' /\ req' = req
      BY <2>3, StutterKeeps DEF AInv, vars
    <3> QED BY <1>1, <2>2, <3>1, <3>2, <3>3, <3>4
  <2>4. CASE Issue(q, u)
    <3>1. reg' = [reg EXCEPT ![q] = NoEntry]
      BY <2>4 DEF Issue
    <3>2. NoEntry \in EntryState /\ EntryOk(NoEntry) /\ NoEntry.op # "login"
          /\ NoEntry.pc # "account"
      BY NoEntryOk DEF IsEntry
    <3>3. u \in Users
      BY <1>1, <1>4, <2>1, <3>1, <3>2, RowKeeps
    <3>4. IInv' /\ \A p \in Requests \ {q} : req'[p] = req[p]
      BY <2>4, <3>3, IssueFacts
    <3> QED BY <2>2, <3>1, <3>2, <3>4
  <2> QED BY <1>4, <2>3, <2>4 DEF InsertAccount
<1> QED BY <1>3, <1>4

-----------------------------------------------------------------------------
(* The steps that are those of the sessions, and the failures.             *)

LEMMA SessionStep ==
    ASSUME AInv, IInv', NEW q \in Requests,
           reg' = [reg EXCEPT ![q] = NoEntry] \/ (reg' = reg /\ reg[q] = NoEntry),
           \A p \in Requests \ {q} : req'[p] = req[p], acct' = acct,
           client' \in {"register", "login", "in"}, failures' \in 0..MaxFailures
    PROVE  AInv'
<1>1. reg' = [reg EXCEPT ![q] = NoEntry]
  BY DEF AInv, AccountsTypeOK
<1>2. NoEntry \in EntryState /\ EntryOk(NoEntry) /\ Knows(NoEntry)
      /\ NoEntry.pc # "account"
  BY NoEntryOk DEF IsEntry
<1> QED BY <1>1, <1>2, QuietEntry

LEMMA BusyIsNotNew ==
    ASSUME AInv, NEW q \in Requests, req[q].pc # "idle"
    PROVE  reg[q] = NoEntry
BY EntryFacts DEF Idle

LEMMA Typed ==
    ASSUME AInv
    PROVE  /\ req \in [Requests -> RequestState]
           /\ client \in {"register", "login", "in"} /\ failures \in 0..MaxFailures
BY DEF AInv, IInv, TypeOK, AccountsTypeOK

LEMMA HandlerIsLocal ==
    ASSUME AInv, NEW q \in Requests, Handler(q)
    PROVE  /\ req[q].pc # "idle"
           /\ \A p \in Requests \ {q} : req'[p] = req[p]
<1>0. req \in [Requests -> RequestState]
  BY Typed
<1>1. req[q].pc # "idle"
  BY DEF Handler, SelectToken, RevokeToken, Breach, InsertToken, DeleteTokens
<1>2. ASSUME NEW n, req' = [req EXCEPT ![q] = n]
      PROVE  \A p \in Requests \ {q} : req'[p] = req[p]
  BY <1>0, <1>2
<1>3. ASSUME NEW code, Reply(q, code)
      PROVE  \A p \in Requests \ {q} : req'[p] = req[p]
  BY <1>2, <1>3 DEF Reply
<1>4. ASSUME NEW pc, Goto(q, pc)
      PROVE  \A p \in Requests \ {q} : req'[p] = req[p]
  BY <1>2, <1>4 DEF Goto
<1>5. CASE SelectToken(q)
  <2>1. tok[req[q].token].state \in {"live", "revoked", "deleted"}
    <3>1. /\ RequestOk(req[q], tok) /\ req[q].pc = "select"
          /\ tok \in [Tokens -> Row]
      BY <1>5, RequestFacts DEF AInv, IInv, TypeOK, SelectToken
    <3>2. req[q].token \in Tokens /\ tok[req[q].token].state # "unissued"
      BY <3>1 DEF RequestOk
    <3> QED BY <3>1, <3>2, RowFacts
  <2>2. Goto(q, "revoke") \/ Goto(q, "breach") \/ Reply(q, 401)
    BY <1>5, <2>1 DEF SelectToken
  <2> QED BY <2>2, <1>1, <1>3, <1>4
<1>6. CASE RevokeToken(q) \/ InsertToken(q) \/ Breach(q) \/ DeleteTokens(q)
  BY <1>1, <1>6, <1>3, <1>4 DEF RevokeToken, InsertToken, Breach, DeleteTokens
<1> QED BY <1>1, <1>5, <1>6 DEF Handler

LEMMA EntryHandlerKeeps ==
    ASSUME AInv, NEW q \in Requests, EntryHandler(q)
    PROVE  AInv'
<1>1. CASE Handler(q) /\ UNCHANGED accountVars
  <2>1. IInv'
    BY <1>1, HandlerKeeps DEF AInv
  <2> QED BY <1>1, <2>1, HandlerIsLocal, BusyIsNotNew, Typed, SessionStep DEF accountVars
<1> QED BY <1>1, InsertAccountKeeps, DetectKeeps, LookupKeeps DEF EntryHandler

LEMMA FailsKeeps ==
    ASSUME AInv, NEW q \in Requests, Fails(q)
    PROVE  AInv'
<1>1. /\ UNCHANGED <<tok, sent, acct, client>>
      /\ failures' \in 0..MaxFailures /\ client' \in {"register", "login", "in"}
  BY Typed, RolesFacts DEF Fails, Failing
<1>2. CASE /\ reg[q].pc \in {"account", "detect", "lookup"} /\ UNCHANGED req
           /\ Answer(q, 500)
  <2>1. UNCHANGED vars
    BY <1>1, <1>2 DEF vars
  <2> QED BY <1>1, <1>2, <2>1, AnswerKeeps
<1>3. CASE UNCHANGED req /\ reg' = [reg EXCEPT ![q] = NoEntry]
  <2>1. IInv'
    BY <1>1, <1>3, StutterKeeps DEF AInv, vars
  <2> QED BY <1>1, <1>3, <2>1, SessionStep
<1>4. CASE req[q].pc = "insert" /\ Reply(q, 500) /\ UNCHANGED reg
  <2>1. IInv'
    BY <1>1, <1>4, ReplyKeeps DEF AInv
  <2>2. \A p \in Requests \ {q} : req'[p] = req[p]
    BY <1>4, Typed DEF Reply
  <2> QED BY <1>1, <1>4, <2>1, <2>2, BusyIsNotNew, SessionStep
<1>5. CASE req[q].pc = "insert" /\ req' = [req EXCEPT ![q] = Idle] /\ UNCHANGED reg
  <2>1. IInv'
    BY <1>1, <1>5, ForgetKeeps DEF AInv
  <2>2. \A p \in Requests \ {q} : req'[p] = req[p]
    BY <1>5, Typed
  <2> QED BY <1>1, <1>5, <2>1, <2>2, BusyIsNotNew, SessionStep
<1> QED BY <1>2, <1>3, <1>4, <1>5 DEF Fails

LEMMA CloseKeeps ==
    ASSUME AInv, NEW q \in Requests, CloseEntry(q)
    PROVE  AInv'
<1>1. /\ reg' = [reg EXCEPT ![q] = NoEntry] /\ req' = [req EXCEPT ![q] = Idle]
      /\ UNCHANGED <<tok, sent, acct, failures>>
  BY DEF CloseEntry
<1>2. client' \in {"register", "login", "in"}
  <2>1. client' \in {"login", "in", client}
    BY DEF CloseEntry
  <2> QED BY <2>1, Typed
<1>3. IInv'
  BY <1>1, ForgetKeeps DEF AInv
<1>4. \A p \in Requests \ {q} : req'[p] = req[p]
  BY <1>1, Typed
<1> QED BY <1>1, <1>2, <1>3, <1>4, Typed, SessionStep

\* Register, with what the handler makes of the text.
LEMMA RegisterArrives ==
    ASSUME AInv, NEW q \in Requests, NEW role \in Roles, NEW p \in Phones,
           Register(q, role, p)
    PROVE  AInv'
<1>1. PICK s \in Spellings :
         /\ \/ RoomForAccount(q)
            \/ Taken([role |-> role, phone |-> p, form |-> Normalized(s)])
         /\ Enter(q, [NoEntry EXCEPT !.op = "register", !.role = role, !.phone = p,
                                     !.form = Normalized(s), !.pc = "account"])
  BY DEF Register
<1>2. Normalized(s) = "plain" /\ "plain" \in Spellings
  BY DEF Normalized, Spellings
<1> QED BY <1>1, <1>2, RegisterKeeps

LEMMA CreateArrives ==
    ASSUME AInv, NEW q \in Requests, NEW p \in Phones, AdminCreateDriver(q, p)
    PROVE  AInv'
<1>1. PICK s \in Spellings :
         Enter(q, [NoEntry EXCEPT !.op = "create", !.role = "driver",
                                  !.phone = p, !.form = s, !.pc = "account"])
  BY DEF AdminCreateDriver
<1>2. "driver" \in Roles /\ RoomForAccount(q)
  BY DEF AdminCreateDriver
<1> QED BY <1>1, <1>2, RegisterKeeps

LEMMA OthersKeep ==
    ASSUME AInv, NEW q \in Requests, Others(q)
    PROVE  AInv'
<1>1. ASSUME Free(q), UNCHANGED accountVars,
             \/ \E t \in Tokens : Refresh(q, t)
             \/ \E u \in Users : Logout(q, u)
      PROVE  AInv'
  <2>1. ASSUME NEW t \in Tokens, Refresh(q, t)
        PROVE  IInv' /\ \A p \in Requests \ {q} : req'[p] = req[p]
    <3>1. t \in sent /\ Arrive(q, tok[t].user, "refresh", t, "select")
      BY <2>1 DEF Refresh
    <3>2. tok[t].user \in Users
      BY <3>1 DEF AInv, IInv, TokensOk, TokenOk
    <3>3. IInv'
      BY <3>1, <3>2, ArriveKeeps DEF AInv
    <3> QED BY <3>1, <3>3, Typed DEF Arrive
  <2>2. ASSUME NEW u \in Users, Logout(q, u)
        PROVE  IInv' /\ \A p \in Requests \ {q} : req'[p] = req[p]
    <3>1. Arrive(q, u, "logout", None, "delete")
      BY <2>2 DEF Logout
    <3>2. IInv'
      BY <3>1, ArriveKeeps DEF AInv
    <3> QED BY <3>1, <3>2, Typed DEF Arrive
  <2>3. reg[q] = NoEntry
    BY <1>1 DEF Free
  <2> QED BY <1>1, <2>1, <2>2, <2>3, Typed, SessionStep DEF accountVars
<1>2. ASSUME NEW p \in Phones, NEW role \in Roles,
             LoginAs(q, role, p) \/ LoginAnyRole(q, p)
      PROVE  AInv'
  BY <1>2, LoginKeeps
<1>3. ASSUME NEW p \in Phones, LoginAnyRole(q, p)
      PROVE  AInv'
  BY <1>2, <1>3, RolesFacts
<1> QED BY <1>1, <1>2, <1>3, RegisterArrives, CreateArrives DEF Others

-----------------------------------------------------------------------------

LEMMA AInitHolds == AccountsInit => AInv
<1> SUFFICES ASSUME AccountsInit
             PROVE  AInv
  OBVIOUS
<1>1. IInv
  BY InitHolds DEF AccountsInit
<1>2. PICK first \in Seeded \cup {NoAccount} :
         acct = [u \in Users |-> IF u = SeededId THEN first ELSE NoAccount]
  BY DEF AccountsInit
<1>3. first \in AccountRow \cup {NoAccount} /\ (first # NoAccount => first.form = "plus52")
  BY DEF Seeded, AccountRow, Spellings
<1>4. /\ reg = [q \in Requests |-> NoEntry] /\ client = "register" /\ failures = 0
      /\ NoEntry \in EntryState /\ EntryOk(NoEntry) /\ Knows(NoEntry)
      /\ NoEntry.pc # "account"
  BY NoEntryOk DEF AccountsInit, IsEntry
<1>5. AccountsTypeOK
  BY <1>1, <1>2, <1>3, <1>4, RolesFacts DEF AccountsTypeOK, IInv
<1>6. \A u \in Users : RowOk(u)
  BY <1>2, <1>3 DEF RowOk
<1>7. \A q \in Requests :
         /\ EntryOk(reg[q]) /\ Knows(reg[q])
         /\ reg[q] # NoEntry => req[q] = Idle
  BY <1>4
<1>8. IdsLeft
  <2>1. Inserting = {}
    BY <1>4 DEF Inserting
  <2> QED BY <2>1, SetsAreFinite, FS_EmptySet DEF IdsLeft
<1> QED BY <1>1, <1>5, <1>6, <1>7, <1>8 DEF AInv

LEMMA AStutterKeeps ==
    ASSUME AInv, UNCHANGED allVars
    PROVE  AInv'
<1>1. IInv'
  BY StutterKeeps DEF AInv, allVars
<1>2. reg' = reg /\ req' = req /\ acct' = acct /\ client' = client /\ failures' = failures
  BY DEF allVars, vars, accountVars
<1>3. FreeIds' = FreeIds /\ Inserting' = Inserting
  BY <1>2 DEF FreeIds, Inserting, Taken
<1>4. AccountsTypeOK'
  BY <1>1, <1>2 DEF AInv, AccountsTypeOK, IInv
<1>5. \A q \in Requests : EntryOk(reg[q])' /\ Knows(reg[q])'
  BY <1>2 DEF AInv, EntryOk, Knows, HasAccount, Ahead
<1> QED BY <1>1, <1>2, <1>3, <1>4, <1>5 DEF AInv, RowOk, IdsLeft

LEMMA AStepKeeps == AInv /\ [AccountsNext]_allVars => AInv'
<1> SUFFICES ASSUME AInv, [AccountsNext]_allVars
             PROVE  AInv'
  OBVIOUS
<1>1. CASE ClientSubmits
  BY <1>1, RegisterArrives, LoginKeeps, RolesFacts DEF ClientSubmits
<1>2. CASE UNCHANGED allVars
  BY <1>2, AStutterKeeps
<1> QED BY <1>1, <1>2, OthersKeep, EntryHandlerKeeps, FailsKeeps, CloseKeeps
        DEF AccountsNext

LEMMA AInvariantHolds == AccountsSpec => []AInv
BY AInitHolds, AStepKeeps, PTL DEF AccountsSpec

(* The tables and the requests always have their types.                    *)
THEOREM AccountsTypeCorrect == AccountsSpec => []AccountsTypeOK
<1>1. AInv => AccountsTypeOK
  BY DEF AInv
<1> QED BY <1>1, AInvariantHolds, PTL

(* Two accounts of one phone in a table are never both written by a        *)
(* registration: one of them is the admin panel's or the migration's.      *)
THEOREM TwinsStand == AccountsSpec => []TwinsAreUnnormalized
<1>1. AInv => TwinsAreUnnormalized
  <2> SUFFICES ASSUME AInv, NEW u \in Users, NEW v \in Users, u # v,
                      acct[u] # NoAccount, acct[u].role = acct[v].role,
                      acct[u].phone = acct[v].phone
               PROVE  /\ {acct[u].form, acct[v].form} # {"plain"}
                      /\ \/ acct[u].role = "driver"
                         \/ SeededId \in {u, v} /\ acct[SeededId].form = "plus52"
    BY DEF TwinsAreUnnormalized
  <2>1. acct[u] \in AccountRow /\ acct[v] \in AccountRow
    <3>1. acct[u] \in AccountRow /\ acct[u].role \in Roles
      BY DEF AInv, AccountsTypeOK, AccountRow
    <3>2. acct[v] # NoAccount
      BY <3>1, RolesFacts DEF NoAccount
    <3> QED BY <3>1, <3>2 DEF AInv, AccountsTypeOK
  <2>2. acct[u].form # acct[v].form
    <3>1. acct[u] # acct[v]
      BY DEF AInv, RowOk
    <3> QED BY <2>1, <3>1 DEF AccountRow
  <2>3. acct[v] # NoAccount
    BY <2>1, RolesFacts DEF AccountRow, NoAccount
  <2>4. /\ \/ acct[u].role = "driver" \/ acct[u].form = "plain"
           \/ u = SeededId /\ acct[u].form = "plus52"
        /\ \/ acct[v].role = "driver" \/ acct[v].form = "plain"
           \/ v = SeededId /\ acct[v].form = "plus52"
    BY <2>3 DEF AInv, RowOk
  <2> QED BY <2>2, <2>4
<1> QED BY <1>1, AInvariantHolds, PTL

(* A login of a phone that had an account is never refused as unknown,     *)
(* whatever is registered, created or fails while it goes from table to    *)
(* table.                                                                  *)
THEOREM RegisteredGetIn == AccountsSpec => []RegisteredGetsIn
<1>1. AInv => RegisteredGetsIn
  BY DEF AInv, Knows, RegisteredGetsIn
<1> QED BY <1>1, AInvariantHolds, PTL

(* What the sessions promise they promise here too, where each of them     *)
(* begins with a registration or a login by phone.                         *)
THEOREM SessionsStand == AccountsSpec => [](RotationRevokes /\ ReuseRefused)
<1>1. AInv => RotationRevokes /\ ReuseRefused
  BY InvariantSays DEF AInv
<1> QED BY <1>1, AInvariantHolds, PTL

=============================================================================
