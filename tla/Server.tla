------------------------------- MODULE Server -------------------------------
(***************************************************************************)
(* The process: main of cmd/server/main.go with the goroutine that waits   *)
(* for the signal, the pool of connections of internal/db, the requests    *)
(* net/http serves in goroutines of their own, and GET /health.            *)
(*                                                                         *)
(* What a handler does to the tables is in the other modules; here it is a *)
(* number of calls, each of which takes a connection from the pool and     *)
(* gives it back.  No handler keeps one while it asks for another.  One of *)
(* them, RequestOTP, then waits for the SMS provider as well, without any  *)
(* connection and without any deadline.                                    *)
(***************************************************************************)
EXTENDS Naturals, FiniteSets

CONSTANTS
    Requests,       \* bound: the requests under way at a time
    MaxConns,       \* 10 in NewPool
    MaxCalls        \* bound: calls of one handler

ASSUME ServerAssumption ==
    /\ IsFiniteSet(Requests)
    /\ MaxConns \in Nat \ {0, 1}
    /\ MaxCalls \in Nat \ {0}

VARIABLES
    main,           \* where main is
    closer,         \* where the goroutine of the graceful shutdown is
    signalled,      \* SIGINT or SIGTERM has come
    timedOut,       \* Shutdown's context has expired
    pool,
    lent,           \* connections that are not in the pool
    db,             \* whether PostgreSQL answers
    req             \* the requests

vars == <<main, closer, signalled, timedOut, pool, lent, db, req>>

\* left is the number of calls still to make.
RequestState ==
    [kind : {"none", "handler", "otp", "health"},
     pc   : {"idle", "running", "acquire", "calling", "sending", "answered",
             "lost"},
     left : 0..MaxCalls]

Idle == [kind |-> "none", pc |-> "idle", left |-> 0]

TypeOK ==
    /\ main \in {"pool", "migrate", "listen", "serving", "exited"}
    /\ closer \in {"none", "waiting", "shutdown", "closing", "draining",
                   "finished"}
    /\ signalled \in BOOLEAN
    /\ timedOut \in BOOLEAN
    /\ pool \in {"none", "open", "closed"}
    /\ lent \in 0..MaxConns
    /\ db \in {"up", "stuck"}
    /\ req \in [Requests -> RequestState]

Init ==
    /\ main = "pool"
    /\ closer = "none"
    /\ signalled = FALSE
    /\ timedOut = FALSE
    /\ pool = "none"
    /\ lent = 0
    /\ db = "up"
    /\ req = [q \in Requests |-> Idle]

UnderWay(q) == req[q].pc \in {"running", "acquire", "calling", "sending"}

-----------------------------------------------------------------------------
(* The end of the process: whatever was under way goes with it.            *)

Exit ==
    /\ main' = "exited"
    /\ req' = [q \in Requests |->
                  IF UnderWay(q) THEN [req[q] EXCEPT !.pc = "lost"] ELSE req[q]]

-----------------------------------------------------------------------------
(* Start.  Any failure is os.Exit(1): nothing is tried again.              *)

\* pgxpool connects when it is first asked to.
NewPool ==
    /\ main = "pool"
    /\ \/ main' = "migrate" /\ pool' = "open" /\ UNCHANGED req
       \/ Exit /\ UNCHANGED pool
    /\ UNCHANGED <<closer, signalled, timedOut, lent, db>>

\* sqlDB is closed but not the migration, which has a connection of its own:
\* whether the library gives that one back is left open.
RunMigrations ==
    /\ main = "migrate"
    /\ \/ /\ db = "up"
          /\ main' = "listen"
          /\ closer' = "waiting"
          /\ lent' \in {0, 1}
          /\ UNCHANGED req
       \/ Exit /\ UNCHANGED <<closer, lent>>
    /\ UNCHANGED <<signalled, timedOut, pool, db>>

\* ListenAndServe: the port may be taken.
Listen ==
    /\ main = "listen"
    /\ closer = "waiting"
    /\ (main' = "serving" /\ UNCHANGED req) \/ Exit
    /\ UNCHANGED <<closer, signalled, timedOut, pool, lent, db>>

-----------------------------------------------------------------------------
(* Shutdown.                                                               *)

\* Before signal.Notify a signal kills the process.
Signal ==
    /\ main # "exited" /\ ~signalled
    /\ signalled' = TRUE
    /\ IF closer = "none" THEN Exit ELSE UNCHANGED <<main, req>>
    /\ UNCHANGED <<closer, timedOut, pool, lent, db>>

Running == main # "exited"

\* srv.Shutdown: the listeners are closed at once.
BeginShutdown ==
    /\ Running /\ closer = "waiting" /\ signalled
    /\ closer' = "shutdown"
    /\ UNCHANGED <<main, signalled, timedOut, pool, lent, db, req>>

\* It returns when no connection is active, or after 15 seconds.
ShutdownReturns ==
    /\ Running /\ closer = "shutdown"
    /\ \/ ~(\E q \in Requests : UnderWay(q)) /\ UNCHANGED timedOut
       \/ timedOut' = TRUE
    /\ closer' = "closing"
    /\ UNCHANGED <<main, signalled, pool, lent, db, req>>

\* pool.Close: no connection is lent any more, those that are come back.
ClosePool ==
    /\ Running
    /\ \/ /\ closer = "closing"
          /\ pool' = "closed"
          /\ closer' = "draining"
       \/ /\ closer = "draining"
          /\ lent = 0
          /\ closer' = "finished"
          /\ UNCHANGED pool
    /\ UNCHANGED <<main, signalled, timedOut, lent, db, req>>

\* Mutant: main waits for the goroutine to end.
ListenerClosedLate == closer = "finished"

ListenerClosed == closer \notin {"none", "waiting"}

\* ListenAndServe returns ErrServerClosed as soon as Shutdown has begun, and
\* main returns.
MainReturns ==
    /\ main \in {"listen", "serving"}
    /\ ListenerClosed
    /\ Exit
    /\ UNCHANGED <<closer, signalled, timedOut, pool, lent, db>>

-----------------------------------------------------------------------------
(* Requests.                                                               *)

Arrive(q) ==
    /\ main = "serving" /\ ~ListenerClosed
    /\ req[q].pc \in {"idle", "answered"}
    /\ \E kind \in {"handler", "otp", "health"} :
          req' = [req EXCEPT ![q] = [kind |-> kind, pc |-> "running",
                     left |-> IF kind = "health" THEN 1 ELSE MaxCalls]]
    /\ UNCHANGED <<main, closer, signalled, timedOut, pool, lent, db>>

Moved(q, pc) == req' = [req EXCEPT ![q].pc = pc]

\* The next call, or the answer: any check may end the handler.  RequestOTP
\* sends the code after its INSERT.
Step(q) ==
    /\ Running /\ req[q].pc = "running"
    /\ \/ req[q].left > 0 /\ Moved(q, "acquire")
       \/ /\ req[q].kind # "health" \/ req[q].left = 0
          /\ Moved(q, "answered")
       \/ /\ req[q].kind = "otp" /\ req[q].left < MaxCalls
          /\ Moved(q, "sending")
    /\ UNCHANGED <<main, closer, signalled, timedOut, pool, lent, db>>

\* The provider answers, 200 or an error, and the handler does.  http.Client
\* has no timeout and SNS gets context.Background(): nothing else ends the
\* call, neither a deadline nor a client that hangs up.
SendReturns(q) ==
    /\ Running /\ req[q].pc = "sending"
    /\ Moved(q, "answered")
    /\ UNCHANGED <<main, closer, signalled, timedOut, pool, lent, db>>

\* Mutant: a connection for whoever asks.
Available == TRUE

CanLend == lent < MaxConns

\* The pool serves those who wait in the order they came.
Acquire(q) ==
    /\ Running /\ req[q].pc = "acquire"
    /\ pool = "open" /\ CanLend
    /\ lent' = lent + 1
    /\ Moved(q, "calling")
    /\ UNCHANGED <<main, closer, signalled, timedOut, pool, db>>

\* A closed pool is an error, the answer 500 or 503.
AcquireFails(q) ==
    /\ Running /\ req[q].pc = "acquire"
    /\ pool = "closed"
    /\ Moved(q, "answered")
    /\ UNCHANGED <<main, closer, signalled, timedOut, pool, lent, db>>

\* Mutant: the rows are not closed.
ReleasedNever == lent

Released == lent - 1

CallReturns(q) ==
    /\ Running /\ req[q].pc = "calling"
    /\ db = "up"
    /\ lent' = Released
    /\ req' = [req EXCEPT ![q] = [@ EXCEPT !.pc = "running", !.left = @ - 1]]
    /\ UNCHANGED <<main, closer, signalled, timedOut, pool, db>>

\* The context of the call ends: the client hangs up, or five seconds of
\* GET /health are over.
Cancelled(q, answer) ==
    /\ Running /\ req[q].pc \in {"acquire", "calling"}
    /\ lent' = IF req[q].pc = "calling" THEN lent - 1 ELSE lent
    /\ Moved(q, answer)
    /\ UNCHANGED <<main, closer, signalled, timedOut, pool, db>>

HangUp(q) == Cancelled(q, "idle")

\* Mutant: Ping(r.Context()).
HasNoDeadline(kind) == FALSE

HasDeadline(kind) == kind = "health"

HealthTimeout(q) == HasDeadline(req[q].kind) /\ Cancelled(q, "answered")

\* PostgreSQL stops answering, without closing its connections, and recovers.
Database ==
    /\ Running
    /\ db' = IF db = "up" THEN "stuck" ELSE "up"
    /\ UNCHANGED <<main, closer, signalled, timedOut, pool, lent, req>>

-----------------------------------------------------------------------------

Goroutine == BeginShutdown \/ ShutdownReturns \/ ClosePool

Serve(q) == Step(q) \/ AcquireFails(q) \/ CallReturns(q) \/ HealthTimeout(q)

Next ==
    \/ NewPool \/ RunMigrations \/ Listen \/ Signal \/ Goroutine \/ MainReturns
    \/ \E q \in Requests : Arrive(q) \/ Serve(q) \/ Acquire(q) \/ HangUp(q)
          \/ SendReturns(q)
    \/ Database

Spec == Init /\ [][Next]_vars

\* Goroutines are scheduled, deadlines pass, and the pool is first come,
\* first served.  Nobody has to ask, to hang up, to signal or to recover, and
\* the SMS provider does not have to answer: SendReturns has no fairness.
FairSpec ==
    /\ Spec
    /\ WF_vars(Goroutine) /\ WF_vars(MainReturns)
    /\ \A q \in Requests : WF_vars(Serve(q)) /\ SF_vars(Acquire(q))

-----------------------------------------------------------------------------
(* What the process promises.                                              *)

(* As long as PostgreSQL answers, every request is answered, ends with its *)
(* client or the process, or waits for the SMS provider (sms.go:48 has no  *)
(* timeout): nobody waits for a connection for ever, though there are more *)
(* requests than connections, the pool may lack the one of the migration,  *)
(* and the provider may never answer those who wait for it.                *)
Served ==
    <>[](db = "up") => \A q \in Requests :
        UnderWay(q) ~> (~UnderWay(q) \/ req[q].pc = "sending")

(* GET /health answers whether PostgreSQL does or not, and when every      *)
(* connection is held by a call that does not return.                      *)
HealthAnswers == \A q \in Requests :
    (UnderWay(q) /\ req[q].kind = "health") ~> ~UnderWay(q)

(* A signal ends the process, at whatever moment of its life it comes and  *)
(* whatever PostgreSQL, the handlers or the pool are waiting for.          *)
SignalEndsProcess == signalled ~> main = "exited"

-----------------------------------------------------------------------------
(* What the documentation promises and the process does not keep.          *)

(* "SIGINT/SIGTERM -> srv.Shutdown(ctx) 15s timeout" (ARCHITECTURE.md:202, *)
(* "Graceful shutdown"): a signal cuts off no request before the fifteen   *)
(* seconds are over.                                                       *)
GracefulShutdown ==
    main = "exited" /\ ~timedOut => \A q \in Requests : req[q].pc # "lost"
=============================================================================
