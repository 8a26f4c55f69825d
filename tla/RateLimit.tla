----------------------------- MODULE RateLimit -----------------------------
(***************************************************************************)
(* The rate limiter of internal/api/ratelimit.go: one tokenBucket with its *)
(* map of entries, made on a key's first request, brought up to date only  *)
(* when the key comes back, and removed by the sweeper when it stays away. *)
(*                                                                         *)
(* Time is counted in ticks and tokens in Window-ths, so the float64s of   *)
(* the code are exact integers here: its rounding errors are left out.     *)
(* allow reads the clock under the mutex and is one action; the sweeper    *)
(* reads it before it takes any lock, and is two.                          *)
(***************************************************************************)
EXTENDS Naturals, Sequences, FiniteSets

CONSTANTS
    Keys,
    Capacity,
    Window,
    Second,     \* ticks in a second, the unit of Retry-After
    Horizon     \* bound: the last tick of the clock

ASSUME RateLimitAssumption ==
    /\ Capacity \in Nat \ {0}
    /\ Window \in Nat \ {0}
    /\ Second \in Nat \ {0}
    /\ Horizon \in Nat

VARIABLES
    now,        \* the clock
    buckets,    \* the map; an entry's lastRefill is its lastAccess
    sweep,      \* the time the sweeper has read, or NotSweeping
    answer,     \* the last answer to each key
    granted     \* when each key was let through, back to one window

vars == <<now, buckets, sweep, answer, granted>>

Full == Capacity * Window

AtMostFull(n) == IF n > Full THEN Full ELSE n

CeilDiv(a, b) == (a + b - 1) \div b

Absent == [tokens |-> 0, last |-> 0, present |-> FALSE]

NotSweeping == Horizon + 1

TypeOK ==
    /\ now \in 0..Horizon
    /\ buckets \in [Keys -> [tokens : 0..Full, last : 0..Horizon,
                             present : BOOLEAN]]
    /\ sweep \in 0..NotSweeping
    /\ answer \in [Keys -> [ok : BOOLEAN, retryAt : Nat]]
    /\ granted \in [Keys -> Seq(0..Horizon)]

Init ==
    /\ now = 0
    /\ buckets = [k \in Keys |-> Absent]
    /\ sweep = NotSweeping
    /\ answer = [k \in Keys |-> [ok |-> TRUE, retryAt |-> 0]]
    /\ granted = [k \in Keys |-> <<>>]

-----------------------------------------------------------------------------

\* Mutants: tokens accumulate beyond the capacity; the first request is free.
RefilledUncapped(k) ==
    IF buckets[k].present
    THEN buckets[k].tokens + (now - buckets[k].last) * Capacity
    ELSE Full

RefilledFirstFree(k) ==
    IF buckets[k].present
    THEN AtMostFull(buckets[k].tokens + (now - buckets[k].last) * Capacity)
    ELSE Full + Window

\* What a key's bucket holds now.  A first request finds no entry and leaves
\* one with Capacity - 1 tokens: a full bucket less its own.
Refilled(k) ==
    IF buckets[k].present
    THEN AtMostFull(buckets[k].tokens + (now - buckets[k].last) * Capacity)
    ELSE Full

\* Mutant: the wait is rounded down.
RetryAfterFloor(k) == ((Window - Refilled(k)) \div Capacity) \div Second

\* The header, in seconds: time to the next token, rounded up twice.
RetryAfter(k) == CeilDiv(CeilDiv(Window - Refilled(k), Capacity), Second)

Entry(tokens) == [tokens |-> tokens, last |-> now, present |-> TRUE]

\* Those of the last window: times only grow.
Recent(times) ==
    LET old == {i \in DOMAIN times : times[i] + Window <= now}
    IN  SubSeq(times, Cardinality(old) + 1, Len(times))

Grant(k) ==
    /\ Refilled(k) >= Window
    /\ buckets' = [buckets EXCEPT ![k] = Entry(Refilled(k) - Window)]
    /\ answer' = [answer EXCEPT ![k] = [ok |-> TRUE, retryAt |-> 0]]
    /\ granted' = [granted EXCEPT ![k] = Append(Recent(@), now)]

Deny(k) ==
    /\ Refilled(k) < Window
    /\ buckets' = [buckets EXCEPT ![k] = Entry(Refilled(k))]
    /\ answer' = [answer EXCEPT ![k] =
           [ok |-> FALSE, retryAt |-> now + RetryAfter(k) * Second]]
    /\ UNCHANGED granted

Allow(k) == (Grant(k) \/ Deny(k)) /\ UNCHANGED <<now, sweep>>

-----------------------------------------------------------------------------
(* The sweeper.                                                            *)

ReadClock ==
    /\ sweep = NotSweeping
    /\ sweep' = now
    /\ UNCHANGED <<now, buckets, answer, granted>>

\* Mutant: entries go after half a window.
StaleEarly(k) == buckets[k].present /\ 2 * buckets[k].last + Window < 2 * sweep

Stale(k) == buckets[k].present /\ buckets[k].last + 2 * Window < sweep

Cleanup ==
    /\ sweep # NotSweeping
    /\ buckets' = [k \in Keys |-> IF Stale(k) THEN Absent ELSE buckets[k]]
    /\ sweep' = NotSweeping
    /\ UNCHANGED <<now, answer, granted>>

Tick ==
    /\ now < Horizon
    /\ now' = now + 1
    /\ UNCHANGED <<buckets, sweep, answer, granted>>

Next == (\E k \in Keys : Allow(k)) \/ ReadClock \/ Cleanup \/ Tick

Spec == Init /\ [][Next]_vars

-----------------------------------------------------------------------------
(* What the limiter promises.                                              *)

Bucket == INSTANCE TokenBucket WITH
    level   <- [k \in Keys |-> Refilled(k)],
    allowed <- [k \in Keys |-> answer[k].ok]

(* Refilling on access and sweeping entries away cannot be noticed: the    *)
(* verdicts are those of a bucket that fills with every tick and is never  *)
(* removed, also when the sweeper's clock is older than the last access.   *)
ImplementsBucket == Bucket!Spec

(* A client that was refused and waits for the Retry-After it was given    *)
(* finds a token, whatever the sweeper does meanwhile.                     *)
RetryAfterSuffices == \A k \in Keys :
    ~answer[k].ok /\ now >= answer[k].retryAt => Refilled(k) >= Window

(* "permite `capacity` requests por `window`" (ratelimit.go:33) is exceeded *)
(* by what fills while a full bucket is spent, and by no more: a key is    *)
(* let through fewer than twice Capacity times in any window.              *)
BurstBounded == \A k \in Keys : Len(granted[k]) < 2 * Capacity

=============================================================================
