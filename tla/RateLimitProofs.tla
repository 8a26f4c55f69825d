-------------------------- MODULE RateLimitProofs ---------------------------
(***************************************************************************)
(* The rate limiter, for any number of keys, any capacity, any window and  *)
(* any length of a second, and however long it runs.                       *)
(*                                                                         *)
(* The argument: what a key was let through in the last window, and what   *)
(* its bucket still holds, is no more than a full bucket and what filled   *)
(* since (Spent); a refused key's bucket will hold a token when the time   *)
(* it was given has come (Waiting); and an entry that the sweeper removes  *)
(* would be full (its clock is never ahead).                               *)
(***************************************************************************)
EXTENDS RateLimit, TLAPS, SequenceTheorems, FiniteSetTheorems,
        WellFoundedInduction

Waiting(k) == ~answer[k].ok /\ buckets[k].present =>
    /\ buckets[k].last <= answer[k].retryAt
    /\ buckets[k].tokens + (answer[k].retryAt - buckets[k].last) * Capacity >= Window

Ordered(times) == \A i, j \in DOMAIN times : i <= j => times[i] <= times[j]

\* The i-th time and those after it took a token each, and left this many.
Spent(times, left, t) == \A i \in DOMAIN times :
    /\ times[i] <= t
    /\ (Len(times) + 1 - i) * Window + left <= Full + (t - times[i]) * Capacity

\* The inductive invariant.
IInv ==
    /\ TypeOK
    /\ sweep # NotSweeping => sweep <= now
    /\ \A k \in Keys :
          /\ buckets[k].present => buckets[k].last <= now
          /\ Waiting(k)
          /\ Ordered(granted[k])
          /\ Spent(granted[k], Refilled(k), now)
          /\ Len(granted[k]) < 2 * Capacity

-----------------------------------------------------------------------------
(* Arithmetic.                                                             *)

LEMMA TimesNat == \A a, b \in Nat : a * b \in Nat
OBVIOUS

LEMMA TimesMonotonic ==
    ASSUME NEW a \in Nat, NEW b \in Nat, NEW c \in Nat, a <= b
    PROVE  a * c <= b * c
<1>1. PICK d \in Nat : b = a + d
  <2>1. b - a \in Nat /\ b = a + (b - a)
    OBVIOUS
  <2> QED BY <2>1
<1>2. b * c = a * c + d * c
  BY <1>1
<1>3. d * c \in Nat /\ a * c \in Nat
  BY TimesNat
<1> QED BY <1>2, <1>3

LEMMA TimesNext ==
    ASSUME NEW a \in Nat, NEW c \in Nat
    PROVE  (a + 1) * c = a * c + c
OBVIOUS

LEMMA CeilDivFacts ==
    ASSUME NEW a \in Nat, NEW b \in Nat \ {0}
    PROVE  CeilDiv(a, b) \in Nat /\ CeilDiv(a, b) * b >= a
<1> DEFINE n == a + b - 1
           d == n \div b
           r == n % b
<1>1. n \in Nat
  OBVIOUS
<1>2. d \in Nat /\ r \in 0..(b - 1) /\ n = b * d + r
  BY <1>1
<1>3. CeilDiv(a, b) = d
  BY DEF CeilDiv
<1> HIDE DEF d, r
<1>4. b * d = d * b /\ d * b \in Nat
  BY <1>2, TimesNat
<1>5. d * b = a + b - 1 - r
  BY <1>1, <1>2, <1>4
<1> QED BY <1>2, <1>3, <1>5

\* Numbers with a bound have a largest.
LEMMA Largest ==
    ASSUME NEW b \in Nat, NEW T, T # {}, \A x \in T : x \in Nat /\ x <= b
    PROVE  \E x \in T : \A y \in T : y <= x
<1> DEFINE R == OpToRel(<, Nat)
           S == {b - x : x \in T}
<1>1. \A i, j \in Nat : <<i, j>> \in R <=> i < j
  BY DEF OpToRel
<1>2. S \subseteq Nat /\ S # {}
  OBVIOUS
<1>3. IsWellFoundedOn(R, Nat)
  BY NatLessThanWellFounded
<1> HIDE DEF R
<1>4. PICK m \in S : \A k \in S : ~(<<k, m>> \in R)
  <2> HIDE DEF S
  <2> QED BY <1>2, <1>3, WFMin
<1>5. PICK x \in T : m = b - x
  BY <1>4
<1>6. ASSUME NEW y \in T
      PROVE  y <= x
  <2>1. b - y \in S /\ b - y \in Nat /\ b - x \in Nat
    BY <1>5
  <2>2. ~(b - y < b - x)
    BY <2>1, <1>1, <1>4, <1>5
  <2> QED BY <2>2
<1> QED BY <1>5, <1>6

LEMMA Constants ==
    /\ Capacity \in Nat /\ Capacity >= 1 /\ Window \in Nat /\ Window >= 1
    /\ Second \in Nat \ {0} /\ Horizon \in Nat /\ NotSweeping \in Nat
    /\ Full \in Nat /\ Full = Capacity * Window /\ Window <= Full
<1>1. Capacity \in Nat /\ Capacity >= 1 /\ Window \in Nat /\ Window >= 1
  BY RateLimitAssumption
<1>2. 1 * Window <= Capacity * Window
  BY <1>1, TimesMonotonic
<1> QED BY <1>1, <1>2, RateLimitAssumption, TimesNat DEF Full, NotSweeping

-----------------------------------------------------------------------------
(* The last window.                                                        *)

\* The times that are kept are the last ones, and they are recent.
LEMMA RecentFacts ==
    ASSUME NEW times \in Seq(0..Horizon), Ordered(times), now \in 0..Horizon
    PROVE  \E m \in 0..Len(times) :
              /\ Recent(times) = SubSeq(times, m + 1, Len(times))
              /\ m + 1 \in DOMAIN times => times[m + 1] + Window > now
<1> DEFINE n == Len(times)
           old == {i \in DOMAIN times : times[i] + Window <= now}
           m == Cardinality(old)
<1>1. /\ n \in Nat /\ DOMAIN times = 1..n
      /\ \A i \in 1..n : times[i] \in Nat
  BY LenProperties, ElementOfSeq, RateLimitAssumption
<1>2. Recent(times) = SubSeq(times, m + 1, n)
  BY DEF Recent
<1>3. m \in 0..n /\ (m + 1 \in 1..n => m + 1 \notin old)
  <2>1. CASE old = {}
    <3>1. m = 0
      BY <2>1, FS_EmptySet
    <3> HIDE DEF m
    <3>2. 0 \in 0..n
      BY <1>1
    <3> QED BY <2>1, <3>1, <3>2
  <2>2. CASE old # {}
    <3>1. \A i \in old : i \in Nat /\ i <= n
      BY <1>1
    <3>2. PICK x \in old : \A y \in old : y <= x
      <4> HIDE DEF old
      <4> QED BY <1>1, <2>2, <3>1, Largest
    <3>3. x \in 1..n
      BY <1>1, <3>2
    <3>4. old = 1..x
      <4>1. ASSUME NEW i \in 1..x
            PROVE  i \in old
        <5>1. i \in 1..n /\ i <= x /\ times[i] <= times[x]
          BY <1>1, <3>3, <4>1 DEF Ordered
        <5>2. times[x] + Window <= now /\ times[i] \in Nat /\ times[x] \in Nat
          BY <1>1, <3>2, <5>1, <3>3
        <5> QED BY <1>1, <5>1, <5>2, Constants
      <4>2. ASSUME NEW i \in old
            PROVE  i \in 1..x
        BY <1>1, <3>1, <3>2, <3>3
      <4> QED BY <4>1, <4>2
    <3>5. m = x
      <4> HIDE DEF old
      <4>1. x \in Int /\ 1 \in Int /\ ~(1 > x) /\ x - 1 + 1 = x
        BY <1>1, <3>3
      <4>2. Cardinality(1..x) = x
        BY <4>1, FS_Interval
      <4> QED BY <3>4, <4>2
    <3> HIDE DEF m
    <3>6. m + 1 \notin old
      <4> HIDE DEF old
      <4> QED BY <3>3, <3>4, <3>5
    <3>7. m \in 0..n
      BY <3>3, <3>5, <1>1
    <3> QED BY <3>6, <3>7
  <2> QED BY <2>1, <2>2
<1>4. m + 1 \in 1..n => times[m + 1] + Window > now
  <2> HIDE DEF m
  <2>1. SUFFICES ASSUME m + 1 \in 1..n
                 PROVE  times[m + 1] + Window > now
    OBVIOUS
  <2>2. ~(times[m + 1] + Window <= now)
    BY <2>1, <1>1, <1>3
  <2>3. times[m + 1] \in Nat
    BY <2>1, <1>1
  <2> QED BY <2>2, <2>3, Constants
<1> HIDE DEF m
<1> QED BY <1>1, <1>2, <1>3, <1>4

\* A request that is let through, in terms of the times and the tokens alone.
LEMMA WindowMoves ==
    ASSUME NEW s \in Seq(0..Horizon), Ordered(s), now \in 0..Horizon,
           NEW R \in Nat, Window <= R, R <= Full,
           Spent(s, R, now),
           NEW g, g = Append(Recent(s), now)
    PROVE  /\ g \in Seq(0..Horizon)
           /\ Ordered(g)
           /\ Len(g) < 2 * Capacity
           /\ Spent(g, R - Window, now)
<1> DEFINE n == Len(s)
<1>1. PICK m \in 0..n :
         /\ Recent(s) = SubSeq(s, m + 1, n)
         /\ m + 1 \in DOMAIN s => s[m + 1] + Window > now
  BY RecentFacts
<1>2. /\ n \in Nat /\ DOMAIN s = 1..n /\ m \in Nat /\ m <= n
      /\ \A i \in 1..n : s[i] \in 0..Horizon
  <2>1. n \in Nat /\ DOMAIN s = 1..n
    BY LenProperties
  <2>2. \A i \in 1..n : s[i] \in 0..Horizon
    BY ElementOfSeq
  <2> QED BY <2>1, <2>2
<1> DEFINE t == SubSeq(s, m + 1, n)
           L == n - m
<1>3. /\ t \in Seq(0..Horizon) /\ Len(t) = L
      /\ \A i \in 1..L : t[i] = s[m + i]
  <2>1. m + 1 \in Int /\ n \in Int /\ \A i \in (m + 1)..n : s[i] \in 0..Horizon
    BY <1>2
  <2>2. /\ t \in Seq(0..Horizon)
        /\ Len(t) = IF m + 1 <= n THEN n - (m + 1) + 1 ELSE 0
        /\ \A i \in 1..(n - (m + 1) + 1) : t[i] = s[m + 1 + i - 1]
    BY <2>1, SubSeqProperties
  <2> HIDE DEF t
  <2>3. \A i \in 1..L : t[i] = s[m + i]
    <3>1. \A i \in 1..L : i \in 1..(n - (m + 1) + 1) /\ m + 1 + i - 1 = m + i
      BY <1>2
    <3> QED BY <2>2, <3>1
  <2>4. Len(t) = L
    <3> DEFINE l == Len(t)
    <3>1. l = IF m + 1 <= n THEN n - (m + 1) + 1 ELSE 0
      BY <2>2
    <3> HIDE DEF l, n
    <3>2. l = n - m
      BY ONLY <1>2, <3>1
    <3> QED BY <3>2 DEF l
  <2> HIDE DEF L
  <2> QED BY <2>2, <2>3, <2>4
<1>4. L \in Nat /\ \A i \in 1..(L + 1) : i \in 1..L \/ i = L + 1
  <2>1. L \in Nat
    BY <1>2
  <2> HIDE DEF L
  <2> QED BY <2>1
<1>5. /\ g \in Seq(0..Horizon) /\ Len(g) = L + 1 /\ DOMAIN g = 1..(L + 1)
      /\ \A i \in 1..L : g[i] = s[m + i]
      /\ g[L + 1] = now
  <2> HIDE DEF t, L
  <2>1. g = Append(t, now)
    BY <1>1 DEF t
  <2>2. /\ g \in Seq(0..Horizon) /\ Len(g) = Len(t) + 1
        /\ \A i \in 1..Len(t) : g[i] = t[i]
        /\ g[Len(t) + 1] = now
    BY <2>1, <1>3, AppendProperties
  <2>3. DOMAIN g = 1..Len(g)
    BY <2>2, LenProperties
  <2> QED BY <1>3, <2>2, <2>3
<1> HIDE DEF t
<1>6. \A i \in 1..L : m + i \in 1..n
  BY <1>2
<1>7. ASSUME NEW i \in 1..(L + 1)
      PROVE  /\ g[i] <= now
             /\ (Len(g) + 1 - i) * Window + (R - Window)
                   <= Full + (now - g[i]) * Capacity
  <2>1. CASE i \in 1..L
    <3>1. /\ g[i] = s[m + i] /\ s[m + i] <= now
          /\ (n + 1 - (m + i)) * Window + R <= Full + (now - s[m + i]) * Capacity
      BY <2>1, <1>2, <1>5, <1>6 DEF Spent
    <3>2. /\ n + 1 - (m + i) \in Nat
          /\ Len(g) + 1 - i = (n + 1 - (m + i)) + 1
      BY <2>1, <1>2, <1>5
    <3>3. (Len(g) + 1 - i) * Window = (n + 1 - (m + i)) * Window + Window
      BY <3>2, TimesNext, Constants
    <3>4. (n + 1 - (m + i)) * Window \in Nat
      BY <3>2, TimesNat, Constants
    <3>5. (now - g[i]) * Capacity \in Nat
      <4>1. now - g[i] \in Nat
        <5>1. s[m + i] \in Nat /\ now \in Nat
          BY <1>2, <1>6, <2>1, Constants
        <5> QED BY <3>1, <5>1
      <4> QED BY <4>1, TimesNat, Constants
    <3> DEFINE a == (Len(g) + 1 - i) * Window
               b == (n + 1 - (m + i)) * Window
               c == (now - g[i]) * Capacity
    <3>6. a = b + Window /\ b \in Nat /\ c \in Nat /\ b + R <= Full + c
      BY <3>1, <3>3, <3>4, <3>5
    <3>7. a + (R - Window) <= Full + c
      <4> HIDE DEF a, b, c
      <4> QED BY <3>6, Constants
    <3> QED BY <3>1, <3>7
  <2>2. CASE i = L + 1
    <3>1. Len(g) + 1 - i = 1 /\ g[i] = now /\ now \in Nat
      BY <2>2, <1>4, <1>5, Constants
    <3>2. 1 * Window = Window /\ (now - now) * Capacity = 0
      BY <3>1, Constants
    <3>3. (Len(g) + 1 - i) * Window = Window /\ (now - g[i]) * Capacity = 0
      BY <3>1, <3>2
    <3>4. Window + (R - Window) <= Full + 0
      BY Constants
    <3> QED BY <3>1, <3>3, <3>4
  <2> HIDE DEF L
  <2> QED BY <2>1, <2>2, <1>4
<1>8. Ordered(g)
  <2> SUFFICES ASSUME NEW i \in 1..(L + 1), NEW j \in 1..(L + 1), i <= j
               PROVE  g[i] <= g[j]
    BY <1>5 DEF Ordered
  <2>1. CASE j \in 1..L
    <3>1. i \in 1..L /\ m + i <= m + j
      BY <2>1, <1>2
    <3> QED BY <2>1, <3>1, <1>2, <1>5, <1>6 DEF Ordered
  <2>2. CASE j = L + 1
    <3> HIDE DEF L, n
    <3>1. g[j] = now
      BY <2>2, <1>5
    <3> QED BY <3>1, <1>7
  <2> QED BY <2>1, <2>2, <1>4
<1>9. Len(g) < 2 * Capacity
  <2>1. CASE L = 0
    BY <2>1, <1>5, Constants
  <2>2. CASE L > 0
    <3>1. 1 \in 1..L /\ 1 \in 1..(L + 1) /\ m + 1 \in DOMAIN s
      BY <2>2, <1>2, <1>4
    <3>2. g[1] = s[m + 1] /\ g[1] \in Nat /\ g[1] <= now /\ g[1] + Window > now
      BY <3>1, <1>1, <1>2, <1>5, <1>7
    <3>3. /\ now - g[1] \in Nat /\ Window - 1 \in Nat
          /\ now - g[1] <= Window - 1
      <4> DEFINE x == g[1]
      <4>1. now \in Nat /\ Window \in Nat /\ Window >= 1
        BY Constants
      <4>2. x \in Nat /\ x <= now /\ x + Window > now
        BY <3>2
      <4> HIDE DEF x
      <4>3. now - x \in Nat /\ Window - 1 \in Nat /\ now - x <= Window - 1
        BY ONLY <4>1, <4>2
      <4> QED BY <4>3 DEF x
    <3>4. (now - g[1]) * Capacity <= (Window - 1) * Capacity
      BY <3>3, TimesMonotonic, Constants
    <3>5. (Window - 1) * Capacity = Full - Capacity
      BY Constants
    <3>6. (L + 1) * Window + (R - Window) <= Full + (now - g[1]) * Capacity
      <4>1. Len(g) + 1 - 1 = L + 1
        BY <1>4, <1>5
      <4> QED BY <3>1, <1>7, <4>1
    <3>7. (L + 1) * Window \in Nat /\ (now - g[1]) * Capacity \in Nat
      BY <1>4, <3>3, TimesNat, Constants
    <3>8. (L + 1) * Window < 2 * Full
      BY <3>4, <3>5, <3>6, <3>7, Constants
    <3>9. (2 * Capacity) * Window = 2 * Full
      BY Constants
    <3>10. ~(2 * Capacity <= L + 1)
      <4>1. 2 * Capacity \in Nat /\ L + 1 \in Nat
        BY <1>4, Constants
      <4>2. 2 * Capacity <= L + 1 => (2 * Capacity) * Window <= (L + 1) * Window
        BY <4>1, TimesMonotonic, Constants
      <4> DEFINE a == (2 * Capacity) * Window
                 b == (L + 1) * Window
      <4>3. a = 2 * Full /\ b \in Nat /\ b < 2 * Full
        BY <3>7, <3>8, <3>9
      <4>4. ~(a <= b)
        <5> HIDE DEF a, b
        <5> QED BY <4>3, Constants
      <4> QED BY <4>2, <4>4
    <3> QED BY <3>10, <1>4, <1>5, Constants
  <2> QED BY <2>1, <2>2, <1>4
<1>10. Spent(g, R - Window, now)
  BY <1>5, <1>7 DEF Spent
<1> QED BY <1>5, <1>8, <1>9, <1>10

-----------------------------------------------------------------------------
(* What a bucket holds.                                                    *)

LEMMA RefilledFacts ==
    ASSUME IInv, NEW k \in Keys
    PROVE  /\ Refilled(k) \in 0..Full
           /\ buckets[k] \in [tokens : 0..Full, last : 0..Horizon, present : BOOLEAN]
           /\ now \in Nat /\ buckets[k].last \in Nat /\ buckets[k].tokens \in Nat
           /\ buckets[k].present =>
                 /\ now - buckets[k].last \in Nat
                 /\ (now - buckets[k].last) * Capacity \in Nat
<1>1. /\ buckets[k] \in [tokens : 0..Full, last : 0..Horizon, present : BOOLEAN]
      /\ now \in 0..Horizon
      /\ buckets[k].present => buckets[k].last <= now
  BY DEF IInv, TypeOK
<1>2. now \in Nat /\ buckets[k].last \in Nat /\ buckets[k].tokens \in Nat
  BY <1>1, Constants
<1>3. buckets[k].present => now - buckets[k].last \in Nat
  BY <1>1, <1>2
<1>4. buckets[k].present => (now - buckets[k].last) * Capacity \in Nat
  BY <1>3, TimesNat, Constants
<1>5. Refilled(k) \in 0..Full
  <2> DEFINE x == buckets[k].tokens + (now - buckets[k].last) * Capacity
  <2>1. buckets[k].present => x \in Nat
    BY <1>2, <1>4
  <2>2. Refilled(k) = IF buckets[k].present THEN AtMostFull(x) ELSE Full
    BY DEF Refilled
  <2> HIDE DEF x
  <2>3. Full \in Nat
    BY Constants
  <2> QED BY <2>1, <2>2, <2>3 DEF AtMostFull
<1> QED BY <1>1, <1>2, <1>3, <1>4, <1>5

\* An entry just written holds what was written.
LEMMA Written ==
    ASSUME IInv, NEW k \in Keys, NEW n \in 0..Full, now' = now,
           buckets' = [buckets EXCEPT ![k] = Entry(n)]
    PROVE  /\ buckets' \in [Keys -> [tokens : 0..Full, last : 0..Horizon,
                                    present : BOOLEAN]]
           /\ buckets'[k] = [tokens |-> n, last |-> now, present |-> TRUE]
           /\ Refilled(k)' = n
           /\ \A q \in Keys \ {k} : /\ buckets'[q] = buckets[q]
                                    /\ Refilled(q)' = Refilled(q)
<1>1. /\ now \in 0..Horizon
      /\ buckets \in [Keys -> [tokens : 0..Full, last : 0..Horizon,
                               present : BOOLEAN]]
  BY DEF IInv, TypeOK
<1>2. Entry(n) = [tokens |-> n, last |-> now, present |-> TRUE]
  BY DEF Entry
<1>3. /\ buckets'[k] = [tokens |-> n, last |-> now, present |-> TRUE]
      /\ \A q \in Keys \ {k} : buckets'[q] = buckets[q]
  BY <1>1, <1>2
<1>4. buckets' \in [Keys -> [tokens : 0..Full, last : 0..Horizon, present : BOOLEAN]]
  BY <1>1, <1>2
<1>5. Refilled(k)' = n
  <2>1. Refilled(k)' = AtMostFull(n + (now - now) * Capacity)'
    BY <1>3 DEF Refilled
  <2>2. now - now = 0
    BY <1>1, Constants
  <2>3. n + (now - now) * Capacity = n
    BY <2>2, Constants
  <2>4. Refilled(k)' = IF n > Full THEN Full ELSE n
    BY <1>3, <2>3 DEF Refilled, AtMostFull, Full
  <2> QED BY <2>4, Constants
<1>6. \A q \in Keys \ {k} : Refilled(q)' = Refilled(q)
  BY <1>3 DEF Refilled, AtMostFull, Full
<1> QED BY <1>3, <1>4, <1>5, <1>6

\* A key that the step does not touch.
LEMMA Bystander ==
    ASSUME IInv, NEW k \in Keys, now' = now,
           buckets'[k] = buckets[k], answer'[k] = answer[k],
           granted'[k] = granted[k]
    PROVE  /\ buckets'[k].present => buckets'[k].last <= now'
           /\ Waiting(k)'
           /\ Ordered(granted[k])'
           /\ Spent(granted[k], Refilled(k), now)'
           /\ Len(granted[k])' < 2 * Capacity
<1>1. /\ buckets[k].present => buckets[k].last <= now
      /\ Waiting(k) /\ Ordered(granted[k]) /\ Spent(granted[k], Refilled(k), now)
      /\ Len(granted[k]) < 2 * Capacity
  BY DEF IInv
<1>2. Refilled(k)' = Refilled(k)
  BY DEF Refilled, AtMostFull, Full
<1>3. Waiting(k)'
  BY <1>1 DEF Waiting
<1>4. Ordered(granted[k])'
  BY <1>1 DEF Ordered
<1>5. Spent(granted[k], Refilled(k), now)'
  BY <1>1, <1>2 DEF Spent, Full
<1> QED BY <1>1, <1>3, <1>4, <1>5

-----------------------------------------------------------------------------
(* The steps.                                                              *)

LEMMA GrantStep ==
    ASSUME IInv, NEW k \in Keys, Grant(k), UNCHANGED <<now, sweep>>
    PROVE  IInv'
<1> DEFINE R == Refilled(k)
<1>1. R \in 0..Full /\ R \in Nat /\ Window <= R /\ R <= Full /\ R - Window \in 0..Full
  BY RefilledFacts, Constants DEF Grant
<1>2. /\ TypeOK /\ now' = now /\ sweep' = sweep
      /\ sweep # NotSweeping => sweep <= now
      /\ now \in 0..Horizon /\ granted[k] \in Seq(0..Horizon)
      /\ Ordered(granted[k]) /\ Spent(granted[k], R, now)
  BY DEF IInv, TypeOK
<1>3. buckets' = [buckets EXCEPT ![k] = Entry(R - Window)]
  BY DEF Grant
<1>4. /\ buckets' \in [Keys -> [tokens : 0..Full, last : 0..Horizon,
                                present : BOOLEAN]]
      /\ buckets'[k] = [tokens |-> R - Window, last |-> now, present |-> TRUE]
      /\ Refilled(k)' = R - Window
      /\ \A q \in Keys \ {k} : buckets'[q] = buckets[q]
  <2> HIDE DEF R
  <2> QED BY <1>1, <1>2, <1>3, Written
<1>5. /\ granted'[k] = Append(Recent(granted[k]), now)
      /\ granted' \in [Keys -> Seq(0..Horizon)]
      /\ Ordered(granted'[k]) /\ Spent(granted'[k], R - Window, now)
      /\ Len(granted'[k]) < 2 * Capacity
      /\ \A q \in Keys \ {k} : granted'[q] = granted[q]
  <2>1. PICK g : g = Append(Recent(granted[k]), now)
    OBVIOUS
  <2>2. granted \in [Keys -> Seq(0..Horizon)] /\ granted' = [granted EXCEPT ![k] = g]
    BY <1>2, <2>1 DEF TypeOK, Grant
  <2> HIDE DEF R
  <2>3. /\ g \in Seq(0..Horizon) /\ Ordered(g) /\ Spent(g, R - Window, now)
        /\ Len(g) < 2 * Capacity
    BY <1>1, <1>2, <2>1, WindowMoves
  <2> QED BY <2>1, <2>2, <2>3
<1>6. /\ answer'[k] = [ok |-> TRUE, retryAt |-> 0]
      /\ answer' \in [Keys -> [ok : BOOLEAN, retryAt : Nat]]
      /\ \A q \in Keys \ {k} : answer'[q] = answer[q]
  BY <1>2 DEF TypeOK, Grant
<1>7. TypeOK'
  BY <1>2, <1>4, <1>5, <1>6 DEF TypeOK, Full, NotSweeping
<1>8. /\ buckets'[k].present => buckets'[k].last <= now'
      /\ Waiting(k)'
      /\ Ordered(granted[k])'
      /\ Spent(granted[k], Refilled(k), now)'
      /\ Len(granted[k])' < 2 * Capacity
  <2>1. buckets'[k].last <= now'
    BY <1>2, <1>4, Constants
  <2>2. Waiting(k)'
    BY <1>6 DEF Waiting
  <2>3. Ordered(granted[k])'
    BY <1>5 DEF Ordered
  <2>4. Spent(granted[k], Refilled(k), now)'
    <3> HIDE DEF R
    <3> QED BY <1>2, <1>4, <1>5 DEF Spent, Full
  <2> QED BY <1>5, <2>1, <2>2, <2>3, <2>4
<1>9. ASSUME NEW q \in Keys \ {k}
      PROVE  /\ buckets'[q].present => buckets'[q].last <= now'
             /\ Waiting(q)'
             /\ Ordered(granted[q])'
             /\ Spent(granted[q], Refilled(q), now)'
             /\ Len(granted[q])' < 2 * Capacity
  BY <1>2, <1>4, <1>5, <1>6, Bystander
<1>10. sweep' # NotSweeping => sweep' <= now'
  BY <1>2
<1> QED BY <1>7, <1>8, <1>9, <1>10 DEF IInv, NotSweeping

\* The time a refused key is given, with both roundings, fills a token.
LEMMA RetryAfterFacts ==
    ASSUME IInv, NEW k \in Keys, Refilled(k) < Window
    PROVE  /\ RetryAfter(k) * Second \in Nat
           /\ Refilled(k) + (RetryAfter(k) * Second) * Capacity >= Window
<1> DEFINE R == Refilled(k)
           c == CeilDiv(Window - R, Capacity)
           d == CeilDiv(c, Second)
<1>1. R \in Nat /\ Window - R \in Nat /\ Capacity \in Nat \ {0}
  BY RefilledFacts, Constants
<1>2. c \in Nat /\ c * Capacity >= Window - R
  <2> HIDE DEF R
  <2> QED BY <1>1, CeilDivFacts
<1>3. d \in Nat /\ d * Second >= c /\ RetryAfter(k) = d
  <2>1. RetryAfter(k) = d
    BY DEF RetryAfter
  <2> HIDE DEF c
  <2>2. d \in Nat /\ d * Second >= c
    BY <1>2, CeilDivFacts, Constants
  <2> QED BY <2>1, <2>2
<1> DEFINE w == d * Second
<1>4. w \in Nat /\ c <= w
  <2> HIDE DEF c, d
  <2> QED BY <1>2, <1>3, TimesNat, Constants
<1>5. c * Capacity <= w * Capacity /\ c * Capacity \in Nat /\ w * Capacity \in Nat
  <2> HIDE DEF c, w
  <2> QED BY <1>2, <1>4, TimesMonotonic, TimesNat, Constants
<1>6. R + w * Capacity >= Window
  <2> DEFINE a == c * Capacity
             b == w * Capacity
  <2>1. a >= Window - R /\ a <= b /\ a \in Nat /\ b \in Nat
    BY <1>2, <1>5
  <2> HIDE DEF a, b, R
  <2>2. R + b >= Window
    BY <1>1, <2>1, Constants
  <2> QED BY <2>2 DEF b
<1>7. RetryAfter(k) * Second = w
  BY <1>3
<1> HIDE DEF w, R
<1> QED BY <1>4, <1>6, <1>7 DEF R

LEMMA DenyStep ==
    ASSUME IInv, NEW k \in Keys, Deny(k), UNCHANGED <<now, sweep>>
    PROVE  IInv'
<1> DEFINE R == Refilled(k)
           w == RetryAfter(k) * Second
<1>1. R \in 0..Full /\ now \in Nat /\ Refilled(k) < Window
  BY RefilledFacts DEF Deny
<1>2. /\ TypeOK /\ now' = now /\ sweep' = sweep
      /\ sweep # NotSweeping => sweep <= now
      /\ Ordered(granted[k]) /\ Spent(granted[k], R, now)
      /\ Len(granted[k]) < 2 * Capacity
  BY DEF IInv
<1>3. w \in Nat /\ R + w * Capacity >= Window
  BY <1>1, RetryAfterFacts
<1>4. /\ buckets' \in [Keys -> [tokens : 0..Full, last : 0..Horizon,
                                present : BOOLEAN]]
      /\ buckets'[k] = [tokens |-> R, last |-> now, present |-> TRUE]
      /\ Refilled(k)' = R
      /\ \A q \in Keys \ {k} : buckets'[q] = buckets[q]
  <2>1. buckets' = [buckets EXCEPT ![k] = Entry(R)]
    BY DEF Deny
  <2> HIDE DEF R
  <2> QED BY <1>1, <1>2, <2>1, Written
<1>5. /\ answer'[k] = [ok |-> FALSE, retryAt |-> now + w]
      /\ answer' \in [Keys -> [ok : BOOLEAN, retryAt : Nat]]
      /\ \A q \in Keys \ {k} : answer'[q] = answer[q]
  <2>1. /\ answer \in [Keys -> [ok : BOOLEAN, retryAt : Nat]]
        /\ answer' = [answer EXCEPT ![k] = [ok |-> FALSE, retryAt |-> now + w]]
    BY <1>2 DEF TypeOK, Deny
  <2>2. now + w \in Nat
    <3> HIDE DEF w
    <3> QED BY <1>1, <1>3
  <2> HIDE DEF w
  <2> QED BY <2>1, <2>2
<1>6. granted' = granted
  BY DEF Deny
<1>7. TypeOK'
  BY <1>2, <1>4, <1>5, <1>6 DEF TypeOK, Full, NotSweeping
<1>8. /\ buckets'[k].present => buckets'[k].last <= now'
      /\ Waiting(k)'
      /\ Ordered(granted[k])'
      /\ Spent(granted[k], Refilled(k), now)'
      /\ Len(granted[k])' < 2 * Capacity
  <2>1. buckets'[k].last <= now'
    BY <1>1, <1>2, <1>4
  <2>2. Waiting(k)'
    <3>1. /\ buckets'[k].last = now /\ buckets'[k].tokens = R
          /\ answer'[k].retryAt = now + w
      BY <1>4, <1>5
    <3> HIDE DEF w, R
    <3>2. now \in Nat /\ w \in Nat
      BY <1>1, <1>3
    <3>3. /\ buckets'[k].last <= answer'[k].retryAt
          /\ answer'[k].retryAt - buckets'[k].last = w
      BY <3>1, <3>2
    <3>4. /\ buckets'[k].tokens = R
          /\ R + (answer'[k].retryAt - buckets'[k].last) * Capacity >= Window
      BY <1>3, <3>1, <3>3
    <3>5. buckets'[k].tokens + (answer'[k].retryAt - buckets'[k].last) * Capacity >= Window
      BY <3>4
    <3> QED BY <3>3, <3>5 DEF Waiting
  <2>3. Ordered(granted[k])'
    BY <1>2, <1>6 DEF Ordered
  <2>4. Spent(granted[k], Refilled(k), now)'
    <3> HIDE DEF R
    <3> QED BY <1>2, <1>4, <1>6 DEF Spent, Full
  <2> QED BY <1>2, <1>6, <2>1, <2>2, <2>3, <2>4
<1>9. ASSUME NEW q \in Keys \ {k}
      PROVE  /\ buckets'[q].present => buckets'[q].last <= now'
             /\ Waiting(q)'
             /\ Ordered(granted[q])'
             /\ Spent(granted[q], Refilled(q), now)'
             /\ Len(granted[q])' < 2 * Capacity
  BY <1>2, <1>4, <1>5, <1>6, Bystander
<1>10. sweep' # NotSweeping => sweep' <= now'
  BY <1>2
<1> QED BY <1>7, <1>8, <1>9, <1>10 DEF IInv, NotSweeping

LEMMA ReadClockStep == IInv /\ ReadClock => IInv'
<1> SUFFICES ASSUME IInv, ReadClock
             PROVE  IInv'
  OBVIOUS
<1>1. /\ now' = now /\ buckets' = buckets /\ answer' = answer /\ granted' = granted
      /\ sweep' = now
  BY DEF ReadClock
<1>2. TypeOK'
  BY <1>1, Constants DEF IInv, TypeOK, Full, NotSweeping
<1>3. \A k \in Keys :
         /\ buckets'[k].present => buckets'[k].last <= now'
         /\ Waiting(k)'
         /\ Ordered(granted[k])'
         /\ Spent(granted[k], Refilled(k), now)'
         /\ Len(granted[k])' < 2 * Capacity
  BY <1>1, Bystander
<1>4. sweep' <= now'
  BY <1>1, Constants DEF IInv, TypeOK
<1> QED BY <1>2, <1>3, <1>4 DEF IInv, NotSweeping

\* What the sweeper removes would be full, by a clock that is never ahead.
LEMMA StaleIsFull ==
    ASSUME IInv, sweep # NotSweeping, NEW k \in Keys, Stale(k)
    PROVE  Refilled(k) = Full
<1> DEFINE e == now - buckets[k].last
           f == e * Capacity
           t == buckets[k].tokens
<1>1. /\ buckets[k].present /\ buckets[k].last + 2 * Window < sweep
      /\ sweep <= now /\ sweep \in 0..NotSweeping
  BY DEF IInv, TypeOK, Stale
<1>2. /\ now \in Nat /\ buckets[k].last \in Nat /\ t \in Nat
      /\ e \in Nat /\ f \in Nat
  BY <1>1, RefilledFacts
<1>3. Window <= e
  <2>1. Window \in Nat /\ NotSweeping \in Nat
    BY Constants
  <2> QED BY <1>1, <1>2, <2>1
<1>4. Full <= f
  <2>1. Window * Capacity <= f
    <3> HIDE DEF e
    <3> QED BY <1>2, <1>3, TimesMonotonic, Constants
  <2>2. Window * Capacity = Full
    BY Constants
  <2> HIDE DEF f
  <2> QED BY <2>1, <2>2
<1>5. Refilled(k) = AtMostFull(t + f)
  BY <1>1 DEF Refilled
<1>6. Full \in Nat
  BY Constants
<1> HIDE DEF f, t
<1> QED BY <1>2, <1>4, <1>5, <1>6 DEF AtMostFull

\* So sweeping changes what no bucket holds.
LEMMA CleanupKeeps ==
    ASSUME IInv, Cleanup, NEW k \in Keys
    PROVE  /\ Refilled(k)' = Refilled(k)
           /\ buckets'[k] = buckets[k] \/ ~buckets'[k].present
<1>1. now' = now /\ buckets'[k] = IF Stale(k) THEN Absent ELSE buckets[k]
  BY DEF Cleanup
<1>2. CASE Stale(k)
  <2>1. Refilled(k) = Full
    BY <1>2, StaleIsFull DEF Cleanup
  <2>2. ~buckets'[k].present
    BY <1>1, <1>2 DEF Absent
  <2> QED BY <2>1, <2>2 DEF Refilled, Full
<1>3. CASE ~Stale(k)
  BY <1>1, <1>3 DEF Refilled, AtMostFull, Full
<1> QED BY <1>2, <1>3

LEMMA CleanupStep == IInv /\ Cleanup => IInv'
<1> SUFFICES ASSUME IInv, Cleanup
             PROVE  IInv'
  OBVIOUS
<1>1. /\ now' = now /\ answer' = answer /\ granted' = granted
      /\ sweep' = NotSweeping
      /\ buckets' = [k \in Keys |-> IF Stale(k) THEN Absent ELSE buckets[k]]
  BY DEF Cleanup
<1>2. TypeOK'
  <2>1. Absent \in [tokens : 0..Full, last : 0..Horizon, present : BOOLEAN]
    BY Constants DEF Absent
  <2> QED BY <1>1, <2>1, Constants DEF IInv, TypeOK, Full, NotSweeping
<1>3. ASSUME NEW k \in Keys
      PROVE  /\ buckets'[k].present => buckets'[k].last <= now'
             /\ Waiting(k)'
             /\ Ordered(granted[k])'
             /\ Spent(granted[k], Refilled(k), now)'
             /\ Len(granted[k])' < 2 * Capacity
  <2>1. CASE buckets'[k] = buckets[k]
    BY <1>1, <2>1, Bystander
  <2>2. CASE ~buckets'[k].present
    <3>1. Waiting(k)'
      BY <2>2 DEF Waiting
    <3>2. Ordered(granted[k])' /\ Len(granted[k])' < 2 * Capacity
      BY <1>1 DEF IInv, Ordered
    <3>3. Spent(granted[k], Refilled(k), now)'
      <4>1. Refilled(k)' = Refilled(k) /\ Spent(granted[k], Refilled(k), now)
        BY CleanupKeeps DEF IInv
      <4> QED BY <1>1, <4>1 DEF Spent, Full
    <3> QED BY <2>2, <3>1, <3>2, <3>3
  <2> QED BY <2>1, <2>2, CleanupKeeps
<1> QED BY <1>1, <1>2, <1>3 DEF IInv, NotSweeping

LevelAt(e, t) ==
    IF e.present THEN AtMostFull(e.tokens + (t - e.last) * Capacity) ELSE Full

\* A tick fills every bucket by Capacity, up to a full one.
LEMMA TickFills ==
    ASSUME IInv, Tick, NEW k \in Keys
    PROVE  Refilled(k)' = AtMostFull(Refilled(k) + Capacity)
<1> DEFINE t == buckets[k].tokens
           e == now - buckets[k].last
           f == e * Capacity
<1>1. /\ now' = now + 1 /\ buckets' = buckets
      /\ Full \in Nat /\ Capacity \in Nat
  BY Constants DEF Tick
<1>2. CASE buckets[k].present
  <2>1. t \in Nat /\ e \in Nat /\ f \in Nat
    BY <1>2, RefilledFacts
  <2>2. (now + 1) - buckets[k].last = e + 1
    BY RefilledFacts
  <2>3. (e + 1) * Capacity = f + Capacity
    <3> HIDE DEF e
    <3> QED BY <1>1, <2>1, TimesNext DEF f
  <2>4. ((now + 1) - buckets[k].last) * Capacity = f + Capacity
    BY <2>2, <2>3
  <2>5. Refilled(k)' = AtMostFull(t + ((now + 1) - buckets[k].last) * Capacity)
    <3>1. Refilled(k)' = LevelAt(buckets'[k], now')
      BY DEF Refilled, LevelAt, AtMostFull, Full
    <3>2. Refilled(k)' = LevelAt(buckets[k], now + 1)
      BY <1>1, <3>1
    <3> QED BY <1>2, <3>2 DEF LevelAt
  <2>6. Refilled(k) = AtMostFull(t + f)
    BY <1>2 DEF Refilled
  <2> HIDE DEF f, t, e
  <2>7. Refilled(k)' = AtMostFull(t + (f + Capacity))
    BY <2>4, <2>5
  <2> QED BY <1>1, <2>1, <2>6, <2>7 DEF AtMostFull
<1>3. CASE ~buckets[k].present
  <2>1. Refilled(k)' = Full /\ Refilled(k) = Full
    BY <1>1, <1>3 DEF Refilled, Full
  <2>2. Capacity >= 1
    BY Constants
  <2> QED BY <1>1, <2>1, <2>2 DEF AtMostFull
<1> QED BY <1>2, <1>3

LEMMA TickStep == IInv /\ Tick => IInv'
<1> SUFFICES ASSUME IInv, Tick
             PROVE  IInv'
  OBVIOUS
<1>1. /\ now' = now + 1 /\ buckets' = buckets /\ sweep' = sweep
      /\ answer' = answer /\ granted' = granted
      /\ now \in Nat /\ now < Horizon
  BY Constants DEF Tick, IInv, TypeOK
<1>2. TypeOK'
  BY <1>1, Constants DEF IInv, TypeOK, Full, NotSweeping
<1>3. ASSUME NEW k \in Keys
      PROVE  /\ buckets'[k].present => buckets'[k].last <= now'
             /\ Waiting(k)'
             /\ Ordered(granted[k])'
             /\ Spent(granted[k], Refilled(k), now)'
             /\ Len(granted[k])' < 2 * Capacity
  <2>1. /\ buckets[k].present => buckets[k].last <= now
        /\ Waiting(k) /\ Ordered(granted[k]) /\ Spent(granted[k], Refilled(k), now)
        /\ Len(granted[k]) < 2 * Capacity
    BY DEF IInv
  <2>2. buckets'[k].present => buckets'[k].last <= now'
    BY <1>1, <2>1, RefilledFacts
  <2>3. Waiting(k)' /\ Ordered(granted[k])' /\ Len(granted[k])' < 2 * Capacity
    BY <1>1, <2>1 DEF Waiting, Ordered
  <2>4. Spent(granted[k], Refilled(k), now)'
    <3> DEFINE s == granted[k]
               R == Refilled(k)
               S == Refilled(k)'
    <3>1. R \in Nat /\ S \in Nat /\ S <= R + Capacity /\ Full \in Nat
      <4>1. R \in 0..Full /\ S = AtMostFull(R + Capacity)
        BY RefilledFacts, TickFills
      <4>2. Full \in Nat /\ Capacity \in Nat
        BY Constants
      <4> HIDE DEF R, S
      <4> QED BY <4>1, <4>2 DEF AtMostFull
    <3>2. ASSUME NEW i \in DOMAIN s
          PROVE  /\ s[i] <= now + 1
                 /\ (Len(s) + 1 - i) * Window + S
                       <= Full + ((now + 1) - s[i]) * Capacity
      <4>1. s \in Seq(0..Horizon) /\ DOMAIN s = 1..Len(s) /\ Len(s) \in Nat
        BY LenProperties DEF IInv, TypeOK
      <4>2. s[i] \in Nat /\ Len(s) + 1 - i \in Nat
        BY <4>1, ElementOfSeq, Constants
      <4> DEFINE e == now - s[i]
                 a == (Len(s) + 1 - i) * Window
                 c == e * Capacity
      <4>3. s[i] <= now /\ a + R <= Full + c
        BY <2>1 DEF Spent
      <4>4. e \in Nat /\ (now + 1) - s[i] = e + 1 /\ s[i] <= now + 1
        BY <1>1, <4>2, <4>3
      <4>5. a \in Nat /\ c \in Nat /\ (e + 1) * Capacity = c + Capacity
        <5>1. a \in Nat
          BY <4>2, TimesNat, Constants
        <5> HIDE DEF e
        <5> QED BY <4>4, <5>1, TimesNat, TimesNext, Constants
      <4>6. ((now + 1) - s[i]) * Capacity = c + Capacity
        BY <4>4, <4>5
      <4>7. a + S <= Full + (c + Capacity)
        <5>1. Capacity \in Nat
          BY Constants
        <5> HIDE DEF a, c, R, S
        <5> QED BY <3>1, <4>3, <4>5, <5>1
      <4> QED BY <4>4, <4>6, <4>7
    <3> HIDE DEF R, S
    <3>3. Spent(s, S, now + 1)
      BY <3>2, Zenon DEF Spent
    <3>4. Spent(granted'[k], Refilled(k)', now')
      BY <1>1, <3>3 DEF S
    <3> QED BY <3>4 DEF Spent, Full
  <2> QED BY <2>2, <2>3, <2>4
<1>4. sweep' # NotSweeping => sweep' <= now'
  BY <1>1, Constants DEF IInv, TypeOK
<1> QED BY <1>2, <1>3, <1>4 DEF IInv, NotSweeping

LEMMA InitOk == Init => IInv
<1> SUFFICES ASSUME Init
             PROVE  IInv
  OBVIOUS
<1>1. TypeOK
  <2>1. Absent \in [tokens : 0..Full, last : 0..Horizon, present : BOOLEAN]
    BY Constants DEF Absent
  <2>2. \A k \in Keys : granted[k] = <<>>
    BY DEF Init
  <2>3. granted \in [Keys -> Seq(0..Horizon)]
    BY DEF Init
  <2> QED BY <2>1, <2>3, Constants DEF Init, TypeOK, NotSweeping
<1>2. ASSUME NEW k \in Keys
      PROVE  /\ ~buckets[k].present /\ answer[k].ok
             /\ Len(granted[k]) = 0 /\ DOMAIN granted[k] = {}
  BY DEF Init, Absent
<1>3. ASSUME NEW k \in Keys
      PROVE  /\ Waiting(k) /\ Ordered(granted[k])
             /\ Spent(granted[k], Refilled(k), now)
             /\ Len(granted[k]) < 2 * Capacity
  BY <1>2, Constants DEF Waiting, Ordered, Spent
<1>4. sweep = NotSweeping
  BY DEF Init
<1> QED BY <1>1, <1>2, <1>3, <1>4 DEF IInv

LEMMA NextOk == IInv /\ [Next]_vars => IInv'
<1> SUFFICES ASSUME IInv, [Next]_vars
             PROVE  IInv'
  OBVIOUS
<1>1. ASSUME NEW k \in Keys, Allow(k)
      PROVE  IInv'
  BY <1>1, GrantStep, DenyStep DEF Allow
<1>2. CASE UNCHANGED vars
  <2>1. /\ now' = now /\ buckets' = buckets /\ sweep' = sweep
        /\ answer' = answer /\ granted' = granted
    BY <1>2 DEF vars
  <2>2. TypeOK'
    BY <2>1 DEF IInv, TypeOK, Full, NotSweeping
  <2>3. \A k \in Keys :
           /\ buckets'[k].present => buckets'[k].last <= now'
           /\ Waiting(k)'
           /\ Ordered(granted[k])'
           /\ Spent(granted[k], Refilled(k), now)'
           /\ Len(granted[k])' < 2 * Capacity
    BY <2>1, Bystander
  <2> QED BY <2>1, <2>2, <2>3 DEF IInv, NotSweeping
<1> QED BY <1>1, <1>2, ReadClockStep, CleanupStep, TickStep DEF Next

LEMMA Invariant == Spec => []IInv
<1>1. Init => IInv
  BY InitOk
<1>2. IInv /\ [Next]_vars => IInv'
  BY NextOk
<1> QED BY <1>1, <1>2, PTL DEF Spec

-----------------------------------------------------------------------------
(* What the invariant gives.                                               *)

(* The limiter's state always has its type.                                *)
THEOREM TypeCorrect == Spec => []TypeOK
<1>1. IInv => TypeOK
  BY DEF IInv
<1> QED BY <1>1, Invariant, PTL

(* math.Ceil(wait.Seconds()), the Retry-After of a 429 (ratelimit.go:121), *)
(* is long enough: a client that waits it out finds a token, for any       *)
(* capacity, window and length of a second, and also when its entry was    *)
(* swept away meanwhile.                                                   *)
THEOREM WaitingSuffices == Spec => []RetryAfterSuffices
<1>1. IInv => RetryAfterSuffices
  <2> SUFFICES ASSUME IInv, NEW k \in Keys, ~answer[k].ok, now >= answer[k].retryAt
               PROVE  Refilled(k) >= Window
    BY DEF RetryAfterSuffices
  <2> DEFINE t == buckets[k].tokens
             l == buckets[k].last
             r == answer[k].retryAt
             a == (r - l) * Capacity
             f == (now - l) * Capacity
  <2>1. /\ Full \in Nat /\ Window \in Nat /\ Window <= Full /\ Capacity \in Nat
        /\ t \in Nat /\ l \in Nat /\ now \in Nat /\ r \in Nat
    BY RefilledFacts, Constants DEF IInv, TypeOK
  <2>2. CASE buckets[k].present
    <3>1. l <= r /\ t + a >= Window
      BY <2>2 DEF IInv, Waiting
    <3>2. r - l \in Nat /\ now - l \in Nat /\ r - l <= now - l
      BY <2>1, <3>1
    <3>3. a \in Nat /\ f \in Nat /\ a <= f
      <4> HIDE DEF r, l
      <4> QED BY <2>1, <3>2, TimesNat, TimesMonotonic
    <3>4. Refilled(k) = AtMostFull(t + f)
      BY <2>2 DEF Refilled
    <3> HIDE DEF t, a, f
    <3> QED BY <2>1, <3>1, <3>3, <3>4 DEF AtMostFull
  <2>3. CASE ~buckets[k].present
    BY <2>1, <2>3 DEF Refilled
  <2> QED BY <2>2, <2>3
<1> QED BY <1>1, Invariant, PTL

(* No key is let through 2 * capacity times in any window, the sum of a    *)
(* full bucket and of what fills while it is spent, however its requests,  *)
(* its refusals and the sweeper fall.                                      *)
THEOREM BurstsAreBounded == Spec => []BurstBounded
<1>1. IInv => BurstBounded
  BY DEF IInv, BurstBounded
<1> QED BY <1>1, Invariant, PTL

-----------------------------------------------------------------------------
(* The refinement: each step of the limiter is a step of the bucket that   *)
(* fills with time and is never removed, or none.                          *)

LEMMA InitMaps == Init => Bucket!Init
<1> SUFFICES ASSUME Init
             PROVE  Bucket!Init
  OBVIOUS
<1>1. \A k \in Keys : Refilled(k) = Full /\ answer[k].ok = TRUE
  BY DEF Init, Absent, Refilled
<1> QED BY <1>1 DEF Bucket!Init, Bucket!Full, Full, Init

LEMMA GrantMaps ==
    ASSUME IInv, NEW k \in Keys, Grant(k), now' = now
    PROVE  Bucket!Take(k)
<1>1. Refilled(k) \in 0..Full /\ Refilled(k) >= Window /\ Refilled(k) - Window \in 0..Full
  BY RefilledFacts, Constants DEF Grant
<1>2. buckets' = [buckets EXCEPT ![k] = Entry(Refilled(k) - Window)]
  BY DEF Grant
<1>3. /\ Refilled(k)' = Refilled(k) - Window
      /\ \A q \in Keys \ {k} : Refilled(q)' = Refilled(q)
  BY <1>1, <1>2, Written
<1>4. /\ answer'[k].ok = TRUE
      /\ \A q \in Keys \ {k} : answer'[q] = answer[q]
  BY DEF Grant, IInv, TypeOK
<1>5. [q \in Keys |-> Refilled(q)]'
         = [[q \in Keys |-> Refilled(q)] EXCEPT ![k] = @ - Window]
  BY <1>3
<1>6. [q \in Keys |-> answer[q].ok]'
         = [[q \in Keys |-> answer[q].ok] EXCEPT ![k] = TRUE]
  BY <1>4
<1> QED BY <1>1, <1>5, <1>6 DEF Bucket!Take

LEMMA DenyMaps ==
    ASSUME IInv, NEW k \in Keys, Deny(k), now' = now
    PROVE  Bucket!Refuse(k)
<1>1. Refilled(k) \in 0..Full /\ Refilled(k) < Window
  BY RefilledFacts DEF Deny
<1>2. buckets' = [buckets EXCEPT ![k] = Entry(Refilled(k))]
  BY DEF Deny
<1>3. \A q \in Keys : Refilled(q)' = Refilled(q)
  BY <1>1, <1>2, Written
<1>4. /\ answer'[k].ok = FALSE
      /\ \A q \in Keys \ {k} : answer'[q] = answer[q]
  BY DEF Deny, IInv, TypeOK
<1>5. [q \in Keys |-> Refilled(q)]' = [q \in Keys |-> Refilled(q)]
  BY <1>3
<1>6. [q \in Keys |-> answer[q].ok]'
         = [[q \in Keys |-> answer[q].ok] EXCEPT ![k] = FALSE]
  BY <1>4
<1> QED BY <1>1, <1>5, <1>6 DEF Bucket!Refuse

LEMMA TickMaps == IInv /\ Tick => Bucket!Tick
<1> SUFFICES ASSUME IInv, Tick
             PROVE  Bucket!Tick
  OBVIOUS
<1>1. \A k \in Keys : Refilled(k)' = AtMostFull(Refilled(k) + Capacity)
  BY TickFills
<1>2. now' = now + 1 /\ answer' = answer
  BY DEF Tick
<1>3. [k \in Keys |-> Refilled(k)]'
         = [k \in Keys |-> AtMostFull(Refilled(k) + Capacity)]
  BY <1>1
<1> QED BY <1>2, <1>3 DEF Bucket!Tick, Bucket!AtMostFull, Bucket!Full, AtMostFull, Full

\* What moves neither the clock nor a level nor a verdict.
LEMMA QuietMaps ==
    ASSUME now' = now, answer' = answer,
           \A k \in Keys : Refilled(k)' = Refilled(k)
    PROVE  UNCHANGED <<now, [k \in Keys |-> Refilled(k)], [k \in Keys |-> answer[k].ok]>>
OBVIOUS

LEMMA NextMaps ==
    IInv /\ [Next]_vars
       => [Bucket!Next]_<<now, [k \in Keys |-> Refilled(k)], [k \in Keys |-> answer[k].ok]>>
<1> SUFFICES ASSUME IInv, [Next]_vars
             PROVE  [Bucket!Next]_<<now, [k \in Keys |-> Refilled(k)],
                                    [k \in Keys |-> answer[k].ok]>>
  OBVIOUS
<1>1. ASSUME NEW k \in Keys, Allow(k)
      PROVE  Bucket!Next
  BY <1>1, GrantMaps, DenyMaps DEF Allow, Bucket!Next
<1>2. CASE ReadClock
  BY <1>2, QuietMaps DEF ReadClock, Refilled, AtMostFull, Full
<1>3. CASE Cleanup
  <2>1. now' = now /\ answer' = answer
    BY <1>3 DEF Cleanup
  <2> QED BY <1>3, <2>1, CleanupKeeps, QuietMaps
<1>4. CASE Tick
  BY <1>4, TickMaps DEF Bucket!Next
<1>5. CASE UNCHANGED vars
  BY <1>5, QuietMaps DEF vars, Refilled, AtMostFull, Full
<1> QED BY <1>1, <1>2, <1>3, <1>4, <1>5 DEF Next

(* Making entries on the first request, filling them only when their key   *)
(* comes back and sweeping them away cannot be noticed: for every capacity *)
(* and window the verdicts are those of TokenBucket.                       *)
THEOREM LimiterIsABucket == Spec => ImplementsBucket
<1>1. Init => Bucket!Init
  BY InitMaps
<1>2. IInv /\ [Next]_vars
        => [Bucket!Next]_<<now, [k \in Keys |-> Refilled(k)],
                           [k \in Keys |-> answer[k].ok]>>
  BY NextMaps
<1> QED BY <1>1, <1>2, Invariant, PTL DEF Spec, ImplementsBucket, Bucket!Spec

=============================================================================
