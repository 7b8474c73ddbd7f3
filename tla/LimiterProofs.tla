--------------------------- MODULE LimiterProofs ---------------------------
(***************************************************************************)
(* Proofs about the login rate limiter.  The lemmas say what a window sees *)
(* of a queue whose times are in order; LimiterInvariant is inductive and  *)
(* the limiter's properties follow from it.                                *)
(***************************************************************************)
EXTENDS Limiter, FiniteSetTheorems, SequenceTheorems, WellFoundedInduction, TLAPS

-----------------------------------------------------------------------------
(* Windows of queues.                                                       *)

LEMMA Least ==
  ASSUME NEW S \in SUBSET Nat, S # {}
  PROVE  \E m \in S : \A k \in S : m <= k
<1>. DEFINE R == OpToRel(<, Nat)
<1>1. IsWellFoundedOn(R, Nat)
  BY NatLessThanWellFounded
<1>2. \A x, y \in Nat : x < y => <<x, y>> \in R
  BY DEF OpToRel
<1>. HIDE DEF R
<1>3. PICK m \in S : \A y \in S : <<y, m>> \notin R
  BY <1>1, WFMin
<1>4. \A k \in S : ~(k < m)
  BY <1>2, <1>3
<1>5. \A k \in S : m <= k
  <2>1. \A k \in S : k \in Nat /\ m \in Nat
    OBVIOUS
  <2>2. \A a, b \in Nat : ~(a < b) => b <= a
    OBVIOUS
  <2>. QED
    BY <1>4, <2>1, <2>2, Zenon
<1>. QED
  BY <1>5

\* Times in order.
InOrder(q) ==
    /\ q \in Seq(Nat)
    /\ \A i, k \in 1..Len(q) : i <= k => q[i] <= q[k]

\* n is where the window that ends at "at" begins in q.
CutAt(q, at, n) ==
    /\ n \in 0..Len(q)
    /\ \A i \in 1..Len(q) : at - q[i] >= WINDOW <=> i <= n

LEMMA LenNat ==
  ASSUME NEW q \in Seq(Nat)
  PROVE  /\ Len(q) \in Nat
         /\ \A i \in 1..Len(q) : q[i] \in Nat
BY LenProperties

\* The times that are too old are a beginning of the queue.
LEMMA CutExists ==
  ASSUME NEW q, InOrder(q), NEW at \in Nat
  PROVE  \E n \in Nat : CutAt(q, at, n)
<1>. USE LimiterAssumption
<1>0. q \in Seq(Nat)
  BY DEF InOrder
<1>1. Len(q) \in Nat /\ \A i \in 1..Len(q) : q[i] \in Nat
  BY <1>0, LenNat
<1>. DEFINE S == {i \in 1..(Len(q) + 1) : i = Len(q) + 1 \/ at - q[i] < WINDOW}
<1>2. S \in SUBSET Nat /\ Len(q) + 1 \in S
  BY <1>1
<1>3. PICK m \in S : \A k \in S : m <= k
  BY <1>2, Least
<1>4. m \in 1..(Len(q) + 1)
  OBVIOUS
<1>5. ASSUME NEW i \in 1..Len(q)
      PROVE  at - q[i] >= WINDOW <=> i <= m - 1
  <2>1. CASE i < m
    <3>1. i \notin S
      BY <1>1, <1>3, <1>4, <2>1
    <3>. QED
      BY <1>1, <1>4, <2>1, <3>1
  <2>2. CASE m <= i
    <3>1. m \in 1..Len(q)
      BY <1>1, <1>4, <2>2
    <3>2. at - q[m] < WINDOW
      BY <1>1, <3>1
    <3>3. q[m] <= q[i]
      BY <2>2, <3>1 DEF InOrder
    <3>4. q[m] \in Nat /\ q[i] \in Nat
      BY <1>1, <3>1
    <3>. QED
      BY <1>1, <1>4, <2>2, <3>2, <3>3, <3>4
  <2>. QED
    BY <1>1, <1>4, <2>1, <2>2
<1>6. CutAt(q, at, m - 1)
  BY <1>1, <1>4, <1>5 DEF CutAt
<1>. QED
  BY <1>4, <1>1, <1>6

\* TooOld counts them, so it is where the window begins.
LEMMA CutIs ==
  ASSUME NEW q \in Seq(Nat), NEW at \in Nat, NEW n \in Nat, CutAt(q, at, n)
  PROVE  TooOld(q, at) = n
<1>1. Len(q) \in Nat
  BY LenNat
<1>2. {i \in 1..Len(q) : at - q[i] >= WINDOW} = 1..n
  BY <1>1 DEF CutAt
<1>3. Cardinality(1..n) = n
  BY FS_Interval
<1>. QED
  BY <1>2, <1>3 DEF TooOld

LEMMA CutTooOld ==
  ASSUME NEW q, InOrder(q), NEW at \in Nat
  PROVE  CutAt(q, at, TooOld(q, at)) /\ TooOld(q, at) \in Nat
BY CutExists, CutIs DEF InOrder

\* What a window sees is the end of the queue.
LEMMA RecentIs ==
  ASSUME NEW q, InOrder(q), NEW at \in Nat, NEW n \in Nat, CutAt(q, at, n)
  PROVE  /\ Recent(q, at) \in Seq(Nat)
         /\ Len(Recent(q, at)) = Len(q) - n
         /\ \A i \in 1..(Len(q) - n) :
               /\ Recent(q, at)[i] = q[i + n]
               /\ i + n \in 1..Len(q)
         /\ InOrder(Recent(q, at))
<1>0. q \in Seq(Nat)
  BY DEF InOrder
<1>1. Len(q) \in Nat /\ \A i \in 1..Len(q) : q[i] \in Nat
  BY <1>0, LenNat
<1>2. Recent(q, at) = SubSeq(q, n + 1, Len(q))
  BY <1>0, CutIs DEF Recent
<1>3. \A i \in (n + 1)..Len(q) : q[i] \in Nat
  BY <1>1
<1>4. n \in 0..Len(q)
  BY DEF CutAt
<1>. DEFINE r == SubSeq(q, n + 1, Len(q))
<1>5. /\ r \in Seq(Nat)
      /\ Len(r) = IF n + 1 <= Len(q) THEN Len(q) - (n + 1) + 1 ELSE 0
      /\ \A i \in 1..(Len(q) - (n + 1) + 1) : r[i] = q[(n + 1) + i - 1]
  BY <1>1, <1>3, SubSeqProperties
<1>. HIDE DEF r
<1>6. Len(r) = Len(q) - n
  BY <1>1, <1>4, <1>5
<1>7. \A i \in 1..(Len(q) - n) : r[i] = q[i + n] /\ i + n \in 1..Len(q)
  <2>. TAKE i \in 1..(Len(q) - n)
  <2>1. i \in 1..(Len(q) - (n + 1) + 1) /\ (n + 1) + i - 1 = i + n
    BY <1>1, <1>4
  <2>. QED
    BY <1>1, <1>4, <1>5, <2>1
<1>8. ASSUME NEW i \in 1..Len(r), NEW k \in 1..Len(r), i <= k
      PROVE  r[i] <= r[k]
  <2>1. i \in 1..(Len(q) - n) /\ k \in 1..(Len(q) - n)
    BY <1>6
  <2>2. i + n <= k + n
    BY <1>1, <1>4, <1>8, <2>1
  <2>. QED
    BY <1>7, <2>1, <2>2 DEF InOrder
<1>9. InOrder(r)
  BY <1>5, <1>8 DEF InOrder
<1>. QED
  BY <1>2, <1>5, <1>6, <1>7, <1>9 DEF r

\* A later window sees the same of the queue as of what an earlier one saw.
LEMMA RecentOfRecent ==
  ASSUME NEW q, InOrder(q), NEW a \in Nat, NEW b \in Nat, a <= b
  PROVE  Recent(Recent(q, a), b) = Recent(q, b)
<1>. USE LimiterAssumption
<1>. DEFINE n == TooOld(q, a)
            m == TooOld(q, b)
            r == Recent(q, a)
<1>1. n \in Nat /\ m \in Nat /\ CutAt(q, a, n) /\ CutAt(q, b, m)
  BY CutTooOld
<1>2. /\ r \in Seq(Nat) /\ Len(r) = Len(q) - n /\ InOrder(r)
      /\ \A i \in 1..(Len(q) - n) : r[i] = q[i + n] /\ i + n \in 1..Len(q)
  BY <1>1, RecentIs
<1>. HIDE DEF n, m, r
<1>3. Len(q) \in Nat /\ \A i \in 1..Len(q) : q[i] \in Nat
  BY LenNat DEF InOrder
<1>4. n \in 0..Len(q) /\ m \in 0..Len(q)
  BY <1>1 DEF CutAt
<1>5. n <= m
  <2>1. CASE n = 0
    BY <1>4, <2>1, <1>3
  <2>2. CASE n # 0
    <3>1. n \in 1..Len(q)
      BY <1>3, <1>4, <2>2
    <3>2. a - q[n] >= WINDOW
      BY <1>1, <1>3, <1>4, <3>1 DEF CutAt
    <3>3. q[n] \in Nat
      BY <1>3, <3>1
    <3>4. b - q[n] >= WINDOW
      BY <3>2, <3>3
    <3>. QED
      BY <1>1, <3>1, <3>4 DEF CutAt
  <2>. QED
    BY <2>1, <2>2
<1>6. CutAt(r, b, m - n) /\ m - n \in Nat
  <2>1. m - n \in 0..Len(r)
    BY <1>2, <1>3, <1>4, <1>5
  <2>2. ASSUME NEW i \in 1..Len(r)
        PROVE  b - r[i] >= WINDOW <=> i <= m - n
    <3>1. i \in 1..(Len(q) - n)
      BY <1>2
    <3>2. r[i] = q[i + n] /\ i + n \in 1..Len(q)
      BY <1>2, <3>1
    <3>3. b - q[i + n] >= WINDOW <=> i + n <= m
      BY <1>1, <3>2 DEF CutAt
    <3>. QED
      BY <1>3, <1>4, <3>1, <3>2, <3>3
  <2>. QED
    BY <1>3, <1>4, <2>1, <2>2 DEF CutAt
<1>. DEFINE s == Recent(r, b)
            t == Recent(q, b)
<1>7. /\ s \in Seq(Nat) /\ Len(s) = Len(r) - (m - n)
      /\ \A i \in 1..(Len(r) - (m - n)) : s[i] = r[i + (m - n)] /\ i + (m - n) \in 1..Len(r)
  BY <1>2, <1>6, RecentIs
<1>8. /\ t \in Seq(Nat) /\ Len(t) = Len(q) - m
      /\ \A i \in 1..(Len(q) - m) : t[i] = q[i + m]
  BY <1>1, RecentIs
<1>. HIDE DEF s, t
<1>9. Len(s) = Len(t)
  BY <1>2, <1>3, <1>4, <1>7, <1>8
<1>10. ASSUME NEW i \in 1..Len(s)
       PROVE  s[i] = t[i]
  <2>1. i \in 1..(Len(r) - (m - n)) /\ i \in 1..(Len(q) - m)
    BY <1>7, <1>8, <1>9
  <2>2. s[i] = r[i + (m - n)] /\ i + (m - n) \in 1..Len(r)
    BY <1>7, <2>1
  <2>3. r[i + (m - n)] = q[i + (m - n) + n]
    BY <1>2, <2>2
  <2>4. i + (m - n) + n = i + m
    BY <1>3, <1>4, <2>1
  <2>. QED
    BY <1>8, <2>1, <2>2, <2>3, <2>4
<1>11. s = t
  BY <1>7, <1>8, <1>9, <1>10, SeqEqual
<1>. QED
  BY <1>11 DEF s, t, r

\* A window that sees all of a queue still does when the time at which it ends
\* is added.
LEMMA RecentOfAppend ==
  ASSUME NEW q, InOrder(q), NEW at \in Nat, \A i \in 1..Len(q) : q[i] <= at
  PROVE  /\ InOrder(Append(Recent(q, at), at))
         /\ Len(Append(Recent(q, at), at)) = Len(Recent(q, at)) + 1
         /\ Recent(Append(Recent(q, at), at), at) = Append(Recent(q, at), at)
<1>. USE LimiterAssumption
<1>. DEFINE n == TooOld(q, at)
            p == Recent(q, at)
            r == Append(p, at)
<1>1. n \in Nat /\ CutAt(q, at, n)
  BY CutTooOld
<1>2. /\ p \in Seq(Nat) /\ Len(p) = Len(q) - n /\ InOrder(p)
      /\ \A i \in 1..(Len(q) - n) : p[i] = q[i + n] /\ i + n \in 1..Len(q)
  BY <1>1, RecentIs
<1>. HIDE DEF n, p
<1>3. /\ r \in Seq(Nat) /\ Len(r) = Len(p) + 1
      /\ \A i \in 1..Len(p) : r[i] = p[i]
      /\ r[Len(p) + 1] = at
  BY <1>2, AppendProperties
<1>. HIDE DEF r
<1>4. /\ Len(q) \in Nat /\ \A i \in 1..Len(q) : q[i] \in Nat
      /\ Len(p) \in Nat /\ \A i \in 1..Len(p) : p[i] \in Nat
  BY <1>2, LenNat DEF InOrder
<1>5. n \in 0..Len(q)
  BY <1>1 DEF CutAt
<1>6. \A i \in 1..Len(p) : p[i] <= at /\ ~(at - p[i] >= WINDOW)
  <2>. TAKE i \in 1..Len(p)
  <2>1. p[i] = q[i + n] /\ i + n \in 1..Len(q)
    BY <1>2
  <2>2. ~(i + n <= n)
    BY <1>4, <1>5
  <2>. QED
    BY <1>1, <2>1, <2>2 DEF CutAt
<1>7. \A i \in 1..Len(r) : i \in 1..Len(p) \/ i = Len(p) + 1
  BY <1>3, <1>4
<1>8. InOrder(r)
  <2>1. ASSUME NEW i \in 1..Len(r), NEW k \in 1..Len(r), i <= k
        PROVE  r[i] <= r[k]
    <3>1. CASE k \in 1..Len(p)
      <4>1. i \in 1..Len(p)
        BY <1>3, <1>4, <2>1, <3>1
      <4>. QED
        BY <1>2, <1>3, <2>1, <3>1, <4>1 DEF InOrder
    <3>2. CASE k = Len(p) + 1
      <4>1. CASE i \in 1..Len(p)
        BY <1>3, <1>6, <3>2, <4>1
      <4>2. CASE i = Len(p) + 1
        BY <1>3, <3>2, <4>2
      <4>. QED
        BY <1>7, <4>1, <4>2
    <3>. QED
      BY <1>7, <3>1, <3>2
  <2>. QED
    BY <1>3, <2>1 DEF InOrder
<1>9. CutAt(r, at, 0)
  <2>1. ASSUME NEW i \in 1..Len(r)
        PROVE  ~(at - r[i] >= WINDOW) /\ ~(i <= 0)
    <3>1. CASE i \in 1..Len(p)
      <4>1. r[i] = p[i] /\ ~(at - p[i] >= WINDOW)
        BY <1>3, <1>6, <3>1
      <4>. QED
        BY <4>1
    <3>2. CASE i = Len(p) + 1
      BY <1>3, <1>4, <3>2
    <3>. QED
      BY <1>7, <3>1, <3>2
  <2>. QED
    BY <1>3, <1>4, <2>1 DEF CutAt
<1>10. Recent(r, at) = r
  <2>1. TooOld(r, at) = 0
    BY <1>3, <1>9, CutIs
  <2>2. Recent(r, at) = SubSeq(r, 1, Len(r))
    BY <2>1 DEF Recent
  <2>. QED
    BY <1>3, <2>2, SubSeqFull
<1>. QED
  BY <1>3, <1>8, <1>10 DEF r, p

\* drain_old leaves what the window that ends now sees.
LEMMA DrainedIsRecent ==
  ASSUME NEW q, InOrder(q), now \in Nat
  PROVE  Drained(q) = Recent(q, now)
<1>. USE LimiterAssumption
<1>. DEFINE m == TooOld(q, now)
            n == OldPrefix(q)
            P(k) == /\ \A i \in 1..k : Expired(q[i])
                    /\ k < Len(q) => ~Expired(q[k + 1])
<1>1. m \in Nat /\ CutAt(q, now, m)
  BY CutTooOld
<1>2. Len(q) \in Nat /\ m \in 0..Len(q)
  BY <1>1, LenNat DEF InOrder, CutAt
<1>. HIDE DEF m
<1>3. P(m)
  <2>1. \A i \in 1..m : Expired(q[i])
    BY <1>1, <1>2 DEF CutAt, Expired
  <2>2. m < Len(q) => ~Expired(q[m + 1])
    BY <1>1, <1>2 DEF CutAt, Expired
  <2>. QED
    BY <2>1, <2>2
<1>4. n = CHOOSE k \in 0..Len(q) : P(k)
  BY DEF OldPrefix
<1>. HIDE DEF n, P
<1>5. n \in 0..Len(q) /\ P(n)
  BY <1>2, <1>3, <1>4
<1>6. n = m
  <2>1. ~(n < m)
    <3>1. SUFFICES ASSUME n < m PROVE FALSE
      OBVIOUS
    <3>2. n + 1 \in 1..Len(q) /\ n + 1 <= m /\ n < Len(q)
      BY <1>2, <1>5, <3>1
    <3>3. ~Expired(q[n + 1])
      BY <1>5, <3>2 DEF P
    <3>. QED
      BY <1>1, <3>2, <3>3 DEF CutAt, Expired
  <2>2. ~(m < n)
    <3>1. SUFFICES ASSUME m < n PROVE FALSE
      OBVIOUS
    <3>2. n \in 1..Len(q) /\ ~(n <= m) /\ n \in 1..n
      BY <1>2, <1>5, <3>1
    <3>3. Expired(q[n])
      BY <1>5, <3>2 DEF P
    <3>. QED
      BY <1>1, <3>2, <3>3 DEF CutAt, Expired
  <2>. QED
    BY <1>2, <1>5, <2>1, <2>2
<1>. QED
  BY <1>6 DEF n, m, Drained, Recent

\* If the first time is still in the window, all of them are.
LEMMA RecentOfYoung ==
  ASSUME NEW q, InOrder(q), NEW at \in Nat, Len(Recent(q, at)) = Len(q)
  PROVE  Recent(q, at) = q
<1>1. TooOld(q, at) \in Nat /\ CutAt(q, at, TooOld(q, at))
  BY CutTooOld
<1>2. q \in Seq(Nat) /\ Len(q) \in Nat
  BY LenNat DEF InOrder
<1>3. Len(Recent(q, at)) = Len(q) - TooOld(q, at)
  BY <1>1, RecentIs
<1>4. TooOld(q, at) = 0
  BY <1>1, <1>2, <1>3
<1>5. Recent(q, at) = SubSeq(q, 1, Len(q))
  BY <1>4 DEF Recent
<1>. QED
  BY <1>2, <1>5, SubSeqFull

LEMMA RecentShorter ==
  ASSUME NEW q, InOrder(q), NEW at \in Nat
  PROVE  /\ Len(Recent(q, at)) \in Nat
         /\ Len(q) \in Nat
         /\ Len(Recent(q, at)) <= Len(q)
         /\ InOrder(Recent(q, at))
<1>1. TooOld(q, at) \in Nat /\ CutAt(q, at, TooOld(q, at))
  BY CutTooOld
<1>2. q \in Seq(Nat) /\ Len(q) \in Nat
  BY LenNat DEF InOrder
<1>3. Len(Recent(q, at)) = Len(q) - TooOld(q, at) /\ InOrder(Recent(q, at))
  BY <1>1, RecentIs
<1>. QED
  BY <1>1, <1>2, <1>3 DEF CutAt

-----------------------------------------------------------------------------
(* The invariant.                                                           *)

LEMMA SeqRange ==
  ASSUME NEW S, NEW T, NEW q \in Seq(S), \A i \in 1..Len(q) : q[i] \in T
  PROVE  q \in Seq(T)
BY LenProperties

\* What the handlers find in the state.
LEMMA Windows ==
  ASSUME TypeOK, CountsEveryGuess, NEW ip \in Ip
  PROVE  /\ now \in Nat /\ now <= MaxTime /\ MaxTime \in Nat
         /\ InOrder(failures[ip]) /\ InOrder(guesses[ip])
         /\ \A i \in 1..Len(failures[ip]) : failures[ip][i] <= now
         /\ Queue(guesses[ip])
         /\ Drained(failures[ip]) = guesses[ip]
         /\ Recent(guesses[ip], now) = guesses[ip]
         /\ Len(guesses[ip]) \in Nat /\ Len(failures[ip]) \in Nat
         /\ Len(guesses[ip]) <= Len(failures[ip])
         /\ Len(guesses[ip]) = Len(failures[ip]) => guesses[ip] = failures[ip]
<1>. USE LimiterAssumption
<1>. DEFINE q == failures[ip]
            g == guesses[ip]
            n == TooOld(q, now)
<1>1. now \in Nat /\ now <= MaxTime /\ MaxTime \in Nat
  BY DEF TypeOK
<1>2. Queue(q) /\ q \in Seq(0..MaxTime)
  BY DEF TypeOK
<1>3. q \in Seq(Nat)
  <2>1. \A i \in 1..Len(q) : q[i] \in Nat
    BY <1>1, <1>2, LenProperties
  <2>. QED
    BY <1>2, <2>1, SeqRange
<1>4. InOrder(q) /\ \A i \in 1..Len(q) : q[i] <= now
  BY <1>2, <1>3 DEF InOrder, Queue
<1>5. g = Recent(q, now)
  BY DEF CountsEveryGuess
<1>. HIDE DEF q, g
<1>6. Drained(q) = g
  BY <1>1, <1>4, <1>5, DrainedIsRecent
<1>7. Recent(g, now) = g
  BY <1>1, <1>4, <1>5, RecentOfRecent
<1>8. /\ Len(g) \in Nat /\ Len(q) \in Nat /\ Len(g) <= Len(q)
      /\ InOrder(g)
  BY <1>1, <1>4, <1>5, RecentShorter
<1>9. Len(g) = Len(q) => g = q
  BY <1>1, <1>4, <1>5, RecentOfYoung
<1>10. Queue(g)
  <2>1. n \in Nat /\ CutAt(q, now, n)
    BY <1>1, <1>4, CutTooOld
  <2>. HIDE DEF n
  <2>2. /\ Len(g) = Len(q) - n
        /\ \A i \in 1..(Len(q) - n) : g[i] = q[i + n] /\ i + n \in 1..Len(q)
    BY <1>1, <1>4, <1>5, <2>1, RecentIs
  <2>3. \A i \in 1..Len(g) : g[i] <= now /\ g[i] \in 0..MaxTime
    <3>. TAKE i \in 1..Len(g)
    <3>1. g[i] = q[i + n] /\ i + n \in 1..Len(q)
      BY <2>2
    <3>2. q[i + n] <= now /\ q[i + n] \in 0..MaxTime
      BY <1>2, <1>4, <3>1, LenProperties
    <3>. QED
      BY <3>1, <3>2
  <2>4. g \in Seq(Nat)
    BY <1>8 DEF InOrder
  <2>5. g \in Seq(0..MaxTime)
    BY <2>3, <2>4, SeqRange
  <2>. QED
    BY <1>8, <2>3, <2>5 DEF Queue, InOrder
<1>. QED
  BY <1>1, <1>4, <1>6, <1>7, <1>8, <1>9, <1>10 DEF q, g

LEMMA WrongFinite ==
  ASSUME NEW ip
  PROVE  /\ IsFiniteSet(Wrong(ip)) /\ Cardinality(Wrong(ip)) \in Nat
         /\ Cardinality(Wrong(ip)) <= Cardinality(Thread)
         /\ Cardinality(Thread) \in Nat
<1>1. IsFiniteSet(Thread) /\ Wrong(ip) \in SUBSET Thread
  BY LimiterAssumption DEF Wrong
<1>. QED
  BY <1>1, FS_Subset, FS_CardinalityType

LEMMA InitLimiter == Init => LimiterInvariant
<1>. SUFFICES ASSUME Init PROVE LimiterInvariant
  OBVIOUS
<1>. USE LimiterAssumption DEF Init
<1>1. \A S : <<>> \in Seq(S) /\ Len(<<>>) = 0
  BY EmptySeq
<1>2. TypeOK
  <2>1. \A ip \in Ip : Queue(<<>>)
    BY <1>1 DEF Queue
  <2>. QED
    BY <1>1, <2>1 DEF TypeOK
<1>3. CountsEveryGuess
  <2>1. InOrder(<<>>)
    BY <1>1 DEF InOrder
  <2>2. CutAt(<<>>, 0, 0)
    BY <1>1 DEF CutAt
  <2>3. TooOld(<<>>, 0) = 0
    BY <1>1, <2>2, CutIs
  <2>4. Recent(<<>>, 0) = <<>>
    BY <1>1, <2>3, SubSeqEmpty DEF Recent
  <2>. QED
    BY <2>4 DEF CountsEveryGuess
<1>4. RoomForWrong
  <2>. SUFFICES ASSUME NEW ip \in Ip
                PROVE  Len(guesses[ip]) + Cardinality(Wrong(ip))
                          <= MAX_FAILURES - 1 + Cardinality(Thread)
    BY DEF RoomForWrong
  <2>1. Len(guesses[ip]) = 0
    BY <1>1
  <2>. QED
    BY <2>1, WrongFinite
<1>5. PromiseKept
  BY DEF PromiseKept
<1>. QED
  BY <1>2, <1>3, <1>4, <1>5 DEF LimiterInvariant

\* What as_secs() cuts off is less than a second.
LEMMA SecondsCut ==
  ASSUME NEW left \in Nat
  PROVE  AsSecs(left) \in Nat /\ left <= AsSecs(left) + (Second - 1)
<1>1. Second \in Nat /\ Second > 0
  BY LimiterAssumption
<1>2. left % Second \in 0..(Second - 1) /\ left % Second <= left
  BY <1>1
<1>. QED
  BY <1>1, <1>2 DEF AsSecs

LEMMA CheckStep ==
  ASSUME LimiterInvariant, NEW t \in Thread, Check(t)
  PROVE  LimiterInvariant'
<1>. USE LimiterAssumption
<1>0. TypeOK /\ CountsEveryGuess /\ RoomForWrong /\ PromiseKept
  BY DEF LimiterInvariant
<1>1. PICK r \in Requests : Admit(t, r)
  BY DEF Check
<1>2. req[t] = NoReq
  BY DEF Check
<1>3. r.ip \in Ip
  BY DEF Requests
<1>. DEFINE g == guesses[r.ip]
<1>4. /\ now \in Nat /\ MaxTime \in Nat /\ Queue(g)
      /\ Drained(failures[r.ip]) = g /\ Recent(g, now) = g
      /\ Len(g) \in Nat /\ Len(failures[r.ip]) \in Nat
      /\ Len(g) <= Len(failures[r.ip])
  BY <1>0, <1>3, Windows
<1>. HIDE DEF g
<1>5. /\ failures' = [failures EXCEPT ![r.ip] = g]
      /\ now' = now /\ guesses' = guesses
  BY <1>1, <1>4 DEF Admit
<1>6. /\ failures'[r.ip] = g
      /\ \A ip \in Ip \ {r.ip} : failures'[ip] = failures[ip]
      /\ failures' \in [Ip -> Seq(0..MaxTime)]
  <2>1. failures \in [Ip -> Seq(0..MaxTime)] /\ g \in Seq(0..MaxTime)
    BY <1>0, <1>4 DEF TypeOK, Queue
  <2>. QED
    BY <1>3, <1>5, <2>1
<1>7. CASE /\ ~Locked(g)
           /\ req' = [req EXCEPT ![t] = r]
           /\ promised' = promised
  <2>1. TypeOK'
    <3>1. \A ip \in Ip : Queue(failures[ip])'
      BY <1>0, <1>4, <1>5, <1>6 DEF TypeOK, Queue
    <3>2. req' \in [Thread -> Requests \union {NoReq}]
      BY <1>0, <1>7 DEF TypeOK
    <3>. QED
      BY <1>0, <1>5, <1>6, <1>7, <3>1, <3>2 DEF TypeOK
  <2>2. CountsEveryGuess'
    BY <1>0, <1>4, <1>5, <1>6 DEF CountsEveryGuess, g
  <2>3. RoomForWrong'
    <3>. SUFFICES ASSUME NEW ip \in Ip
                  PROVE  Len(guesses[ip]) + Cardinality(Wrong(ip)')
                            <= MAX_FAILURES - 1 + Cardinality(Thread)
      BY <1>5 DEF RoomForWrong
    <3>1. CASE ip = r.ip
      <4>1. Len(guesses[ip]) <= MAX_FAILURES - 1
        BY <1>4, <1>7, <3>1 DEF Locked, g
      <4>2. Wrong(ip)' \in SUBSET Thread
        BY DEF Wrong
      <4>3. /\ Cardinality(Wrong(ip)') <= Cardinality(Thread)
            /\ Cardinality(Wrong(ip)') \in Nat /\ Cardinality(Thread) \in Nat
        BY <4>2, FS_Subset, FS_CardinalityType
      <4>. QED
        BY <1>4, <3>1, <4>1, <4>3 DEF g
    <3>2. CASE ip # r.ip
      <4>1. Wrong(ip)' = Wrong(ip)
        BY <1>0, <1>2, <1>7, <3>2 DEF Wrong, TypeOK, NoReq
      <4>. QED
        BY <1>0, <4>1 DEF RoomForWrong
    <3>. QED
      BY <3>1, <3>2
  <2>4. PromiseKept'
    <3>. SUFFICES ASSUME NEW ip \in Ip, promised[ip] # None
                  PROVE  /\ Len(failures'[ip]) <= MAX_FAILURES
                         /\ Len(failures'[ip]) = MAX_FAILURES
                              => failures'[ip][1] + WINDOW <= promised[ip] + (Second - 1)
      BY <1>7 DEF PromiseKept
    <3>1. CASE ip = r.ip
      <4>1. Len(g) < MAX_FAILURES
        BY <1>4, <1>7 DEF Locked
      <4>. QED
        BY <1>4, <1>6, <3>1, <4>1
    <3>2. CASE ip # r.ip
      BY <1>0, <1>6, <3>2 DEF PromiseKept
    <3>. QED
      BY <3>1, <3>2
  <2>. QED
    BY <2>1, <2>2, <2>3, <2>4 DEF LimiterInvariant
<1>8. CASE /\ Locked(g)
           /\ promised' = [promised EXCEPT ![r.ip] =
                             IF Len(g) = MAX_FAILURES
                             THEN now + AsSecs(Remaining(g)) ELSE None]
           /\ req' = req
  <2>1. /\ Len(g) >= 1 /\ g[1] \in Nat /\ Head(g) = g[1]
        /\ g[1] <= now
    <3>1. Len(g) >= 1
      BY <1>4, <1>8 DEF Locked
    <3>2. g \in Seq(0..MaxTime) /\ 1 \in 1..Len(g)
      BY <1>4, <3>1 DEF Queue
    <3>3. g[1] \in 0..MaxTime
      BY <3>2, ElementOfSeq
    <3>. QED
      BY <1>4, <3>1, <3>2, <3>3 DEF Queue
  <2>. DEFINE told == AsSecs(Remaining(g))
  <2>2. told \in Nat /\ g[1] + WINDOW <= now + told + (Second - 1)
    <3>1. Remaining(g) \in Nat /\ g[1] + WINDOW <= now + Remaining(g)
      BY <1>4, <2>1 DEF Remaining
    <3>2. /\ told \in Nat /\ Remaining(g) <= told + (Second - 1)
      BY <3>1, SecondsCut
    <3>. QED
      BY <1>4, <2>1, <3>1, <3>2
  <2>. HIDE DEF told
  <2>. DEFINE p == IF Len(g) = MAX_FAILURES THEN now + told ELSE None
  <2>3. p \in Nat \union {None}
    BY <1>4, <2>2
  <2>4. promised' = [promised EXCEPT ![r.ip] = p]
    BY <1>8 DEF told
  <2>5. p # None => Len(g) = MAX_FAILURES /\ p = now + told
    OBVIOUS
  <2>. HIDE DEF p
  <2>6. /\ promised'[r.ip] = p
        /\ \A ip \in Ip \ {r.ip} : promised'[ip] = promised[ip]
        /\ promised' \in [Ip -> Nat \union {None}]
    BY <1>0, <1>3, <2>3, <2>4 DEF TypeOK
  <2>7. TypeOK'
    <3>1. \A ip \in Ip : Queue(failures[ip])'
      BY <1>0, <1>4, <1>5, <1>6 DEF TypeOK, Queue
    <3>. QED
      BY <1>0, <1>5, <1>6, <1>8, <2>6, <3>1 DEF TypeOK
  <2>8. CountsEveryGuess'
    BY <1>0, <1>4, <1>5, <1>6 DEF CountsEveryGuess, g
  <2>9. RoomForWrong'
    BY <1>0, <1>5, <1>8 DEF RoomForWrong, Wrong
  <2>10. PromiseKept'
    <3>. SUFFICES ASSUME NEW ip \in Ip, promised'[ip] # None
                  PROVE  /\ Len(failures'[ip]) <= MAX_FAILURES
                         /\ Len(failures'[ip]) = MAX_FAILURES
                              => failures'[ip][1] + WINDOW <= promised'[ip] + (Second - 1)
      BY DEF PromiseKept
    <3>1. CASE ip = r.ip
      BY <1>4, <1>6, <2>2, <2>5, <2>6, <3>1
    <3>2. CASE ip # r.ip
      BY <1>0, <1>6, <2>6, <3>2 DEF PromiseKept
    <3>. QED
      BY <3>1, <3>2
  <2>. QED
    BY <2>7, <2>8, <2>9, <2>10 DEF LimiterInvariant
<1>. QED
  BY <1>1, <1>4, <1>7, <1>8 DEF Admit

LEMMA RecordFailureStep ==
  ASSUME LimiterInvariant, NEW t \in Thread, RecordFailure(t)
  PROVE  LimiterInvariant'
<1>. USE LimiterAssumption
<1>0. TypeOK /\ CountsEveryGuess /\ RoomForWrong /\ PromiseKept
  BY DEF LimiterInvariant
<1>. DEFINE a == req[t].ip
            g == guesses[a]
            h == Append(g, now)
<1>1. req[t].cred = "wrong" /\ a \in Ip
  BY <1>0 DEF RecordFailure, TypeOK, Requests, NoReq
<1>2. /\ now \in Nat /\ now <= MaxTime /\ MaxTime \in Nat
      /\ InOrder(failures[a])
      /\ \A i \in 1..Len(failures[a]) : failures[a][i] <= now
      /\ Queue(g) /\ Drained(failures[a]) = g /\ Len(g) \in Nat
  BY <1>0, <1>1, Windows
<1>3. g = Recent(failures[a], now)
  BY <1>0, <1>1 DEF CountsEveryGuess
<1>4. InOrder(h) /\ Len(h) = Len(g) + 1 /\ Recent(h, now) = h
  BY <1>2, <1>3, RecentOfAppend
<1>5. Queue(h) /\ h \in Seq(0..MaxTime)
  <2>1. g \in Seq(0..MaxTime) /\ now \in 0..MaxTime
    BY <1>2 DEF Queue
  <2>2. /\ h \in Seq(0..MaxTime)
        /\ \A i \in 1..Len(g) : h[i] = g[i]
        /\ h[Len(g) + 1] = now
    BY <2>1, AppendProperties
  <2>3. \A i \in 1..Len(h) : h[i] <= now
    <3>. TAKE i \in 1..Len(h)
    <3>1. CASE i \in 1..Len(g)
      BY <1>2, <2>2, <3>1 DEF Queue
    <3>2. CASE i = Len(g) + 1
      BY <1>2, <2>2, <3>2
    <3>. QED
      BY <1>2, <1>4, <3>1, <3>2
  <2>. QED
    BY <1>4, <2>2, <2>3 DEF Queue, InOrder
<1>. HIDE DEF a, h
<1>6. /\ failures' = [failures EXCEPT ![a] = h]
      /\ guesses' = [guesses EXCEPT ![a] = h]
      /\ promised' = [promised EXCEPT ![a] = None]
      /\ req' = [req EXCEPT ![t] = NoReq]
      /\ now' = now
  <2>1. /\ failures' = [failures EXCEPT ![a] = Append(Drained(@), now)]
        /\ guesses' = [guesses EXCEPT ![a] = Append(@, now)]
        /\ promised' = [promised EXCEPT ![a] = None]
        /\ req' = [req EXCEPT ![t] = NoReq]
        /\ now' = now
    BY DEF RecordFailure, a
  <2>. QED
    BY <1>0, <1>1, <1>2, <2>1 DEF TypeOK, h
<1>7. /\ failures'[a] = h /\ guesses'[a] = h /\ promised'[a] = None
      /\ \A ip \in Ip \ {a} : /\ failures'[ip] = failures[ip]
                              /\ guesses'[ip] = guesses[ip]
                              /\ promised'[ip] = promised[ip]
      /\ failures' \in [Ip -> Seq(0..MaxTime)]
      /\ guesses' \in [Ip -> Seq(0..MaxTime)]
      /\ promised' \in [Ip -> Nat \union {None}]
      /\ req' \in [Thread -> Requests \union {NoReq}]
  BY <1>0, <1>1, <1>5, <1>6 DEF TypeOK
<1>8. TypeOK'
  <2>1. \A ip \in Ip : Queue(failures[ip])'
    BY <1>0, <1>5, <1>6, <1>7 DEF TypeOK, Queue
  <2>. QED
    BY <1>0, <1>6, <1>7, <2>1 DEF TypeOK
<1>9. CountsEveryGuess'
  BY <1>0, <1>4, <1>6, <1>7 DEF CountsEveryGuess
<1>10. RoomForWrong'
  <2>. SUFFICES ASSUME NEW ip \in Ip
                PROVE  Len(guesses'[ip]) + Cardinality(Wrong(ip)')
                          <= MAX_FAILURES - 1 + Cardinality(Thread)
    BY DEF RoomForWrong
  <2>0. Wrong(ip)' = Wrong(ip) \ {t}
    BY <1>0, <1>6 DEF Wrong, TypeOK, NoReq
  <2>1. CASE ip = a
    <3>1. t \in Wrong(ip)
      BY <1>1, <2>1 DEF Wrong, a
    <3>2. Cardinality(Wrong(ip)') = Cardinality(Wrong(ip)) - 1
      BY <2>0, <3>1, WrongFinite, FS_RemoveElement
    <3>3. Len(guesses[ip]) + Cardinality(Wrong(ip))
                <= MAX_FAILURES - 1 + Cardinality(Thread)
      BY <1>0 DEF RoomForWrong
    <3>4. Len(guesses'[ip]) = Len(guesses[ip]) + 1 /\ Len(guesses[ip]) \in Nat
      BY <1>2, <1>4, <1>7, <2>1
    <3>. QED
      BY <3>2, <3>3, <3>4, WrongFinite
  <2>2. CASE ip # a
    <3>1. t \notin Wrong(ip)
      BY <2>2 DEF Wrong, a
    <3>2. Wrong(ip)' = Wrong(ip)
      BY <2>0, <3>1
    <3>. QED
      BY <1>0, <1>7, <2>2, <3>2 DEF RoomForWrong
  <2>. QED
    BY <2>1, <2>2
<1>11. PromiseKept'
  BY <1>0, <1>7 DEF PromiseKept
<1>. QED
  BY <1>8, <1>9, <1>10, <1>11 DEF LimiterInvariant

LEMMA RecordSuccessStep ==
  ASSUME LimiterInvariant, NEW t \in Thread, RecordSuccess(t)
  PROVE  LimiterInvariant'
<1>. USE LimiterAssumption
<1>0. TypeOK /\ CountsEveryGuess /\ RoomForWrong /\ PromiseKept
  BY DEF LimiterInvariant
<1>. DEFINE a == req[t].ip
<1>1. req[t].cred = "right" /\ a \in Ip
  BY <1>0 DEF RecordSuccess, TypeOK, Requests, NoReq
<1>2. \A S : <<>> \in Seq(S) /\ Len(<<>>) = 0
  BY EmptySeq
<1>. HIDE DEF a
<1>3. /\ failures' = [failures EXCEPT ![a] = <<>>]
      /\ guesses' = [guesses EXCEPT ![a] = <<>>]
      /\ promised' = promised
      /\ req' = [req EXCEPT ![t] = NoReq]
      /\ now' = now
  BY DEF RecordSuccess, a
<1>4. /\ failures'[a] = <<>> /\ guesses'[a] = <<>>
      /\ \A ip \in Ip \ {a} : /\ failures'[ip] = failures[ip]
                              /\ guesses'[ip] = guesses[ip]
      /\ failures' \in [Ip -> Seq(0..MaxTime)]
      /\ guesses' \in [Ip -> Seq(0..MaxTime)]
      /\ req' \in [Thread -> Requests \union {NoReq}]
  BY <1>0, <1>1, <1>2, <1>3 DEF TypeOK
<1>5. now \in Nat
  BY <1>0 DEF TypeOK
<1>6. TypeOK'
  <2>1. Queue(<<>>)
    BY <1>2 DEF Queue
  <2>2. \A ip \in Ip : Queue(failures[ip])'
    BY <1>0, <1>3, <1>4, <2>1 DEF TypeOK, Queue
  <2>. QED
    BY <1>0, <1>3, <1>4, <2>2 DEF TypeOK
<1>7. CountsEveryGuess'
  <2>1. InOrder(<<>>)
    BY <1>2 DEF InOrder
  <2>2. CutAt(<<>>, now, 0)
    BY <1>2 DEF CutAt
  <2>3. TooOld(<<>>, now) = 0
    BY <1>2, <1>5, <2>2, CutIs
  <2>4. Recent(<<>>, now) = <<>>
    BY <1>2, <2>3, SubSeqEmpty DEF Recent
  <2>. QED
    BY <1>0, <1>3, <1>4, <2>4 DEF CountsEveryGuess
<1>8. RoomForWrong'
  <2>. SUFFICES ASSUME NEW ip \in Ip
                PROVE  Len(guesses'[ip]) + Cardinality(Wrong(ip)')
                          <= MAX_FAILURES - 1 + Cardinality(Thread)
    BY DEF RoomForWrong
  <2>1. Wrong(ip)' = Wrong(ip)
    BY <1>0, <1>1, <1>3 DEF Wrong, TypeOK, NoReq
  <2>2. CASE ip = a
    BY <1>2, <1>4, <2>1, <2>2, WrongFinite
  <2>3. CASE ip # a
    BY <1>0, <1>4, <2>1, <2>3 DEF RoomForWrong
  <2>. QED
    BY <2>2, <2>3
<1>9. PromiseKept'
  <2>. SUFFICES ASSUME NEW ip \in Ip, promised[ip] # None
                PROVE  /\ Len(failures'[ip]) <= MAX_FAILURES
                       /\ Len(failures'[ip]) = MAX_FAILURES
                            => failures'[ip][1] + WINDOW <= promised[ip] + (Second - 1)
    BY <1>3 DEF PromiseKept
  <2>1. CASE ip = a
    <3>1. Len(failures'[ip]) = 0
      BY <1>2, <1>4, <2>1
    <3>. QED
      BY <3>1
  <2>2. CASE ip # a
    BY <1>0, <1>4, <2>2 DEF PromiseKept
  <2>. QED
    BY <2>1, <2>2
<1>. QED
  BY <1>6, <1>7, <1>8, <1>9 DEF LimiterInvariant

LEMMA ApiPassesStep ==
  ASSUME LimiterInvariant, NEW t \in Thread, ApiPasses(t)
  PROVE  LimiterInvariant'
<1>0. TypeOK /\ CountsEveryGuess /\ RoomForWrong /\ PromiseKept
  BY DEF LimiterInvariant
<1>1. /\ now' = now /\ failures' = failures /\ guesses' = guesses
      /\ promised' = promised /\ req' = [req EXCEPT ![t] = NoReq]
      /\ req[t].cred # "wrong"
  BY DEF ApiPasses
<1>2. TypeOK'
  <2>1. \A ip \in Ip : Queue(failures[ip])'
    BY <1>0, <1>1 DEF TypeOK, Queue
  <2>. QED
    BY <1>0, <1>1, <2>1 DEF TypeOK
<1>3. CountsEveryGuess'
  BY <1>0, <1>1 DEF CountsEveryGuess
<1>4. RoomForWrong'
  <2>. SUFFICES ASSUME NEW ip \in Ip
                PROVE  Wrong(ip)' = Wrong(ip)
    BY <1>0, <1>1 DEF RoomForWrong
  <2>. QED
    BY <1>0, <1>1 DEF Wrong, TypeOK, NoReq
<1>5. PromiseKept'
  BY <1>0, <1>1 DEF PromiseKept
<1>. QED
  BY <1>2, <1>3, <1>4, <1>5 DEF LimiterInvariant

LEMMA TickStep ==
  ASSUME LimiterInvariant, Tick
  PROVE  LimiterInvariant'
<1>. USE LimiterAssumption
<1>0. TypeOK /\ CountsEveryGuess /\ RoomForWrong /\ PromiseKept
  BY DEF LimiterInvariant
<1>1. /\ now' = now + 1 /\ now < MaxTime /\ now \in Nat
      /\ failures' = failures /\ promised' = promised /\ req' = req
      /\ guesses' = [ip \in Ip |-> Recent(guesses[ip], now + 1)]
  BY <1>0 DEF Tick, TypeOK
<1>2. ASSUME NEW ip \in Ip
      PROVE  /\ guesses'[ip] = Recent(failures[ip], now + 1)
             /\ Len(guesses'[ip]) <= Len(guesses[ip])
             /\ Len(guesses'[ip]) \in Nat /\ Len(guesses[ip]) \in Nat
             /\ guesses'[ip] \in Seq(0..MaxTime)
  <2>1. InOrder(failures[ip]) /\ InOrder(guesses[ip]) /\ Queue(guesses[ip])
    BY <1>0, Windows
  <2>2. guesses[ip] = Recent(failures[ip], now)
    BY <1>0 DEF CountsEveryGuess
  <2>3. guesses'[ip] = Recent(guesses[ip], now + 1)
    BY <1>1
  <2>4. guesses'[ip] = Recent(failures[ip], now + 1)
    BY <1>1, <2>1, <2>2, <2>3, RecentOfRecent
  <2>5. /\ Len(guesses'[ip]) <= Len(guesses[ip])
        /\ Len(guesses'[ip]) \in Nat /\ Len(guesses[ip]) \in Nat
    BY <1>1, <2>1, <2>3, RecentShorter
  <2>6. guesses'[ip] \in Seq(0..MaxTime)
    <3>. DEFINE g == guesses[ip]
                n == TooOld(g, now + 1)
    <3>0. now + 1 \in Nat /\ InOrder(g)
      BY <1>1, <2>1
    <3>1. n \in Nat /\ CutAt(g, now + 1, n)
      BY <3>0, CutTooOld
    <3>. HIDE DEF n
    <3>2. /\ Recent(g, now + 1) \in Seq(Nat)
          /\ Len(Recent(g, now + 1)) = Len(g) - n
          /\ \A i \in 1..(Len(g) - n) :
                Recent(g, now + 1)[i] = g[i + n] /\ i + n \in 1..Len(g)
      BY <3>0, <3>1, RecentIs
    <3>3. \A i \in 1..Len(g) : g[i] \in 0..MaxTime
      BY <2>1, LenProperties DEF Queue
    <3>4. \A i \in 1..Len(Recent(g, now + 1)) :
             Recent(g, now + 1)[i] \in 0..MaxTime
      BY <3>2, <3>3
    <3>5. Recent(g, now + 1) \in Seq(0..MaxTime)
      BY <3>2, <3>4, SeqRange
    <3>. QED
      BY <2>3, <3>5
  <2>. QED
    BY <2>4, <2>5, <2>6
<1>3. TypeOK'
  <2>1. now' \in 0..MaxTime
    BY <1>1
  <2>2. \A ip \in Ip : Queue(failures[ip])'
    <3>. SUFFICES ASSUME NEW ip \in Ip PROVE Queue(failures[ip])'
      BY <1>1
    <3>1. /\ \A i \in 1..Len(failures[ip]) : failures[ip][i] <= now
          /\ \A i \in 1..Len(failures[ip]) : failures[ip][i] \in Nat
      BY <1>0, Windows, LenNat DEF InOrder
    <3>2. \A i \in 1..Len(failures[ip]) : failures[ip][i] <= now + 1
      BY <1>1, <3>1
    <3>. QED
      BY <1>0, <1>1, <3>2 DEF TypeOK, Queue
  <2>3. guesses' \in [Ip -> Seq(0..MaxTime)]
    BY <1>1, <1>2
  <2>. QED
    BY <1>0, <1>1, <2>1, <2>2, <2>3 DEF TypeOK
<1>4. CountsEveryGuess'
  BY <1>1, <1>2 DEF CountsEveryGuess
<1>5. RoomForWrong'
  <2>. SUFFICES ASSUME NEW ip \in Ip
                PROVE  Len(guesses'[ip]) + Cardinality(Wrong(ip)')
                          <= MAX_FAILURES - 1 + Cardinality(Thread)
    BY DEF RoomForWrong
  <2>1. Wrong(ip)' = Wrong(ip)
    BY <1>1 DEF Wrong
  <2>2. Len(guesses[ip]) + Cardinality(Wrong(ip))
              <= MAX_FAILURES - 1 + Cardinality(Thread)
    BY <1>0 DEF RoomForWrong
  <2>. QED
    BY <1>2, <2>1, <2>2, WrongFinite
<1>6. PromiseKept'
  BY <1>0, <1>1 DEF PromiseKept
<1>. QED
  BY <1>3, <1>4, <1>5, <1>6 DEF LimiterInvariant

LEMMA LimiterStep == LimiterInvariant /\ [Next]_vars => LimiterInvariant'
<1>. SUFFICES ASSUME LimiterInvariant, [Next]_vars
              PROVE  LimiterInvariant'
  OBVIOUS
<1>1. CASE Tick
  BY <1>1, TickStep
<1>2. ASSUME NEW t \in Thread, Check(t)
      PROVE  LimiterInvariant'
  BY <1>2, CheckStep
<1>3. ASSUME NEW t \in Thread, Judge(t)
      PROVE  LimiterInvariant'
  BY <1>3, RecordFailureStep, RecordSuccessStep, ApiPassesStep DEF Judge
<1>4. CASE UNCHANGED vars
  BY <1>4 DEF vars, LimiterInvariant, TypeOK, Queue, CountsEveryGuess,
              RoomForWrong, Wrong, PromiseKept
<1>. QED
  BY <1>1, <1>2, <1>3, <1>4 DEF Next

\* However logins and API requests of any number of threads, addresses and
\* ticks overlap, each queue stays in order, counts what was judged in its
\* window, leaves room for the guesses in progress and keeps the promise of
\* the last 429.
THEOREM LimiterAlways == Spec => []LimiterInvariant
BY InitLimiter, LimiterStep, PTL DEF Spec

\* No window sees more wrong keys judged than MAX_FAILURES - 1 and one for
\* each request that may be in progress.
THEOREM GuessesBounded == Spec => []GuessBound
<1>1. LimiterInvariant => GuessBound
  <2>. SUFFICES ASSUME LimiterInvariant, NEW ip \in Ip
                PROVE  Len(guesses[ip]) <= MAX_FAILURES - 1 + Cardinality(Thread)
    BY DEF GuessBound
  <2>1. Len(guesses[ip]) \in Nat
    BY Windows DEF LimiterInvariant
  <2>2. Len(guesses[ip]) + Cardinality(Wrong(ip))
            <= MAX_FAILURES - 1 + Cardinality(Thread)
    BY DEF LimiterInvariant, RoomForWrong
  <2>. QED
    BY <2>1, <2>2, WrongFinite, LimiterAssumption
<1>. QED
  BY <1>1, LimiterAlways, PTL

\* What drain_old leaves of the queue is every wrong key judged in the window
\* that ends now, since the last login.
THEOREM EveryGuessCounts == Spec => []CountsEveryGuess
<1>1. LimiterInvariant => CountsEveryGuess
  BY DEF LimiterInvariant
<1>. QED
  BY <1>1, LimiterAlways, PTL

\* An address that comes back when the 429 told it to, and the second that is
\* cut off there has passed as well, is not locked out any more.
THEOREM LockoutsEnd == Spec => []LockoutEnds
<1>1. LimiterInvariant => LockoutEnds
  <2>. SUFFICES ASSUME LimiterInvariant, NEW ip \in Ip,
                       promised[ip] # None,
                       now >= promised[ip] + (Second - 1)
                PROVE  ~Locked(Drained(failures[ip]))
    BY DEF LockoutEnds
  <2>. USE LimiterAssumption
  <2>. DEFINE q == failures[ip]
              g == guesses[ip]
  <2>0. TypeOK /\ CountsEveryGuess /\ PromiseKept
    BY DEF LimiterInvariant
  <2>1. /\ now \in Nat /\ Drained(q) = g
        /\ InOrder(q) /\ Len(g) \in Nat /\ Len(q) \in Nat /\ Len(g) <= Len(q)
        /\ g = Recent(q, now)
    BY <2>0, Windows DEF CountsEveryGuess
  <2>2. /\ Len(q) <= MAX_FAILURES
        /\ Len(q) = MAX_FAILURES => q[1] + WINDOW <= promised[ip] + (Second - 1)
    BY <2>0 DEF PromiseKept
  <2>3. promised[ip] \in Nat
    BY <2>0 DEF TypeOK
  <2>. HIDE DEF q, g
  <2>4. ASSUME Len(q) < MAX_FAILURES
        PROVE  Len(g) < MAX_FAILURES
    BY <2>1, <2>4
  <2>5. ASSUME Len(q) = MAX_FAILURES
        PROVE  Len(g) < MAX_FAILURES
    <3>. DEFINE n == TooOld(q, now)
    <3>1. n \in Nat /\ CutAt(q, now, n)
      BY <2>1, CutTooOld
    <3>. HIDE DEF n
    <3>2. 1 \in 1..Len(q) /\ q[1] \in Nat
      BY <2>1, <2>5, LenNat DEF InOrder
    <3>3. now - q[1] >= WINDOW
      BY <2>1, <2>2, <2>3, <2>5, <3>2
    <3>4. 1 <= n
      BY <3>1, <3>2, <3>3 DEF CutAt
    <3>5. Len(g) = Len(q) - n
      BY <2>1, <3>1, RecentIs
    <3>. QED
      BY <2>1, <2>5, <3>1, <3>4, <3>5
  <2>6. Len(g) < MAX_FAILURES
    BY <2>1, <2>2, <2>4, <2>5
  <2>. QED
    BY <2>1, <2>6 DEF q, Locked
<1>. QED
  BY <1>1, LimiterAlways, PTL

=============================================================================
