--------------------------- MODULE ListingProofs ---------------------------
(***************************************************************************)
(* Proofs about the list of records.  The first lemmas are about integers  *)
(* that wrap, pages and ranks; ListInvariant is inductive, and what the    *)
(* pages show follows from it.                                             *)
(***************************************************************************)
EXTENDS Listing, FiniteSetTheorems, TLAPS

-----------------------------------------------------------------------------
(* Arithmetic.                                                              *)

LEMMA Division ==
  ASSUME NEW a \in Nat, NEW b \in Nat \ {0}
  PROVE  /\ a \div b \in Nat
         /\ (a \div b) * b <= a
         /\ a < (a \div b) * b + b
OBVIOUS

LEMMA TimesMonotone ==
  ASSUME NEW a \in Nat, NEW b \in Nat, NEW c \in Nat, a <= b
  PROVE  a * c <= b * c
OBVIOUS

LEMMA DivisionIs ==
  ASSUME NEW a \in Nat, NEW b \in Nat \ {0}, NEW p \in Nat
  PROVE  a \div b = p <=> p * b <= a /\ a < p * b + b
<1>. DEFINE d == a \div b
<1>1. d \in Nat /\ d * b <= a /\ a < d * b + b
  BY Division
<1>. HIDE DEF d
<1>2. d = p => p * b <= a /\ a < p * b + b
  BY <1>1
<1>3. ASSUME p * b <= a, a < p * b + b
      PROVE  d = p
  <2>1. (d + 1) * b = d * b + b /\ (p + 1) * b = p * b + b
    BY <1>1
  <2>2. ~(d + 1 <= p)
    BY <1>1, <1>3, <2>1, TimesMonotone
  <2>3. ~(p + 1 <= d)
    BY <1>1, <1>3, <2>1, TimesMonotone
  <2>. QED
    BY <1>1, <2>2, <2>3
<1>. QED
  BY <1>2, <1>3 DEF d

\* An integer that fits is itself; one too large by less than a turn is
\* negative.
LEMMA WrapFits ==
  ASSUME NEW x \in Int, -Half <= x, x < Half
  PROVE  Wrap(x) = x
<1>1. Half \in Nat \ {0}
  BY ListingAssumption
<1>2. \A a \in Nat, b \in Nat \ {0} : a < b => a % b = a
  OBVIOUS
<1>3. x + Half \in Nat /\ 2 * Half \in Nat \ {0} /\ x + Half < 2 * Half
  BY <1>1
<1>4. (x + Half) % (2 * Half) = x + Half
  BY <1>2, <1>3
<1>. QED
  BY <1>1, <1>4 DEF Wrap

LEMMA WrapOver ==
  ASSUME NEW x \in Int, Half <= x, x < 3 * Half
  PROVE  Wrap(x) = x - 2 * Half
<1>1. Half \in Nat \ {0}
  BY ListingAssumption
<1>2. \A a \in Nat, b \in Nat \ {0} : b <= a /\ a < 2 * b => a % b = a - b
  OBVIOUS
<1>3. x + Half \in Nat /\ 2 * Half \in Nat \ {0}
      /\ 2 * Half <= x + Half /\ x + Half < 2 * (2 * Half)
  BY <1>1
<1>. DEFINE a == x + Half
            b == 2 * Half
<1>4. a \in Nat /\ b \in Nat \ {0} /\ b <= a /\ a < 2 * b
  BY <1>3
<1>. HIDE DEF a, b
<1>5. a % b = a - b
  BY <1>2, <1>4
<1>6. a - b = x + Half - 2 * Half
  BY <1>1 DEF a, b
<1>7. Wrap(x) = a - b - Half
  BY <1>5 DEF Wrap, a, b
<1>. QED
  BY <1>1, <1>6, <1>7

LEMMA WrapUnder ==
  ASSUME NEW x \in Int, -3 * Half <= x, x < -Half
  PROVE  Wrap(x) = x + 2 * Half
<1>1. Half \in Nat \ {0}
  BY ListingAssumption
<1>2. \A a \in Int, b \in Nat \ {0} : -b <= a /\ a < 0 => a % b = a + b
  OBVIOUS
<1>3. x + Half \in Int /\ 2 * Half \in Nat \ {0}
      /\ -(2 * Half) <= x + Half /\ x + Half < 0
  BY <1>1
<1>4. (x + Half) % (2 * Half) = x + Half + 2 * Half
  BY <1>2, <1>3
<1>. QED
  BY <1>1, <1>4 DEF Wrap

-----------------------------------------------------------------------------
(* Pages and ranks.                                                         *)

LEMMA LiveFinite ==
  /\ IsFiniteSet(Live) /\ Cardinality(Live) \in Nat
  /\ Cardinality(Live) <= Cardinality(RecordId)
  /\ 2 * Cardinality(Live) <= Half
<1>1. IsFiniteSet(RecordId) /\ 2 * Cardinality(RecordId) <= Half
      /\ Half \in Nat
  BY ListingAssumption
<1>2. Live \in SUBSET RecordId
  BY DEF Live
<1>3. /\ IsFiniteSet(Live) /\ Cardinality(Live) \in Nat
      /\ Cardinality(Live) <= Cardinality(RecordId)
      /\ Cardinality(RecordId) \in Nat
  BY <1>1, <1>2, FS_Subset, FS_CardinalityType
<1>. QED
  BY <1>1, <1>3

\* The pages hold all records, and the last one is not empty unless it is the
\* first: also when the sum overflows, as it may only if a page holds more than
\* there can be.
LEMMA PagesHoldAll ==
  ASSUME NEW size \in 1..(Half - 1)
  PROVE  /\ TotalPages(size) \in Nat \ {0}
         /\ Cardinality(Live) <= TotalPages(size) * size
         /\ TotalPages(size) # 1 =>
              (TotalPages(size) - 1) * size < Cardinality(Live)
<1>. DEFINE N == Cardinality(Live)
            x == N + size - 1
            n == TotalPages(size)
<1>1. N \in Nat /\ 2 * N <= Half /\ Half \in Nat \ {0}
  BY LiveFinite, ListingAssumption
<1>2. size \in Nat \ {0} /\ size < Half
  BY <1>1
<1>3. n = AtLeast(Quotient(Wrap(Wrap(N + size) - 1), size), 1)
  BY DEF TotalPages
<1>. HIDE DEF N, n
<1>4. CASE x < Half
  <2>1. Wrap(Wrap(N + size) - 1) = x
    <3>1. CASE N + size < Half
      <4>1. Wrap(N + size) = N + size
        BY <1>1, <1>2, <3>1, WrapFits
      <4>2. Wrap(x) = x
        BY <1>1, <1>2, <1>4, WrapFits
      <4>. QED
        BY <1>1, <1>2, <4>1, <4>2
    <3>2. CASE N + size = Half
      <4>1. Wrap(N + size) = -Half
        BY <1>1, <1>2, <3>2, WrapOver
      <4>2. Wrap(-Half - 1) = Half - 1
        BY <1>1, WrapUnder
      <4>. QED
        BY <1>1, <1>2, <3>2, <4>1, <4>2
    <3>. QED
      BY <1>1, <1>2, <1>4, <3>1, <3>2
  <2>2. x \in Nat
    BY <1>1, <1>2
  <2>. DEFINE d == x \div size
  <2>3. n = AtLeast(d, 1)
    BY <1>3, <2>1, <2>2 DEF Quotient
  <2>4. d \in Nat /\ d * size <= x /\ x < d * size + size
    BY <1>2, <2>2, Division
  <2>. HIDE DEF d
  <2>5. CASE d = 0
    <3>1. n = 1
      BY <2>3, <2>5 DEF AtLeast
    <3>. QED
      BY <1>1, <1>2, <2>4, <2>5, <3>1 DEF N, n
  <2>6. CASE d # 0
    <3>1. n = d
      BY <2>3, <2>4, <2>6 DEF AtLeast
    <3>2. (d - 1) * size = d * size - size /\ d * size \in Nat
      BY <1>2, <2>4
    <3>. QED
      BY <1>1, <1>2, <2>4, <2>6, <3>1, <3>2 DEF N, n
  <2>. QED
    BY <2>5, <2>6
<1>5. CASE Half <= x
  <2>. DEFINE y == x - 2 * Half
  <2>1. Wrap(N + size) = N + size - 2 * Half
    BY <1>1, <1>2, <1>5, WrapOver
  <2>2. Wrap(y) = y
    BY <1>1, <1>2, <1>5, WrapFits
  <2>3. Wrap(Wrap(N + size) - 1) = y /\ y \in Int /\ y < 0
    BY <1>1, <1>2, <2>1, <2>2
  <2>. HIDE DEF y
  <2>4. n = AtLeast(-((-y) \div size), 1)
    BY <1>3, <2>3 DEF Quotient
  <2>5. (-y) \div size \in Nat
    BY <1>2, <2>3, Division
  <2>6. n = 1
    BY <2>4, <2>5 DEF AtLeast
  <2>7. N <= size
    BY <1>1, <1>2, <1>5
  <2>. QED
    BY <1>1, <1>2, <2>6, <2>7 DEF N, n
<1>. QED
  BY <1>1, <1>2, <1>4, <1>5

Typed == table \in [RecordId -> Stamps]

\* The order of the list is one, and the records above one are fewer than all.
LEMMA AboveIs ==
  ASSUME Typed, NEW r \in Live
  PROVE  /\ r \in RecordId /\ r \in Nat /\ table[r] \in Nat
         /\ r \notin Above(r) /\ Above(r) \subseteq Live
         /\ IsFiniteSet(Above(r)) /\ Cardinality(Above(r)) \in Nat
         /\ Cardinality(Above(r)) < Cardinality(Live)
<1>1. r \in RecordId /\ r \in Nat /\ table[r] \in Nat
  BY ListingAssumption DEF Typed, Live, Stamps
<1>2. r \notin Above(r) /\ Above(r) \subseteq Live
  BY <1>1 DEF Above
<1>3. Above(r) \in SUBSET (Live \ {r})
  BY <1>2
<1>4. /\ IsFiniteSet(Live \ {r})
      /\ Cardinality(Live \ {r}) = Cardinality(Live) - 1
  BY LiveFinite, FS_RemoveElement
<1>5. /\ IsFiniteSet(Above(r)) /\ Cardinality(Above(r)) \in Nat
      /\ Cardinality(Above(r)) <= Cardinality(Live \ {r})
  BY <1>3, <1>4, FS_Subset, FS_CardinalityType
<1>. QED
  BY <1>1, <1>2, <1>4, <1>5, LiveFinite

LEMMA AboveOrdered ==
  ASSUME Typed, NEW r \in Live, NEW s \in Live, r # s
  PROVE  r \in Above(s) \/ s \in Above(r)
<1>1. r \in Nat /\ s \in Nat /\ table[r] \in Nat /\ table[s] \in Nat
  BY AboveIs
<1>. QED
  BY <1>1 DEF Above

LEMMA AboveFewer ==
  ASSUME Typed, NEW r \in Live, NEW s \in Live, r \in Above(s)
  PROVE  Cardinality(Above(r)) < Cardinality(Above(s))
<1>1. \A t \in Live : t \in Nat /\ table[t] \in Nat
  BY AboveIs
<1>2. \A t \in Above(r) : t \in Above(s)
  BY <1>1 DEF Above
<1>3. r \notin Above(r)
  BY AboveIs
<1>4. Above(r) \in SUBSET (Above(s) \ {r})
  BY <1>2, <1>3
<1>5. IsFiniteSet(Above(s)) /\ Cardinality(Above(s)) \in Nat
  BY AboveIs
<1>6. /\ IsFiniteSet(Above(s) \ {r})
      /\ Cardinality(Above(s) \ {r}) = Cardinality(Above(s)) - 1
  BY <1>5, FS_RemoveElement
<1>7. Cardinality(Above(r)) <= Cardinality(Above(s)) - 1
  BY <1>4, <1>6, FS_Subset
<1>8. Cardinality(Above(r)) \in Nat
  BY AboveIs
<1>. QED
  BY <1>5, <1>7, <1>8

\* Every place of the list is taken.
LEMMA Ranks ==
  ASSUME Typed, NEW k \in Nat, k < Cardinality(Live)
  PROVE  \E r \in Live : Cardinality(Above(r)) = k
<1>. DEFINE N == Cardinality(Live)
            T == 0..(N - 1)
            f == [r \in Live |-> Cardinality(Above(r))]
<1>1. N \in Nat
  BY LiveFinite
<1>2. f \in [Live -> T]
  <2>1. \A r \in Live : Cardinality(Above(r)) \in T
    BY <1>1, AboveIs
  <2>. QED
    BY <2>1
<1>3. ASSUME NEW r \in Live, NEW s \in Live, f[r] = f[s]
      PROVE  r = s
  <2>1. Cardinality(Above(r)) = Cardinality(Above(s))
    BY <1>3
  <2>2. Cardinality(Above(r)) \in Nat /\ Cardinality(Above(s)) \in Nat
    BY AboveIs
  <2>3. r \notin Above(s) /\ s \notin Above(r)
    BY <2>1, <2>2, AboveFewer
  <2>. QED
    BY <2>3, AboveOrdered
<1>4. f \in Injection(Live, T)
  <2>. HIDE DEF f, T
  <2>. QED
    BY <1>2, <1>3 DEF Injection, IsInjective
<1>5. IsFiniteSet(T) /\ Cardinality(T) = N
  <2>1. N - 1 \in Int /\ 0 \in Int
    BY <1>1
  <2>2. /\ IsFiniteSet(T)
        /\ Cardinality(T) = IF 0 > N - 1 THEN 0 ELSE (N - 1) - 0 + 1
    BY <2>1, FS_Interval
  <2>. QED
    BY <1>1, <2>2
<1>6. f \in Surjection(Live, T)
  BY <1>4, <1>5, FS_Injection
<1>7. k \in T
  BY <1>1
<1>8. \E r \in Live : f[r] = k
  BY <1>6, <1>7 DEF Surjection
<1>. QED
  BY <1>8

\* A query whose offset fits reads the places from its offset on.
LEMMA ListRecordsIs ==
  ASSUME NEW p \in Nat \ {0}, NEW size \in 0..(Half - 1),
         (p - 1) * size < Half
  PROVE  ListRecords(p, size) =
           {r \in Live : /\ (p - 1) * size <= Cardinality(Above(r))
                         /\ Cardinality(Above(r)) < (p - 1) * size + size}
<1>. DEFINE o == (p - 1) * size
<1>0. Half \in Nat
  BY ListingAssumption
<1>1. o \in Nat
  BY <1>0
<1>2. AtLeast(p, 1) = p
  BY DEF AtLeast
<1>3. o < Half
  OBVIOUS
<1>. HIDE DEF o
<1>4. Wrap(o) = o
  BY <1>0, <1>1, <1>3, WrapFits
<1>5. AtLeast(o, 0) = o
  BY <1>1 DEF AtLeast
<1>6. ListRecords(p, size) = Select(size, o)
  BY <1>2, <1>4 DEF ListRecords, o
<1>7. Select(size, o) = {r \in Live : /\ o <= Cardinality(Above(r))
                                     /\ Cardinality(Above(r)) < o + size}
  BY <1>5 DEF Select
<1>. QED
  BY <1>6, <1>7 DEF o

-----------------------------------------------------------------------------
(* The invariant: saves.                                                    *)

LEMMA Unmoved ==
  ASSUME table' = table
  PROVE  /\ Live' = Live
         /\ \A r : Above(r)' = Above(r)
BY DEF Live, Above

LEMMA NoReqIs ==
  /\ NoReq \in Requests /\ NoReq.pc = "idle" /\ NoReq.size = 1
  /\ NoReq.label = 1 /\ NoReq.pages = 1
<1>1. 1 \in 0..(Half - 1)
  BY ListingAssumption
<1>. QED
  BY <1>1 DEF NoReq, Requests

LEMMA InitList == Init => ListInvariant
<1>. SUFFICES ASSUME Init PROVE ListInvariant
  OBVIOUS
<1>. USE ListingAssumption DEF Init
<1>1. Live = {}
  BY DEF Live
<1>2. NoReq \in Requests
  BY NoReqIs
<1>3. NoJob \in Jobs
  BY DEF NoJob, Jobs, Stamps
<1>4. TypeOK
  <2>1. NoJob.pc = "idle" /\ NoReq.label = 1 /\ NoReq.pages = 1
    BY DEF NoJob, NoReq
  <2>2. table \in [RecordId -> Stamps]
    BY DEF Stamps
  <2>3. job \in [Writer -> Jobs]
    BY <1>3
  <2>. QED
    BY <1>2, <2>1, <2>2, <2>3 DEF TypeOK
<1>5. TimesInOrder
  BY <1>1 DEF TimesInOrder, Shows, NoJob
<1>6. RequestSound
  BY DEF RequestSound, NoReq
<1>7. StillBelow
  BY <1>1 DEF StillBelow, NoReq
<1>. QED
  BY <1>4, <1>5, <1>6, <1>7 DEF ListInvariant

\* A request that is not touched, in a list that is not, stays sound.
LEMMA ReaderRests ==
  ASSUME RequestSound, StillBelow,
         UNCHANGED <<table, req, pageSize, due>>
  PROVE  RequestSound' /\ StillBelow'
<1>1. Live' = Live /\ \A r : Above(r)' = Above(r)
  BY Unmoved
<1>2. RequestSound'
  BY <1>1 DEF RequestSound
<1>3. StillBelow'
  BY <1>1 DEF StillBelow
<1>. QED
  BY <1>2, <1>3

\* A handler that has begun, read the clock or given up.
LEMMA JobStep ==
  ASSUME ListInvariant, NEW w \in Writer, NEW s \in Jobs, Becomes(w, s),
         UNCHANGED <<now, table, reader, due, newest>>,
         s.pc # "undo",
         s.pc # "idle" => s.rec \in RecordId,
         s.pc = "stamped" => s.ts # None,
         s.old # None => s.old <= now,
         s.ts # None => s.ts <= now,
         s.alone => s.pc = "stamped" /\ s.ts = now
  PROVE  ListInvariant'
<1>0. TypeOK /\ TimesInOrder /\ RequestSound /\ StillBelow
  BY DEF ListInvariant
<1>1. /\ now' = now /\ table' = table /\ pageSize' = pageSize /\ req' = req
      /\ due' = due /\ newest' = newest
      /\ job' \in [Writer -> Jobs]
      /\ job'[w] = s
      /\ \A v \in Writer \ {w} : job'[v] = job[v]
  BY <1>0 DEF Becomes, reader, TypeOK
<1>2. TypeOK'
  <2>1. \A v \in Writer : /\ job'[v].pc # "idle" => job'[v].rec \in RecordId
                          /\ job'[v].pc = "stamped" => job'[v].ts # None
    BY <1>0, <1>1 DEF TypeOK
  <2>. QED
    BY <1>0, <1>1, <2>1 DEF TypeOK
<1>3. TimesInOrder'
  <2>1. Live' = Live
    BY <1>1, Unmoved
  <2>2. Shows(now)' /\ Shows(now)
    BY <1>0, <1>1, <2>1 DEF TimesInOrder, Shows
  <2>3. newest' # None => newest' \in Live' /\ Shows(table[newest])'
    BY <1>0, <1>1, <2>1 DEF TimesInOrder, Shows
  <2>4. ASSUME NEW v \in Writer
        PROVE  /\ job'[v].old # None => job'[v].old <= now'
               /\ job'[v].ts # None => job'[v].ts <= now'
    BY <1>0, <1>1 DEF TimesInOrder
  <2>5. ASSUME NEW v \in Writer, job'[v].alone
        PROVE  /\ job'[v].pc = "stamped"
               /\ Shows(job[v].ts)'
               /\ \A u \in Writer : (job'[u].pc = "undo" /\ job'[u].old # None)
                                       => job'[u].old <= job'[v].ts
    <3>1. CASE v = w
      <4>1. job'[v].ts = now /\ job'[v].pc = "stamped"
        BY <1>1, <2>5, <3>1
      <4>2. Shows(job[v].ts)'
        BY <1>1, <2>2, <4>1 DEF Shows
      <4>. QED
        BY <1>1, <2>4, <4>1, <4>2
    <3>2. CASE v # w
      <4>1. job'[v] = job[v]
        BY <1>1, <3>2
      <4>2. /\ job[v].pc = "stamped" /\ Shows(job[v].ts)
            /\ \A u \in Writer : (job[u].pc = "undo" /\ job[u].old # None)
                                    => job[u].old <= job[v].ts
        BY <1>0, <2>5, <4>1 DEF TimesInOrder
      <4>3. Shows(job[v].ts)'
        BY <1>1, <2>1, <4>1, <4>2 DEF Shows
      <4>. QED
        BY <1>1, <4>1, <4>2, <4>3
    <3>. QED
      BY <3>1, <3>2
  <2>. QED
    BY <2>2, <2>3, <2>4, <2>5 DEF TimesInOrder
<1>4. RequestSound' /\ StillBelow'
  BY <1>0, <1>1, ReaderRests
<1>. QED
  BY <1>2, <1>3, <1>4 DEF ListInvariant

LEMMA BeginCreateStep ==
  ASSUME ListInvariant, NEW w \in Writer, BeginCreate(w)
  PROVE  ListInvariant'
<1>1. now \in 0..MaxTime /\ now \in Nat
  BY ListingAssumption DEF ListInvariant, TypeOK
<1>2. PICK r \in RecordId \ Live :
        Becomes(w, [NoJob EXCEPT !.pc = "stamped", !.new = TRUE,
                          !.rec = r, !.ts = now, !.alone = TRUE])
  BY DEF BeginCreate
<1>. DEFINE s == [NoJob EXCEPT !.pc = "stamped", !.new = TRUE,
                    !.rec = r, !.ts = now, !.alone = TRUE]
<1>3. /\ s.pc = "stamped" /\ s.rec = r /\ s.ts = now /\ s.old = None
      /\ s.alone = TRUE
  BY DEF NoJob
<1>4. s \in Jobs
  BY <1>1 DEF NoJob, Jobs, Stamps
<1>5. now # None
  BY <1>1, ListingAssumption
<1>6. Becomes(w, s) /\ UNCHANGED <<now, table, reader, due, newest>>
  BY <1>2 DEF BeginCreate
<1>. HIDE DEF s
<1>. QED
  BY <1>1, <1>2, <1>3, <1>4, <1>5, <1>6, JobStep

LEMMA BeginUpdateStep ==
  ASSUME ListInvariant, NEW w \in Writer, BeginUpdate(w)
  PROVE  ListInvariant'
<1>1. PICK r \in Live :
        Becomes(w, [NoJob EXCEPT !.pc = "form", !.rec = r, !.old = table[r]])
  BY DEF BeginUpdate
<1>. DEFINE s == [NoJob EXCEPT !.pc = "form", !.rec = r, !.old = table[r]]
<1>2. r \in RecordId /\ table[r] \in Stamps /\ table[r] <= now
  BY DEF ListInvariant, TypeOK, TimesInOrder, Shows, Live
<1>3. /\ s.pc = "form" /\ s.rec = r /\ s.ts = None /\ s.old = table[r]
      /\ s.alone = FALSE
  BY DEF NoJob
<1>4. s \in Jobs
  BY <1>2 DEF NoJob, Jobs, Stamps
<1>5. Becomes(w, s) /\ UNCHANGED <<now, table, reader, due, newest>>
  BY <1>1 DEF BeginUpdate
<1>. HIDE DEF s
<1>. QED
  BY <1>2, <1>3, <1>4, <1>5, JobStep

LEMMA ReadClockStep ==
  ASSUME ListInvariant, NEW w \in Writer, ReadClock(w)
  PROVE  ListInvariant'
<1>1. now \in 0..MaxTime /\ now \in Nat /\ now # None
  BY ListingAssumption DEF ListInvariant, TypeOK
<1>2. /\ job[w] \in Jobs /\ job[w].pc = "form" /\ job[w].rec \in RecordId
      /\ job[w].old # None => job[w].old <= now
  BY DEF ListInvariant, TypeOK, TimesInOrder, ReadClock
<1>. DEFINE s == [job[w] EXCEPT !.pc = "stamped", !.ts = now, !.alone = TRUE]
<1>3. /\ s \in Jobs
      /\ s.pc = "stamped" /\ s.rec = job[w].rec /\ s.ts = now
      /\ s.old = job[w].old
  BY <1>1, <1>2 DEF Jobs, Stamps
<1>4. Becomes(w, s) /\ UNCHANGED <<now, table, reader, due, newest>>
  BY DEF ReadClock
<1>. HIDE DEF s
<1>. QED
  BY <1>1, <1>2, <1>3, <1>4, JobStep

LEMMA NoJobIs ==
  /\ NoJob \in Jobs /\ NoJob.pc = "idle" /\ NoJob.alone = FALSE
  /\ NoJob.ts = None /\ NoJob.old = None
BY DEF NoJob, Jobs, Stamps

LEMMA StoreGoneStep ==
  ASSUME ListInvariant, NEW w \in Writer, StoreGone(w)
  PROVE  ListInvariant'
BY NoJobIs, JobStep DEF StoreGone

\* What a record that moves leaves of a walk stays and moves down, if at all.
LEMMA MovesDown ==
  ASSUME TypeOK, due \subseteq Live, NEW r \in RecordId, NEW t \in Stamps,
         table' = [table EXCEPT ![r] = t], due' = DueAfter(r, t)
  PROVE  /\ due' \subseteq due /\ due' \subseteq Live'
         /\ \A s \in due' :
               /\ Cardinality(Above(s)) <= Cardinality(Above(s)')
               /\ Cardinality(Above(s)) \in Nat
               /\ Cardinality(Above(s)') \in Nat
<1>1. due' \subseteq due
  BY DEF DueAfter
<1>2. ASSUME NEW s \in due'
      PROVE  s # r /\ s \in Live /\ (table[r] = None \/ (t # None /\ t >= table[r]))
  <2>1. s \in due \ {r} /\ ~(table[r] # None /\ (t = None \/ t < table[r]))
    BY <1>2 DEF DueAfter
  <2>2. t # None /\ table[r] # None => t \in Nat /\ table[r] \in Nat
    BY ListingAssumption DEF TypeOK, Stamps
  <2>. QED
    BY <2>1, <2>2
<1>3. \A s \in RecordId \ {r} : table'[s] = table[s]
  BY DEF TypeOK
<1>4. table'[r] = t
  BY DEF TypeOK
<1>5. due' \subseteq Live'
  BY <1>2, <1>3 DEF Live
<1>6. ASSUME NEW s \in due'
      PROVE  /\ Cardinality(Above(s)) <= Cardinality(Above(s)')
             /\ Cardinality(Above(s)) \in Nat
             /\ Cardinality(Above(s)') \in Nat
  <2>1. s # r /\ s \in Live /\ s \in RecordId /\ table'[s] = table[s]
    BY <1>2, <1>3 DEF Live
  <2>2. \A u \in RecordId : table[u] # None => table[u] \in Nat /\ u \in Nat
    BY ListingAssumption DEF TypeOK, Stamps
  <2>3. ASSUME NEW u \in Above(s)
        PROVE  u \in Above(s)'
    <3>1. /\ u \in RecordId /\ table[u] # None
          /\ table[u] > table[s] \/ (table[u] = table[s] /\ u > s)
      BY DEF Above, Live
    <3>2. CASE u # r
      <4>1. table'[u] = table[u]
        BY <1>3, <3>1, <3>2
      <4>. QED
        BY <2>1, <3>1, <4>1 DEF Above, Live
    <3>3. CASE u = r
      <4>1. t # None /\ t >= table[r]
        BY <1>2, <3>1, <3>3
      <4>2. t \in Nat /\ table[r] \in Nat /\ table[s] \in Nat
        BY <2>1, <2>2, <3>1, <3>3, <4>1 DEF Stamps, Live
      <4>3. t > table[s] \/ (t = table[s] /\ u > s)
        BY <3>1, <3>3, <4>1, <4>2
      <4>. QED
        BY <1>4, <2>1, <3>1, <3>3, <4>1, <4>3 DEF Above, Live
    <3>. QED
      BY <3>2, <3>3
  <2>4. Above(s)' \in SUBSET RecordId /\ IsFiniteSet(RecordId)
    BY ListingAssumption DEF Above, Live
  <2>5. IsFiniteSet(Above(s)') /\ Cardinality(Above(s)') \in Nat
    BY <2>4, FS_Subset, FS_CardinalityType
  <2>6. Above(s) \in SUBSET Above(s)'
    BY <2>3
  <2>. QED
    BY <2>5, <2>6, FS_Subset, FS_CardinalityType
<1>. QED
  BY <1>1, <1>5, <1>6

LEMMA StillBelowAfter ==
  ASSUME TypeOK, StillBelow, NEW r \in RecordId, NEW t \in Stamps,
         table' = [table EXCEPT ![r] = t], due' = DueAfter(r, t),
         req' = req \/ req' = ReqAfterDelete
  PROVE  StillBelow'
<1>1. /\ req'.pc = req.pc /\ req'.page = req.page /\ req'.size = req.size
      /\ req'.label = req.label /\ req'.pages = req.pages
  BY DEF ReqAfterDelete, TypeOK, Requests
<1>2. /\ due' \subseteq due /\ due' \subseteq Live'
      /\ \A s \in due' :
            /\ Cardinality(Above(s)) <= Cardinality(Above(s)')
            /\ Cardinality(Above(s)) \in Nat
            /\ Cardinality(Above(s)') \in Nat
  BY MovesDown DEF StillBelow
<1>3. /\ (req.page - 1) * req.size \in Nat /\ req.label * req.size \in Nat
  <2>1. /\ req.page \in Nat \ {0} /\ req.size \in 0..(Half - 1)
        /\ req.label \in Nat \ {0} /\ Half \in Nat
    BY ListingAssumption DEF TypeOK, Requests
  <2>2. req.page - 1 \in Nat /\ req.size \in Nat /\ req.label \in Nat
    BY <2>1
  <2>. HIDE DEF Requests
  <2>3. \A a, b \in Nat : a * b \in Nat
    OBVIOUS
  <2>. QED
    BY <2>2, <2>3
<1>4. ASSUME req'.pc = "asked", NEW s \in due'
      PROVE  (req'.page - 1) * req'.size <= Cardinality(Above(s)')
  <2>1. (req.page - 1) * req.size <= Cardinality(Above(s))
    BY <1>1, <1>2, <1>4 DEF StillBelow
  <2>. QED
    BY <1>1, <1>2, <1>3, <2>1
<1>5. ASSUME req'.pc \in {"refetch", "attach", "answered"}
      PROVE  /\ \A s \in due' : req'.label * req'.size <= Cardinality(Above(s)')
             /\ req'.label = req'.pages => due' = {}
  <2>1. /\ \A s \in due : req.label * req.size <= Cardinality(Above(s))
        /\ req.label = req.pages => due = {}
    BY <1>1, <1>5 DEF StillBelow
  <2>2. ASSUME NEW s \in due'
        PROVE  req'.label * req'.size <= Cardinality(Above(s)')
    <3>1. req.label * req.size <= Cardinality(Above(s))
      BY <1>2, <2>1
    <3>. QED
      BY <1>1, <1>2, <1>3, <3>1
  <2>. QED
    BY <1>1, <1>2, <2>1, <2>2
<1>. QED
  BY <1>2, <1>4, <1>5 DEF StillBelow

\* A save makes the list no shorter, and what makes it shorter is noted.
LEMMA SoundAfter ==
  ASSUME TypeOK, RequestSound, pageSize' = pageSize,
         \/ req' = req /\ Live \subseteq Live'
         \/ req' = ReqAfterDelete
  PROVE  RequestSound'
<1>1. /\ req'.pc = req.pc /\ req'.page = req.page /\ req'.size = req.size
      /\ req'.label = req.label /\ req'.pages = req.pages /\ req'.via = req.via
      /\ req'.rows = req.rows
  BY DEF ReqAfterDelete, TypeOK, Requests
<1>2. ASSUME req.pc = "refetch", ~req'.gone
      PROVE  (req.label - 1) * req.size < Cardinality(Live')
  <2>1. req' = req /\ Live \subseteq Live'
    BY <1>2 DEF ReqAfterDelete, TypeOK, Requests
  <2>2. (req.label - 1) * req.size < Cardinality(Live)
    BY <1>2, <2>1 DEF RequestSound
  <2>3. (req.label - 1) * req.size \in Int
    <3>1. req.label \in Nat /\ req.size \in Int
      BY ListingAssumption DEF TypeOK, Requests
    <3>. QED
      BY <3>1
  <2>4. IsFiniteSet(Live') /\ Live \in SUBSET Live'
    <3>1. Live' \in SUBSET RecordId /\ IsFiniteSet(RecordId)
      BY ListingAssumption DEF Live
    <3>. QED
      BY <2>1, <3>1, FS_Subset
  <2>5. /\ Cardinality(Live) <= Cardinality(Live')
        /\ Cardinality(Live) \in Nat /\ Cardinality(Live') \in Nat
    BY <2>4, FS_Subset, FS_CardinalityType
  <2>. QED
    BY <2>2, <2>3, <2>5
<1>. QED
  BY <1>1, <1>2 DEF RequestSound

LEMMA ReqTyped ==
  ASSUME TypeOK
  PROVE  ReqAfterDelete \in Requests /\ ReqAfterDelete.label <= ReqAfterDelete.pages
<1>1. req \in Requests /\ (req.pc = "refetch") \in BOOLEAN
  BY DEF TypeOK
<1>. DEFINE b == req.pc = "refetch"
<1>2. b \in BOOLEAN
  OBVIOUS
<1>3. ReqAfterDelete = [req EXCEPT !.gone = b]
  BY DEF ReqAfterDelete
<1>. HIDE DEF b
<1>4. ReqAfterDelete \in Requests
  BY <1>1, <1>2, <1>3 DEF Requests
<1>5. ReqAfterDelete.label = req.label /\ ReqAfterDelete.pages = req.pages
  BY <1>1, <1>3 DEF Requests
<1>. QED
  BY <1>4, <1>5 DEF TypeOK

LEMMA StoreStep ==
  ASSUME ListInvariant, NEW w \in Writer, Store(w)
  PROVE  ListInvariant'
<1>0. TypeOK /\ TimesInOrder /\ RequestSound /\ StillBelow
  BY DEF ListInvariant
<1>. DEFINE j == job[w]
<1>1. /\ j \in Jobs /\ j.rec \in RecordId /\ j.ts \in Stamps /\ j.ts # None
      /\ j.ts <= now /\ now \in Nat /\ now \in 0..MaxTime
  BY <1>0, ListingAssumption DEF Store, TypeOK, TimesInOrder, Jobs
<1>2. j.ts \in Nat
  BY <1>1, ListingAssumption DEF Stamps
<1>3. /\ table' = [table EXCEPT ![j.rec] = j.ts]
      /\ due' = DueAfter(j.rec, j.ts)
      /\ newest' = IF j.alone THEN j.rec ELSE None
      /\ now' = now /\ pageSize' = pageSize /\ req' = req
      /\ j.pc = "stamped"
  BY DEF Store, reader
<1>4. PICK next \in {NoJob, [j EXCEPT !.pc = "undo", !.alone = FALSE]} :
         job' = [v \in Writer |-> IF v = w THEN next
                                  ELSE [job[v] EXCEPT !.alone = FALSE]]
  BY DEF Store
<1>5. /\ next \in Jobs /\ next.pc \in {"idle", "undo"} /\ next.alone = FALSE
      /\ next.pc = "undo" => next.rec = j.rec
      /\ next.ts \in {None, j.ts} /\ next.old \in {None, j.old}
  <2>1. CASE next = NoJob
    BY <2>1, NoJobIs
  <2>2. CASE next = [j EXCEPT !.pc = "undo", !.alone = FALSE]
    BY <1>1, <2>2 DEF Jobs
  <2>. QED
    BY <2>1, <2>2
<1>. HIDE DEF j
<1>6. ASSUME NEW v \in Writer
      PROVE  /\ job'[v] \in Jobs
             /\ job'[v].alone = FALSE
             /\ job'[v].pc # "idle" => job'[v].rec \in RecordId
             /\ job'[v].pc = "stamped" => job'[v].ts # None
             /\ job'[v].old # None => job'[v].old <= now
             /\ job'[v].ts # None => job'[v].ts <= now
  <2>1. CASE v = w
    <3>1. job'[v] = next
      BY <1>4, <2>1
    <3>2. j.old # None => j.old <= now
      BY <1>0 DEF TimesInOrder, j
    <3>. QED
      BY <1>1, <1>5, <3>1, <3>2
  <2>2. CASE v # w
    <3>1. job'[v] = [job[v] EXCEPT !.alone = FALSE]
      BY <1>4, <2>2
    <3>2. /\ job[v] \in Jobs
          /\ job[v].pc # "idle" => job[v].rec \in RecordId
          /\ job[v].pc = "stamped" => job[v].ts # None
          /\ job[v].old # None => job[v].old <= now
          /\ job[v].ts # None => job[v].ts <= now
      BY <1>0 DEF TypeOK, TimesInOrder
    <3>3. /\ job'[v] \in Jobs /\ job'[v].alone = FALSE
          /\ job'[v].pc = job[v].pc /\ job'[v].rec = job[v].rec
          /\ job'[v].ts = job[v].ts /\ job'[v].old = job[v].old
      BY <3>1, <3>2 DEF Jobs
    <3>. QED
      BY <3>2, <3>3
  <2>. QED
    BY <2>1, <2>2
<1>7. job' \in [Writer -> Jobs]
  <2>1. job' = [v \in Writer |-> job'[v]]
    BY <1>4
  <2>. QED
    BY <1>6, <2>1
<1>8. /\ table' \in [RecordId -> Stamps]
      /\ table'[j.rec] = j.ts
      /\ \A s \in RecordId \ {j.rec} : table'[s] = table[s]
  BY <1>0, <1>1, <1>3 DEF TypeOK
<1>9. Live' = Live \union {j.rec}
  BY <1>1, <1>8 DEF Live
<1>10. TypeOK'
  <2>1. due' \subseteq RecordId
    BY <1>0, <1>3 DEF TypeOK, DueAfter
  <2>2. newest' \in RecordId \union {None}
    BY <1>1, <1>3
  <2>. QED
    BY <1>0, <1>3, <1>6, <1>7, <1>8, <2>1, <2>2 DEF TypeOK
<1>11. TimesInOrder'
  <2>1. Shows(now)'
    BY <1>0, <1>1, <1>3, <1>8, <1>9 DEF TimesInOrder, Shows, Live
  <2>2. newest' # None => newest' \in Live' /\ Shows(table[newest])'
    <3>. SUFFICES ASSUME newest' # None
                  PROVE  newest' \in Live' /\ Shows(table[newest])'
      OBVIOUS
    <3>1. newest' = j.rec /\ j.alone
      BY <1>3
    <3>2. Shows(j.ts)
      BY <1>0, <3>1 DEF TimesInOrder, j
    <3>3. \A s \in Live' : table'[s] <= j.ts
      <4>. TAKE s \in Live'
      <4>1. CASE s = j.rec
        BY <1>2, <1>8, <4>1
      <4>2. CASE s # j.rec
        BY <1>8, <1>9, <3>2, <4>2 DEF Shows, Live
      <4>. QED
        BY <4>1, <4>2
    <3>. QED
      BY <1>8, <1>9, <3>1, <3>3 DEF Shows
  <2>. QED
    BY <1>3, <1>6, <2>1, <2>2 DEF TimesInOrder
<1>12. RequestSound'
  BY <1>0, <1>3, <1>9, SoundAfter
<1>13. StillBelow'
  BY <1>0, <1>1, <1>3, StillBelowAfter
<1>. QED
  BY <1>10, <1>11, <1>12, <1>13 DEF ListInvariant

LEMMA UndoStep ==
  ASSUME ListInvariant, NEW w \in Writer, Undo(w)
  PROVE  ListInvariant'
<1>0. TypeOK /\ TimesInOrder /\ RequestSound /\ StillBelow
  BY DEF ListInvariant
<1>. DEFINE j == job[w]
            t == IF table[j.rec] = None THEN None ELSE j.old
<1>1. /\ j \in Jobs /\ j.rec \in RecordId /\ j.old \in Stamps /\ j.pc = "undo"
      /\ j.old # None => j.old <= now
      /\ now \in Nat /\ Becomes(w, NoJob) /\ now' = now /\ pageSize' = pageSize
  BY <1>0, ListingAssumption DEF Undo, TypeOK, TimesInOrder, Jobs
<1>2. t \in Stamps /\ (t # None => t = j.old /\ table[j.rec] # None)
  BY <1>1 DEF Stamps
<1>3. \/ /\ table' = [table EXCEPT ![j.rec] = t]
         /\ due' = DueAfter(j.rec, t)
         /\ newest' = None
         /\ req' = IF t = None THEN ReqAfterDelete ELSE req
      \/ UNCHANGED <<table, due, newest, req>>
  BY DEF Undo
<1>. HIDE DEF j, t
<1>4. CASE UNCHANGED <<table, due, newest, req>>
  <2>1. UNCHANGED <<now, table, reader, due, newest>>
    BY <1>1, <1>4 DEF reader
  <2>. QED
    BY <1>1, <2>1, NoJobIs, JobStep
<1>5. CASE /\ table' = [table EXCEPT ![j.rec] = t]
           /\ due' = DueAfter(j.rec, t)
           /\ newest' = None
           /\ req' = IF t = None THEN ReqAfterDelete ELSE req
  <2>1. /\ job' \in [Writer -> Jobs] /\ job'[w] = NoJob
        /\ \A v \in Writer \ {w} : job'[v] = job[v]
    BY <1>0, <1>1, NoJobIs DEF Becomes, TypeOK
  <2>2. /\ table' \in [RecordId -> Stamps] /\ table'[j.rec] = t
        /\ \A s \in RecordId \ {j.rec} : table'[s] = table[s]
    BY <1>0, <1>1, <1>2, <1>5 DEF TypeOK
  <2>3. TypeOK'
    <3>1. \A v \in Writer : /\ job'[v].pc # "idle" => job'[v].rec \in RecordId
                            /\ job'[v].pc = "stamped" => job'[v].ts # None
      BY <1>0, <2>1, NoJobIs DEF TypeOK
    <3>2. req' \in Requests /\ req'.label <= req'.pages
      BY <1>0, <1>5, ReqTyped DEF TypeOK
    <3>3. due' \subseteq RecordId
      BY <1>0, <1>5 DEF TypeOK, DueAfter
    <3>. QED
      BY <1>0, <1>1, <1>5, <2>1, <2>2, <3>1, <3>2, <3>3 DEF TypeOK
  <2>4. TimesInOrder'
    <3>1. ASSUME NEW u \in Nat, Shows(u), j.old # None => j.old <= u
          PROVE  \A s \in Live' : table'[s] <= u
      <4>. TAKE s \in Live'
      <4>1. CASE s = j.rec
        BY <1>2, <2>2, <3>1, <4>1 DEF Live
      <4>2. CASE s # j.rec
        BY <2>2, <3>1, <4>2 DEF Live, Shows
      <4>. QED
        BY <4>1, <4>2
    <3>2. Shows(now)'
      BY <1>0, <1>1, <3>1 DEF TimesInOrder, Shows
    <3>3. ASSUME NEW v \in Writer
          PROVE  /\ job'[v].old # None => job'[v].old <= now'
                 /\ job'[v].ts # None => job'[v].ts <= now'
      BY <1>0, <1>1, <2>1, NoJobIs DEF TimesInOrder
    <3>4. ASSUME NEW v \in Writer, job'[v].alone
          PROVE  /\ job'[v].pc = "stamped"
                 /\ Shows(job[v].ts)'
                 /\ \A u \in Writer : (job'[u].pc = "undo" /\ job'[u].old # None)
                                         => job'[u].old <= job'[v].ts
      <4>1. v # w /\ job'[v] = job[v]
        BY <2>1, <3>4, NoJobIs
      <4>2. /\ job[v].pc = "stamped" /\ Shows(job[v].ts)
            /\ \A u \in Writer : (job[u].pc = "undo" /\ job[u].old # None)
                                    => job[u].old <= job[v].ts
        BY <1>0, <3>4, <4>1 DEF TimesInOrder
      <4>3. job[v].ts \in Nat
        BY <1>0, <4>2, ListingAssumption DEF TypeOK, Jobs, Stamps
      <4>4. j.old # None => j.old <= job[v].ts
        BY <1>1, <4>2 DEF j
      <4>5. \A s \in Live' : table'[s] <= job[v].ts
        BY <3>1, <4>2, <4>3, <4>4
      <4>6. Shows(job[v].ts)'
        BY <4>1, <4>5 DEF Shows
      <4>7. \A u \in Writer : (job'[u].pc = "undo" /\ job'[u].old # None)
                                 => job'[u].old <= job'[v].ts
        BY <2>1, <4>1, <4>2, NoJobIs
      <4>. QED
        BY <4>1, <4>2, <4>6, <4>7
    <3>. QED
      BY <1>5, <3>2, <3>3, <3>4 DEF TimesInOrder
  <2>5. RequestSound'
    <3>1. t # None => Live \subseteq Live'
      BY <1>2, <2>2 DEF Live
    <3>. QED
      BY <1>0, <1>1, <1>5, <3>1, SoundAfter
  <2>6. StillBelow'
    BY <1>0, <1>1, <1>2, <1>5, StillBelowAfter
  <2>. QED
    BY <2>3, <2>4, <2>5, <2>6 DEF ListInvariant
<1>. QED
  BY <1>3, <1>4, <1>5

LEMMA DeleteStep ==
  ASSUME ListInvariant, NEW r \in RecordId, Delete(r)
  PROVE  ListInvariant'
<1>0. TypeOK /\ TimesInOrder /\ RequestSound /\ StillBelow
  BY DEF ListInvariant
<1>1. /\ r \in Live /\ table' = [table EXCEPT ![r] = None]
      /\ due' = {} /\ req' = ReqAfterDelete
      /\ newest' = IF newest = r THEN None ELSE newest
      /\ now' = now /\ job' = job /\ pageSize' = pageSize
  BY DEF Delete
<1>2. /\ table' \in [RecordId -> Stamps] /\ table'[r] = None
      /\ \A s \in RecordId \ {r} : table'[s] = table[s]
  BY <1>0, <1>1 DEF TypeOK, Stamps
<1>3. Live' = Live \ {r}
  BY <1>2 DEF Live
<1>4. TypeOK'
  BY <1>0, <1>1, <1>2, ReqTyped DEF TypeOK
<1>5. TimesInOrder'
  <2>1. \A u : Shows(u) => \A s \in Live' : table'[s] <= u
    BY <1>2, <1>3 DEF Shows, Live
  <2>2. Shows(now)'
    BY <1>0, <1>1, <2>1 DEF TimesInOrder, Shows
  <2>3. \A v \in Writer : job[v].alone => Shows(job[v].ts)'
    BY <1>0, <1>1, <2>1 DEF TimesInOrder, Shows
  <2>4. newest' # None => newest' \in Live' /\ Shows(table[newest])'
    <3>. SUFFICES ASSUME newest' # None
                  PROVE  newest' \in Live' /\ Shows(table[newest])'
      OBVIOUS
    <3>1. newest' = newest /\ newest # None /\ newest # r
      BY <1>1
    <3>2. newest \in Live /\ Shows(table[newest])
      BY <1>0, <3>1 DEF TimesInOrder
    <3>3. table'[newest] = table[newest]
      BY <1>2, <3>1, <3>2 DEF Live
    <3>. QED
      BY <1>3, <2>1, <3>1, <3>2, <3>3 DEF Shows
  <2>. QED
    BY <1>0, <1>1, <2>2, <2>3, <2>4 DEF TimesInOrder
<1>6. RequestSound'
  BY <1>0, <1>1, SoundAfter
<1>7. StillBelow'
  <2>1. DueAfter(r, None) = {}
    BY <1>1 DEF DueAfter, Live
  <2>2. None \in Stamps
    BY DEF Stamps
  <2>. QED
    BY <1>0, <1>1, <2>1, <2>2, StillBelowAfter
<1>. QED
  BY <1>4, <1>5, <1>6, <1>7 DEF ListInvariant

LEMMA TickStep ==
  ASSUME ListInvariant, Tick
  PROVE  ListInvariant'
<1>0. TypeOK /\ TimesInOrder /\ RequestSound /\ StillBelow
  BY DEF ListInvariant
<1>1. /\ now' = now + 1 /\ now' \in 0..MaxTime /\ now \in Nat
      /\ UNCHANGED <<table, job, pageSize, req, due, newest>>
  BY <1>0, ListingAssumption DEF Tick, TypeOK, reader
<1>2. TypeOK'
  BY <1>0, <1>1 DEF TypeOK
<1>3. TimesInOrder'
  <2>1. \A u \in Stamps : u # None /\ u <= now => u <= now + 1
    BY <1>1, ListingAssumption DEF Stamps
  <2>2. Live' = Live
    BY <1>1, Unmoved
  <2>3. \A s \in Live : table[s] \in Stamps /\ table[s] # None
    BY <1>0 DEF TypeOK, Live
  <2>4. Shows(now)'
    BY <1>0, <1>1, <2>1, <2>2, <2>3 DEF TimesInOrder, Shows
  <2>5. ASSUME NEW v \in Writer
        PROVE  /\ job[v].old # None => job[v].old <= now + 1
               /\ job[v].ts # None => job[v].ts <= now + 1
    <3>1. job[v].old \in Stamps /\ job[v].ts \in Stamps
      BY <1>0 DEF TypeOK, Jobs
    <3>. QED
      BY <1>0, <2>1, <3>1 DEF TimesInOrder
  <2>6. ASSUME NEW v \in Writer, job[v].alone
        PROVE  Shows(job[v].ts)'
    BY <1>0, <1>1, <2>2, <2>6 DEF TimesInOrder, Shows
  <2>7. newest # None => newest \in Live' /\ Shows(table[newest])'
    BY <1>0, <1>1, <2>2 DEF TimesInOrder, Shows
  <2>. QED
    BY <1>0, <1>1, <2>4, <2>5, <2>6, <2>7 DEF TimesInOrder
<1>4. RequestSound' /\ StillBelow'
  BY <1>0, <1>1, ReaderRests
<1>. QED
  BY <1>2, <1>3, <1>4 DEF ListInvariant

-----------------------------------------------------------------------------
(* The invariant: the reader.                                               *)

LEMMA TimesRest ==
  ASSUME TimesInOrder, UNCHANGED <<now, table, job, newest>>
  PROVE  TimesInOrder'
<1>1. Live' = Live
  BY Unmoved
<1>. QED
  BY <1>1 DEF TimesInOrder, Shows

\* What is left to prove of a step of the reader.
LEMMA ReaderStep ==
  ASSUME ListInvariant, UNCHANGED <<now, table, job, pageSize, newest>>,
         req' \in Requests, req'.label <= req'.pages, due' \subseteq Live,
         RequestSound', StillBelow'
  PROVE  ListInvariant'
<1>1. TypeOK'
  BY DEF ListInvariant, TypeOK, Live
<1>2. TimesInOrder'
  BY TimesRest DEF ListInvariant
<1>. QED
  BY <1>1, <1>2 DEF ListInvariant

LEMMA AskStep ==
  ASSUME ListInvariant,
         \/ \E p \in AskedPages : Ask("web", p, None)
         \/ \E p \in AskedPages, s \in AskedSizes : Ask("api", p, s)
  PROVE  ListInvariant'
<1>0. TypeOK /\ TimesInOrder /\ RequestSound /\ StillBelow
  BY DEF ListInvariant
<1>1. PICK via \in {"web", "api"}, p \in AskedPages,
           s \in AskedSizes \union {None} : Ask(via, p, s)
  OBVIOUS
<1>. DEFINE size == SizeFor(via, s)
            page == AtLeast(p, 1)
<1>2. page \in Nat \ {0}
  BY ListingAssumption DEF AtLeast
<1>3. size \in 0..(Half - 1) /\ (size = 0 => via = "web" /\ pageSize = 0)
  <2>1. pageSize \in 0..(Half - 1) /\ pageSize \in Nat
    BY <1>0, ListingAssumption DEF TypeOK
  <2>2. s = None \/ s \in (-Half)..(Half - 1)
    BY ListingAssumption
  <2>3. Half \in Nat \ {0, 1}
    BY ListingAssumption
  <2>4. CASE via = "web"
    BY <2>1, <2>4 DEF SizeFor
  <2>5. CASE via # "web"
    <3>1. \A x \in (-Half)..(Half - 1) : AtLeast(x, 1) \in 1..(Half - 1)
      BY <2>3 DEF AtLeast
    <3>2. size \in 1..(Half - 1)
      BY <2>1, <2>2, <2>3, <2>5, <3>1 DEF SizeFor
    <3>. QED
      BY <2>3, <3>2
  <2>. QED
    BY <2>4, <2>5
<1>4. /\ req' = [NoReq EXCEPT !.pc = "asked", !.via = via, !.page = page,
                              !.size = size]
      /\ due' = IF page = 1 THEN Live ELSE {}
      /\ UNCHANGED <<now, table, job, pageSize, newest>>
  BY <1>1 DEF Ask
<1>. HIDE DEF size, page
<1>5. /\ req' \in Requests /\ req'.pc = "asked" /\ req'.via = via
      /\ req'.page = page /\ req'.size = size /\ req'.label = 1
      /\ req'.pages = 1
  <2>1. NoReq \in Requests /\ NoReq.label = 1 /\ NoReq.pages = 1
    BY NoReqIs
  <2>. QED
    BY <1>2, <1>3, <1>4, <2>1 DEF Requests
<1>6. RequestSound'
  BY <1>3, <1>4, <1>5 DEF RequestSound
<1>7. StillBelow'
  <2>1. Live' = Live /\ \A r : Above(r)' = Above(r)
    BY <1>4, Unmoved
  <2>2. ASSUME NEW r \in due'
        PROVE  (page - 1) * size <= Cardinality(Above(r))
    <3>1. page = 1 /\ r \in Live
      BY <1>4, <2>2
    <3>2. (page - 1) * size = 0
      <4>1. size \in Int
        BY <1>3, ListingAssumption
      <4>. QED
        BY <3>1, <4>1
    <3>3. Cardinality(Above(r)) \in Nat
      BY <1>0, <3>1, AboveIs DEF TypeOK, Typed
    <3>. QED
      BY <3>2, <3>3
  <2>3. due' \subseteq Live
    BY <1>4
  <2>. QED
    BY <1>5, <2>1, <2>2, <2>3 DEF StillBelow
<1>8. due' \subseteq Live
  BY <1>4
<1>. QED
  BY <1>4, <1>5, <1>6, <1>7, <1>8, ReaderStep

LEMMA QueryStep ==
  ASSUME ListInvariant, Query
  PROVE  ListInvariant'
<1>0. TypeOK /\ TimesInOrder /\ RequestSound /\ StillBelow /\ Typed
  BY DEF ListInvariant, TypeOK, Typed
<1>. DEFINE p     == req.page
            s     == req.size
            N     == Cardinality(Live)
            n     == TotalPages(s)
            rows  == ListRecords(p, s)
            label == AtMost(p, n)
            again == req.via = "web" /\ rows = {} /\ label > 1
            pc    == IF again THEN "refetch" ELSE "attach"
<1>1. /\ p \in Nat \ {0} /\ s \in 1..(Half - 1) /\ s \in Nat \ {0}
      /\ s \in 0..(Half - 1) /\ Half \in Nat /\ req.pc = "asked"
      /\ req \in Requests
  <2>1. req \in Requests /\ req.size # 0 /\ req.pc = "asked"
    BY <1>0 DEF Query, TypeOK
  <2>2. p \in Nat \ {0} /\ s \in 0..(Half - 1) /\ s # 0
    BY <2>1 DEF Requests
  <2>3. Half \in Nat
    BY ListingAssumption
  <2>. QED
    BY <2>1, <2>2, <2>3
<1>2. /\ N \in Nat /\ 2 * N <= Half
  BY LiveFinite
<1>3. /\ n \in Nat \ {0} /\ N <= n * s
      /\ n # 1 => (n - 1) * s < N
  BY <1>1, PagesHoldAll
<1>4. /\ req' = [req EXCEPT !.pc = pc, !.label = label, !.pages = n,
                            !.rows = rows]
      /\ due' = due \ rows
      /\ UNCHANGED <<now, table, job, pageSize, newest>>
  BY DEF Query
<1>5. rows \subseteq RecordId
  BY DEF ListRecords, Select, Live
<1>6. pc \in {"refetch", "attach"}
      /\ (pc = "refetch" => req.via = "web" /\ label > 1)
  OBVIOUS
<1>7. (p - 1) * s < Half =>
        rows = {r \in Live : /\ (p - 1) * s <= Cardinality(Above(r))
                             /\ Cardinality(Above(r)) < (p - 1) * s + s}
  BY <1>1, ListRecordsIs
<1>. HIDE DEF N, n, rows, pc
<1>8. label \in Nat \ {0} /\ label <= n /\ label <= p /\ label \in {p, n}
  BY <1>1, <1>3 DEF AtMost
<1>. HIDE DEF label
<1>9. /\ req' \in Requests /\ req'.pc = pc /\ req'.label = label
      /\ req'.pages = n /\ req'.page = p /\ req'.size = s
      /\ req'.via = req.via
  BY <1>1, <1>3, <1>4, <1>5, <1>6, <1>8 DEF Requests
<1>10. Live' = Live /\ \A r : Above(r)' = Above(r)
  BY <1>4, Unmoved
<1>. HIDE DEF p, s
<1>11. RequestSound'
  <2>1. label # 1 => (label - 1) * s < N
    <3>. SUFFICES ASSUME label # 1 PROVE (label - 1) * s < N
      OBVIOUS
    <3>1. label - 1 \in Nat /\ n - 1 \in Nat /\ label - 1 <= n - 1 /\ n # 1
      BY <1>3, <1>8
    <3>2. (label - 1) * s <= (n - 1) * s
      BY <1>1, <3>1, TimesMonotone
    <3>3. (label - 1) * s \in Int /\ (n - 1) * s \in Int
      BY <1>1, <3>1
    <3>. QED
      BY <1>2, <1>3, <3>1, <3>2, <3>3
  <2>2. pc = "refetch" => /\ req.via = "web" /\ 1 < label /\ label <= p
                          /\ (label - 1) * s < Cardinality(Live')
    BY <1>6, <1>8, <1>10, <2>1 DEF N
  <2>3. req'.size # 0
    BY <1>1, <1>9
  <2>. QED
    BY <1>6, <1>9, <2>2, <2>3 DEF RequestSound
<1>12. ASSUME NEW r \in due'
       PROVE  /\ label = p /\ label # n
              /\ label * s <= Cardinality(Above(r))
  <2>. DEFINE c == Cardinality(Above(r))
  <2>1. r \in due /\ r \notin rows /\ r \in Live
    BY <1>0, <1>4 DEF StillBelow
  <2>2. c \in Nat /\ c < N
    BY <1>0, <2>1, AboveIs DEF N
  <2>3. (p - 1) * s <= c
    BY <1>0, <1>1, <2>1 DEF StillBelow, p, s
  <2>. HIDE DEF c
  <2>4. /\ (p - 1) * s \in Nat /\ n * s \in Nat /\ p * s = (p - 1) * s + s
    BY <1>1, <1>3
  <2>5. ~(n <= p - 1)
    <3>. SUFFICES ASSUME n <= p - 1 PROVE FALSE
      OBVIOUS
    <3>1. n * s <= (p - 1) * s
      BY <1>1, <1>3, TimesMonotone
    <3>. QED
      BY <1>2, <1>3, <2>2, <2>3, <2>4, <3>1
  <2>6. label = p
    BY <1>1, <1>3, <1>8, <2>5
  <2>7. (p - 1) * s < Half
    BY <1>1, <1>2, <2>2, <2>3, <2>4
  <2>8. p * s <= c
    BY <1>1, <1>7, <2>1, <2>2, <2>3, <2>4, <2>7 DEF c
  <2>9. label # n
    BY <1>2, <1>3, <2>2, <2>4, <2>6, <2>8
  <2>. QED
    BY <2>6, <2>8, <2>9 DEF c
<1>13. StillBelow'
  <2>1. due' \subseteq Live'
    BY <1>0, <1>4, <1>10 DEF StillBelow
  <2>2. \A r \in due' : req'.label * req'.size <= Cardinality(Above(r)')
    BY <1>9, <1>10, <1>12
  <2>3. req'.label = req'.pages => due' = {}
    BY <1>9, <1>12
  <2>4. req'.pc # "asked"
    BY <1>6, <1>9
  <2>. QED
    BY <2>1, <2>2, <2>3, <2>4 DEF StillBelow
<1>14. due' \subseteq Live
  BY <1>0, <1>4 DEF StillBelow
<1>. QED
  BY <1>4, <1>8, <1>9, <1>11, <1>13, <1>14, ReaderStep

LEMMA QueryPanicsStep ==
  ASSUME ListInvariant, QueryPanics
  PROVE  ListInvariant'
<1>0. TypeOK /\ TimesInOrder /\ RequestSound /\ StillBelow
  BY DEF ListInvariant
<1>1. /\ req.size = 0 /\ req \in Requests
      /\ req' = [req EXCEPT !.pc = "panic"]
      /\ UNCHANGED <<now, table, job, pageSize, due, newest>>
  BY <1>0 DEF QueryPanics, TypeOK
<1>2. /\ req' \in Requests /\ req'.pc = "panic" /\ req'.size = req.size
      /\ req'.label = req.label /\ req'.pages = req.pages /\ req'.via = req.via
  BY <1>1 DEF Requests
<1>3. Live' = Live
  BY <1>1, Unmoved
<1>4. RequestSound'
  BY <1>0, <1>1, <1>2 DEF RequestSound
<1>5. StillBelow'
  BY <1>0, <1>1, <1>2, <1>3 DEF StillBelow
<1>. QED
  BY <1>0, <1>1, <1>2, <1>4, <1>5, ReaderStep DEF TypeOK, StillBelow

LEMMA RefetchStep ==
  ASSUME ListInvariant, Refetch
  PROVE  ListInvariant'
<1>0. TypeOK /\ TimesInOrder /\ RequestSound /\ StillBelow
  BY DEF ListInvariant
<1>. DEFINE rows == ListRecords(req.label, req.size)
<1>1. /\ req.pc = "refetch" /\ req \in Requests
      /\ req' = [req EXCEPT !.pc = "attach", !.rows = rows, !.gone = FALSE]
      /\ due' = due \ rows
      /\ UNCHANGED <<now, table, job, pageSize, newest>>
  BY <1>0 DEF Refetch, TypeOK
<1>2. rows \subseteq RecordId
  BY DEF ListRecords, Select, Live
<1>. HIDE DEF rows
<1>3. /\ req' \in Requests /\ req'.pc = "attach" /\ req'.size = req.size
      /\ req'.label = req.label /\ req'.pages = req.pages /\ req'.via = req.via
  BY <1>1, <1>2 DEF Requests
<1>4. Live' = Live /\ \A r : Above(r)' = Above(r)
  BY <1>1, Unmoved
<1>5. RequestSound'
  BY <1>0, <1>1, <1>3 DEF RequestSound
<1>6. StillBelow'
  BY <1>0, <1>1, <1>3, <1>4 DEF StillBelow
<1>. QED
  BY <1>0, <1>1, <1>3, <1>5, <1>6, ReaderStep DEF TypeOK, StillBelow

LEMMA AttachmentsStep ==
  ASSUME ListInvariant, Attachments
  PROVE  ListInvariant'
<1>0. TypeOK /\ TimesInOrder /\ RequestSound /\ StillBelow
  BY DEF ListInvariant
<1>. DEFINE pc == IF Cardinality(req.rows) <= MAX_VARIABLES
                  THEN "answered" ELSE "error"
<1>1. /\ req.pc = "attach" /\ req \in Requests
      /\ req' = [req EXCEPT !.pc = pc, !.page = 1]
      /\ UNCHANGED <<now, table, job, pageSize, due, newest>>
  BY <1>0 DEF Attachments, TypeOK
<1>2. pc \in {"answered", "error"}
  OBVIOUS
<1>. HIDE DEF pc
<1>3. /\ req' \in Requests /\ req'.pc = pc /\ req'.size = req.size
      /\ req'.label = req.label /\ req'.pages = req.pages /\ req'.via = req.via
      /\ req'.rows = req.rows
  <2>. DEFINE half == [req EXCEPT !.pc = pc]
  <2>1. /\ half \in Requests /\ half.pc = pc /\ half.size = req.size
        /\ half.label = req.label /\ half.pages = req.pages
        /\ half.via = req.via /\ half.rows = req.rows
    BY <1>1, <1>2 DEF Requests
  <2>2. req' = [half EXCEPT !.page = 1]
    BY <1>1 DEF Requests
  <2>. HIDE DEF half
  <2>. QED
    BY <2>1, <2>2 DEF Requests
<1>4. Live' = Live /\ \A r : Above(r)' = Above(r)
  BY <1>1, Unmoved
<1>5. RequestSound'
  BY <1>0, <1>1, <1>2, <1>3 DEF RequestSound
<1>6. StillBelow'
  BY <1>0, <1>1, <1>2, <1>3, <1>4 DEF StillBelow
<1>. QED
  BY <1>0, <1>1, <1>3, <1>5, <1>6, ReaderStep DEF TypeOK, StillBelow

LEMMA CallFailsStep ==
  ASSUME ListInvariant, CallFails
  PROVE  ListInvariant'
<1>1. /\ req' = [NoReq EXCEPT !.pc = "error"] /\ due' = {}
      /\ UNCHANGED <<now, table, job, pageSize, newest>>
  BY DEF CallFails
<1>2. /\ req' \in Requests /\ req'.pc = "error" /\ req'.size = 1
      /\ req'.label = 1 /\ req'.pages = 1
  BY <1>1, NoReqIs DEF Requests
<1>3. RequestSound'
  BY <1>1, <1>2 DEF RequestSound
<1>4. StillBelow'
  BY <1>1, <1>2 DEF StillBelow
<1>. QED
  BY <1>1, <1>2, <1>3, <1>4, ReaderStep

LEMMA NextPageStep ==
  ASSUME ListInvariant, NextPage
  PROVE  ListInvariant'
<1>0. TypeOK /\ TimesInOrder /\ RequestSound /\ StillBelow
  BY DEF ListInvariant
<1>1. /\ req.pc = "answered" /\ req \in Requests
      /\ req' = [NoReq EXCEPT !.pc = "asked", !.via = req.via,
                              !.size = req.size, !.page = req.label + 1]
      /\ UNCHANGED <<now, table, job, pageSize, due, newest>>
  BY <1>0 DEF NextPage, TypeOK
<1>2. /\ req.label \in Nat \ {0} /\ req.label + 1 \in Nat \ {0}
      /\ req.size \in 0..(Half - 1) /\ req.via \in {"web", "api"}
  BY <1>1 DEF Requests
<1>3. /\ req' \in Requests /\ req'.pc = "asked" /\ req'.size = req.size
      /\ req'.label = 1 /\ req'.pages = 1 /\ req'.via = req.via
      /\ req'.page = req.label + 1
  <2>1. NoReq \in Requests /\ NoReq.label = 1 /\ NoReq.pages = 1
    BY NoReqIs
  <2>. QED
    BY <1>1, <1>2, <2>1 DEF Requests
<1>4. Live' = Live /\ \A r : Above(r)' = Above(r)
  BY <1>1, Unmoved
<1>5. RequestSound'
  BY <1>0, <1>1, <1>3 DEF RequestSound
<1>6. StillBelow'
  <2>1. req'.page - 1 = req.label
    BY <1>2, <1>3
  <2>. QED
    BY <1>0, <1>1, <1>3, <1>4, <2>1 DEF StillBelow
<1>. QED
  BY <1>0, <1>1, <1>3, <1>5, <1>6, ReaderStep DEF StillBelow

LEMMA LeaveStep ==
  ASSUME ListInvariant, Leave
  PROVE  ListInvariant'
<1>1. /\ req' = NoReq /\ due' = {}
      /\ UNCHANGED <<now, table, job, pageSize, newest>>
  BY DEF Leave
<1>2. NoReq \in Requests /\ NoReq.label = 1 /\ NoReq.pages = 1
      /\ NoReq.pc = "idle" /\ NoReq.size = 1
  BY NoReqIs
<1>3. RequestSound'
  BY <1>1, <1>2 DEF RequestSound
<1>4. StillBelow'
  BY <1>1, <1>2 DEF StillBelow
<1>. QED
  BY <1>1, <1>2, <1>3, <1>4, ReaderStep

LEMMA ListStep == ListInvariant /\ [Next]_vars => ListInvariant'
<1>. SUFFICES ASSUME ListInvariant, [Next]_vars
              PROVE  ListInvariant'
  OBVIOUS
<1>1. ASSUME NEW w \in Writer, Save(w)
      PROVE  ListInvariant'
  BY <1>1, BeginCreateStep, BeginUpdateStep, ReadClockStep, StoreStep,
     StoreGoneStep, UndoStep DEF Save
<1>2. ASSUME NEW r \in RecordId, Delete(r)
      PROVE  ListInvariant'
  BY <1>2, DeleteStep
<1>3. CASE Tick
  BY <1>3, TickStep
<1>4. CASE Read
  BY <1>4, AskStep, QueryStep, QueryPanicsStep, RefetchStep, AttachmentsStep,
     CallFailsStep, NextPageStep, LeaveStep DEF Read
<1>5. CASE UNCHANGED vars
  <2>1. UNCHANGED <<now, table, job, pageSize, req, due, newest>>
    BY <1>5 DEF vars
  <2>2. TypeOK'
    BY <2>1 DEF ListInvariant, TypeOK
  <2>3. TimesInOrder'
    BY <2>1, TimesRest DEF ListInvariant
  <2>4. RequestSound' /\ StillBelow'
    BY <2>1, ReaderRests DEF ListInvariant
  <2>. QED
    BY <2>2, <2>3, <2>4 DEF ListInvariant
<1>. QED
  BY <1>1, <1>2, <1>3, <1>4, <1>5 DEF Next

-----------------------------------------------------------------------------
(* The theorems.                                                            *)

\* However saves, undos, deletions and requests for pages interleave, with
\* any sizes and page numbers a client may send: stored times are in order
\* with the clock, and a walk over the pages has what it has not shown below
\* the page it is on.
THEOREM ListAlways == Spec => []ListInvariant
BY InitList, ListStep, PTL DEF Spec

\* A walk over the pages from the first to the last misses no record that
\* stayed as it was.
THEOREM WalksComplete == Spec => []WalkComplete
<1>1. ListInvariant => WalkComplete
  BY DEF ListInvariant, StillBelow, WalkComplete
<1>. QED
  BY <1>1, ListAlways, PTL

\* A record whose save met no other is on top of the list.
THEOREM NewestAlwaysOnTop == Spec => []NewestOnTop
<1>1. ListInvariant => NewestOnTop
  <2>. SUFFICES ASSUME ListInvariant, newest # None, NEW r \in Above(newest)
                PROVE  table[r] = table[newest]
    BY DEF NewestOnTop
  <2>1. newest \in Live /\ Shows(table[newest]) /\ Typed
    BY DEF ListInvariant, TimesInOrder, TypeOK, Typed
  <2>2. r \in Live
    BY DEF Above
  <2>3. table[r] <= table[newest] /\ table[r] \in Nat /\ table[newest] \in Nat
    BY <2>1, <2>2, AboveIs DEF Shows
  <2>. QED
    BY <2>3 DEF Above
<1>. QED
  BY <1>1, ListAlways, PTL

\* The steps that make a list of records.
LEMMA ListMade ==
  ASSUME ListInvariant, [Next]_vars, req.pc \in {"asked", "refetch"},
         req'.pc = "attach"
  PROVE  (req.pc = "asked" /\ Query) \/ (req.pc = "refetch" /\ Refetch)
<1>0. req \in Requests
  BY DEF ListInvariant, TypeOK
<1>1. req' # req /\ req' # ReqAfterDelete
  <2>1. ReqAfterDelete.pc = req.pc
    BY <1>0 DEF ReqAfterDelete, Requests
  <2>. QED
    BY <2>1
<1>2. CASE \E w \in Writer : Save(w)
  BY <1>1, <1>2 DEF Save, BeginCreate, BeginUpdate, ReadClock, Store, StoreGone,
                    Undo, reader
<1>3. CASE \E r \in RecordId : Delete(r)
  BY <1>1, <1>3 DEF Delete
<1>4. CASE Tick \/ UNCHANGED vars
  BY <1>1, <1>4 DEF Tick, reader, vars
<1>5. CASE Read
  <2>1. ~(\E p \in AskedPages : Ask("web", p, None))
    BY DEF Ask
  <2>2. ~(\E p \in AskedPages, s \in AskedSizes : Ask("api", p, s))
    BY DEF Ask
  <2>3. ~QueryPanics
    BY <1>0 DEF QueryPanics, Requests
  <2>4. ~Attachments /\ ~CallFails /\ ~NextPage /\ ~Leave
    BY DEF Attachments, CallFails, NextPage, Leave, NoReq
  <2>. QED
    BY <1>5, <2>1, <2>2, <2>3, <2>4 DEF Read, Query, Refetch
<1>. QED
  BY <1>2, <1>3, <1>4, <1>5 DEF Next

\* What the web or the API shows under a page number belongs on that page.
THEOREM PagesAreSlices == Spec => PageIsSlice
<1>. DEFINE A == (/\ req.pc \in {"asked", "refetch"} /\ req'.pc = "attach"
                  /\ Exact(req.page, req.size)
                  /\ \/ req.via = "web" /\ ~NotReadAgain
                     \/ req.page <= req'.pages)
                 => req'.rows = {r \in Live : Belongs(r, req'.label, req.size)}
<1>1. ListInvariant /\ [Next]_vars => A
  <2>. SUFFICES ASSUME ListInvariant, [Next]_vars,
                       req.pc \in {"asked", "refetch"}, req'.pc = "attach",
                       Exact(req.page, req.size),
                       \/ req.via = "web" /\ ~NotReadAgain
                       \/ req.page <= req'.pages
                PROVE  req'.rows = {r \in Live : Belongs(r, req'.label, req.size)}
    OBVIOUS
  <2>. DEFINE p == req.page
              s == req.size
  <2>0. RequestSound /\ Typed /\ req \in Requests /\ Half \in Nat
    BY ListingAssumption DEF ListInvariant, TypeOK, Typed
  <2>1. /\ p \in Nat \ {0} /\ s \in 0..(Half - 1) /\ req.label \in Nat \ {0}
    BY <2>0 DEF Requests
  <2>2. (req.pc = "asked" /\ Query) \/ (req.pc = "refetch" /\ Refetch)
    BY ListMade
  <2>3. s # 0 /\ s \in Nat \ {0} /\ s \in 1..(Half - 1)
    <3>1. s # 0
      BY <2>0, <2>2 DEF RequestSound, Query
    <3>. QED
      BY <2>0, <2>1, <3>1
  <2>4. ASSUME NEW l \in Nat \ {0}, (l - 1) * s < Half
        PROVE  ListRecords(l, s) = {r \in Live : Belongs(r, l, s)}
    <3>1. ListRecords(l, s) =
            {r \in Live : /\ (l - 1) * s <= Cardinality(Above(r))
                          /\ Cardinality(Above(r)) < (l - 1) * s + s}
      BY <2>1, <2>4, ListRecordsIs
    <3>2. ASSUME NEW r \in Live
          PROVE  Belongs(r, l, s) <=>
                   /\ (l - 1) * s <= Cardinality(Above(r))
                   /\ Cardinality(Above(r)) < (l - 1) * s + s
      <4>1. Cardinality(Above(r)) \in Nat /\ l - 1 \in Nat
        BY <2>0, AboveIs
      <4>. QED
        BY <2>3, <4>1, DivisionIs DEF Belongs
    <3>. QED
      BY <3>1, <3>2
  <2>5. (p - 1) * s < Half
    BY DEF Exact
  <2>6. CASE req.pc = "refetch" /\ Refetch
    <3>1. req'.rows = ListRecords(req.label, s) /\ req'.label = req.label
      BY <2>0, <2>6 DEF Refetch, Requests
    <3>2. req.label <= p
      BY <2>0, <2>6 DEF RequestSound
    <3>3. (req.label - 1) * s <= (p - 1) * s
      <4>1. req.label - 1 \in Nat /\ p - 1 \in Nat /\ req.label - 1 <= p - 1
        BY <2>1, <3>2
      <4>. QED
        BY <2>3, <4>1, TimesMonotone
    <3>4. (req.label - 1) * s \in Int /\ (p - 1) * s \in Int
      BY <2>1, <2>3
    <3>5. (req.label - 1) * s < Half
      BY <2>0, <2>5, <3>3, <3>4
    <3>. QED
      BY <2>1, <2>4, <3>1, <3>5
  <2>7. CASE req.pc = "asked" /\ Query
    <3>. DEFINE n == TotalPages(s)
                rows == ListRecords(p, s)
                label == AtMost(p, n)
                again == req.via = "web" /\ rows = {} /\ label > 1
    <3>1. /\ req'.rows = rows /\ req'.label = label /\ req'.pages = n
          /\ req'.pc = IF again THEN "refetch" ELSE "attach"
      BY <2>0, <2>7 DEF Query, Requests
    <3>2. ~again
      BY <3>1
    <3>3. rows = {r \in Live : Belongs(r, p, s)}
      BY <2>1, <2>4, <2>5
    <3>4. n \in Nat \ {0} /\ Cardinality(Live) <= n * s
      BY <2>3, PagesHoldAll
    <3>5. CASE p <= n
      <4>1. label = p
        BY <3>5 DEF AtMost
      <4>. QED
        BY <3>1, <3>3, <4>1
    <3>6. CASE ~(p <= n)
      <4>. HIDE DEF n, rows
      <4>1. req.via = "web" /\ ~NotReadAgain
        BY <3>1, <3>6
      <4>2. label = n /\ n < p
        BY <2>1, <3>4, <3>6 DEF AtMost
      <4>3. label # 1
        BY <2>1, <3>1, <3>4, <4>1, <4>2 DEF NotReadAgain
      <4>4. rows # {}
        BY <3>2, <3>4, <4>1, <4>2, <4>3
      <4>5. PICK r \in Live : (p - 1) * s <= Cardinality(Above(r))
        BY <2>1, <2>5, <4>4, ListRecordsIs DEF rows
      <4>6. Cardinality(Above(r)) < Cardinality(Live)
            /\ Cardinality(Above(r)) \in Nat /\ Cardinality(Live) \in Nat
        BY <2>0, AboveIs, LiveFinite
      <4>7. n * s <= (p - 1) * s
        <5>1. n \in Nat /\ p - 1 \in Nat /\ n <= p - 1
          BY <2>1, <3>4, <4>2
        <5>. QED
          BY <2>3, <5>1, TimesMonotone
      <4>8. n * s \in Int /\ (p - 1) * s \in Int
        BY <2>1, <2>3, <3>4
      <4>. QED
        BY <3>4, <4>5, <4>6, <4>7, <4>8
    <3>. QED
      BY <3>5, <3>6
  <2>. QED
    BY <2>2, <2>6, <2>7
<1>2. ListInvariant /\ [Next]_vars => [A]_vars
  BY <1>1
<1>. QED
  BY <1>2, ListAlways, PTL DEF Spec, PageIsSlice

\* A web list is blank only where there is nothing to show, where a deletion
\* came between the two queries, or where it is the first page that was not
\* read again.
THEOREM BlanksMeanEmpty == Spec => BlankMeansEmpty
<1>. DEFINE A == (/\ req.pc \in {"asked", "refetch"} /\ req'.pc = "attach"
                  /\ req.via = "web" /\ req'.rows = {})
                 => Live = {} \/ req.gone \/ NotReadAgain
<1>1. ListInvariant /\ [Next]_vars => A
  <2>. SUFFICES ASSUME ListInvariant, [Next]_vars,
                       req.pc \in {"asked", "refetch"}, req'.pc = "attach",
                       req.via = "web", req'.rows = {},
                       Live # {}, ~req.gone, ~NotReadAgain
                PROVE  FALSE
    OBVIOUS
  <2>. DEFINE s == req.size
              N == Cardinality(Live)
  <2>0. RequestSound /\ Typed /\ req \in Requests /\ Half \in Nat
        /\ N \in Nat /\ 2 * N <= Half
    BY ListingAssumption, LiveFinite DEF ListInvariant, TypeOK, Typed
  <2>1. /\ req.page \in Nat \ {0} /\ s \in 0..(Half - 1)
        /\ req.label \in Nat \ {0}
    BY <2>0 DEF Requests
  <2>2. (req.pc = "asked" /\ Query) \/ (req.pc = "refetch" /\ Refetch)
    BY ListMade
  <2>3. s # 0 /\ s \in Nat \ {0} /\ s \in 1..(Half - 1)
    <3>1. s # 0
      BY <2>0, <2>2 DEF RequestSound, Query
    <3>. QED
      BY <2>0, <2>1, <3>1
  <2>4. ASSUME NEW l \in Nat \ {0}, (l - 1) * s < N
        PROVE  ListRecords(l, s) # {}
    <3>. DEFINE o == (l - 1) * s
    <3>1. o \in Nat
      BY <2>3
    <3>2. o < Half
      BY <2>0, <2>4, <3>1
    <3>3. ListRecords(l, s) =
            {r \in Live : /\ o <= Cardinality(Above(r))
                          /\ Cardinality(Above(r)) < o + s}
      BY <2>1, <3>2, ListRecordsIs
    <3>4. o < N
      BY <2>4
    <3>. HIDE DEF o
    <3>5. PICK r \in Live : Cardinality(Above(r)) = o
      BY <2>0, <3>1, <3>4, Ranks
    <3>. QED
      BY <2>3, <3>1, <3>3, <3>5
  <2>5. CASE req.pc = "refetch" /\ Refetch
    <3>1. req'.rows = ListRecords(req.label, s)
      BY <2>0, <2>5 DEF Refetch, Requests
    <3>2. (req.label - 1) * s < N
      BY <2>0, <2>5 DEF RequestSound
    <3>. QED
      BY <2>1, <2>4, <3>1, <3>2
  <2>6. CASE req.pc = "asked" /\ Query
    <3>. DEFINE n == TotalPages(s)
                rows == ListRecords(req.page, s)
                label == AtMost(req.page, n)
                again == req.via = "web" /\ rows = {} /\ label > 1
    <3>1. /\ req'.rows = rows /\ req'.label = label
          /\ req'.pc = IF again THEN "refetch" ELSE "attach"
      BY <2>0, <2>6 DEF Query, Requests
    <3>2. n \in Nat \ {0}
      BY <2>3, PagesHoldAll
    <3>3. ~again
      BY <3>1
    <3>. HIDE DEF n, rows
    <3>4. label = 1
      BY <2>1, <3>1, <3>2, <3>3 DEF AtMost
    <3>5. req.page = 1
      BY <2>1, <3>1, <3>4 DEF NotReadAgain
    <3>6. (1 - 1) * s = 0
      BY <2>3
    <3>7. N # 0
      BY LiveFinite, FS_EmptySet
    <3>8. (1 - 1) * s < N
      BY <2>0, <3>6, <3>7
    <3>9. ListRecords(1, s) # {}
      BY <2>4, <3>8
    <3>. QED
      BY <3>1, <3>5, <3>9 DEF rows
  <2>. QED
    BY <2>2, <2>5, <2>6
<1>2. ListInvariant /\ [Next]_vars => [A]_vars
  BY <1>1
<1>. QED
  BY <1>2, ListAlways, PTL DEF Spec, BlankMeansEmpty

=============================================================================
