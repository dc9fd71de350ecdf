----------------------- MODULE PartitionLayout_proofs -----------------------
(***************************************************************************)
(* What partition_sending_op computes backwards, from a partition to the   *)
(* iterations that write it, is what signoff_partitions_after_loop_iter    *)
(* computes forwards, from iterations to partitions, for every message and *)
(* every loop that is well aligned.                                        *)
(***************************************************************************)
EXTENDS PartitionLayout, FiniteSetTheorems, TLAPS

-----------------------------------------------------------------------------
(* Division.                                                               *)

(* A product does not shrink when one factor grows.                        *)
LEMMA ProductGrows ==
  ASSUME NEW a \in Int, NEW b \in Int, NEW n \in Nat, a <= b
  PROVE  a * n <= b * n
<1> DEFINE k == b - a
<1>1. k \in Nat /\ b = a + k
  OBVIOUS
<1>2. b * n = a * n + k * n /\ k * n \in Nat /\ a * n \in Int
  BY <1>1
<1>3. QED
  BY <1>2

LEMMA DivBounds ==
  ASSUME NEW a \in Int, NEW b \in Nat \ {0}
  PROVE  /\ a \div b \in Int
         /\ (a \div b) * b <= a
         /\ a < (a \div b) * b + b
  BY SMT

(* The quotient is the only number between these bounds.                   *)
LEMMA DivLeast ==
  ASSUME NEW a \in Int, NEW b \in Nat \ {0}, NEW k \in Int
  PROVE  k <= a \div b <=> k * b <= a
<1> DEFINE q == a \div b
<1>1. q \in Int /\ q * b <= a /\ a < q * b + b
  BY DivBounds
<1> HIDE DEF q
<1>2. ASSUME k <= q PROVE k * b <= a
  <2>1. k * b <= q * b
    BY <1>1, <1>2, ProductGrows
  <2>2. k * b \in Int /\ q * b \in Int
    BY <1>1
  <2>3. QED
    BY <1>1, <2>1, <2>2
<1>3. ASSUME q < k PROVE a < k * b
  <2>1. (q + 1) * b <= k * b
    BY <1>1, <1>3, ProductGrows
  <2>2. (q + 1) * b = q * b + b /\ k * b \in Int /\ q * b \in Int
    BY <1>1
  <2>3. QED
    BY <1>1, <2>1, <2>2
<1>4. k * b \in Int
  OBVIOUS
<1>5. QED
  BY <1>1, <1>2, <1>3, <1>4 DEF q

(* C's division, of a number that is not negative.                         *)
LEMMA QuotNat ==
  ASSUME NEW a \in Nat, NEW b \in Nat \ {0}
  PROVE  /\ Quot(a, b) = a \div b
         /\ Quot(a, b) \in Nat
         /\ \A k \in Int : k <= Quot(a, b) <=> k * b <= a
<1>1. Quot(a, b) = a \div b
  BY DEF Quot
<1>2. 0 <= a \div b
  BY DivLeast
<1>3. QED
  BY <1>1, <1>2, DivLeast, DivBounds

(* It truncates: what is negative has a quotient that is not positive.     *)
LEMMA QuotNegative ==
  ASSUME NEW a \in Int, NEW b \in Nat \ {0}, a < 0
  PROVE  Quot(a, b) \in Int /\ Quot(a, b) <= 0
<1>1. Quot(a, b) = -((-a) \div b)
  BY DEF Quot
<1>2. (-a) \div b \in Int /\ 0 <= (-a) \div b
  BY DivLeast, DivBounds
<1>3. QED
  BY <1>1, <1>2

(* It is exact on multiples, also on negative ones.                        *)
LEMMA QuotExact ==
  ASSUME NEW y \in Int, NEW b \in Nat \ {0}
  PROVE  Quot(b * y, b) = y /\ Rem(b * y, b) = 0
<1>1. ASSUME NEW z \in Nat PROVE (b * z) \div b = z
  <2>1. z * b <= b * z /\ ~((z + 1) * b <= b * z)
    OBVIOUS
  <2>2. z <= (b * z) \div b /\ ~(z + 1 <= (b * z) \div b)
    BY <2>1, DivLeast
  <2>3. QED
    BY <2>2, DivBounds
<1>2. CASE y >= 0
  <2>1. b * y \in Nat
    BY <1>2
  <2>2. QED
    BY <1>1, <1>2, <2>1, QuotNat DEF Rem
<1>3. CASE y < 0
  <2>1. -y \in Nat /\ b * (-y) = -(b * y) /\ b * y < 0
    BY <1>3
  <2>2. Quot(b * y, b) = -((-(b * y)) \div b)
    BY <2>1 DEF Quot
  <2>3. QED
    BY <1>1, <2>1, <2>2 DEF Rem
<1>4. QED
  BY <1>2, <1>3

LEMMA QuotOfMultiple ==
  ASSUME NEW n, NEW y \in Int, NEW b \in Nat \ {0}, n = b * y
  PROVE  Quot(n, b) = y /\ Rem(n, b) = 0
BY QuotExact

(* Two numbers with a positive product are factors of at most its size.    *)
LEMMA FactorBound ==
  ASSUME NEW a \in Nat \ {0}, NEW b \in Nat \ {0}
  PROVE  a * b \in Nat \ {0} /\ a <= a * b
<1>1. 1 * a <= b * a
  BY ProductGrows
<1>2. QED
  BY <1>1

(* The number of parts of size k.                                          *)
LEMMA PartsOf ==
  ASSUME NEW n \in Nat \ {0}, NEW k \in Nat \ {0}, Rem(n, k) = 0
  PROVE  /\ n \div k = Quot(n, k)
         /\ n \div k \in Nat \ {0}
         /\ n = k * (n \div k)
         /\ k <= n
<1> DEFINE q == n \div k
<1>1. Quot(n, k) = q /\ q \in Nat
  BY QuotNat
<1> HIDE DEF q
<1>2. n = k * q
  BY <1>1 DEF Rem
<1>3. q # 0
  BY <1>2
<1>4. k <= n
  BY <1>1, <1>2, <1>3, FactorBound
<1>5. QED
  BY <1>1, <1>2, <1>3, <1>4 DEF q

-----------------------------------------------------------------------------
(* The size of a partition.                                                *)

\* The request, rounded up, is a number of members.
LEMMA MembersNat ==
  ASSUME NEW e \in Nat \ {0}, NEW r \in Nat
  PROVE  RequestedMembers(e, r) \in Nat
<1>1. Quot(r, e) \in Nat
  BY QuotNat
<1>2. QED
  BY <1>1 DEF RequestedMembers

(* Whatever is requested, the search returns a number of members, at least *)
(* one, that divides the message, unless it divides by zero.               *)
LEMMA SizeIsDivisor ==
  ASSUME NEW count \in Nat \ {0}, NEW extent \in Nat \ {0}, NEW requested \in Nat,
         FindValidPartitionSizeBytes(count, extent, requested) # Trap
  PROVE  \E k \in 1 .. count :
           /\ FindValidPartitionSizeBytes(count, extent, requested) = extent * k
           /\ Rem(count, k) = 0
<1> DEFINE members == RequestedMembers(extent, requested)
           size == FindValidPartitionSizeBytes(count, extent, requested)
<1>1. members \in Nat
  BY MembersNat
<1> HIDE DEF members
<1>2. Rem(count, count) = 0
  <2>1. count = count * 1 /\ 1 \in Int
    OBVIOUS
  <2>2. QED
    BY <2>1, QuotOfMultiple, Zenon
<1>3. CASE members # 0 /\ Rem(count, members) = 0
  <2>1. members \in 1 .. count
    BY <1>1, <1>3, PartsOf
  <2>2. size \in {extent * count, extent * members}
    BY <1>1, <1>3 DEF FindValidPartitionSizeBytes, members
  <2>3. QED
    BY <1>2, <1>3, <2>1, <2>2
<1>4. CASE ~(members # 0 /\ Rem(count, members) = 0)
  <2>1. size = extent * count
    BY <1>1, <1>4 DEF FindValidPartitionSizeBytes, SearchOutcome, members
  <2>2. QED
    BY <1>2, <2>1
<1>5. QED
  BY <1>3, <1>4

-----------------------------------------------------------------------------
(* The layout of a message whose size an int holds.                        *)

LEMMA IntHolds ==
  ASSUME NEW n \in Nat, n < IntSpan \div 2
  PROVE  AsInt(n) = n /\ AsUnsigned(n) = n
<1>1. IntSpan \in Nat \ {0} /\ n < IntSpan
  <2>1. IntSpan \in Nat /\ IntSpan >= 2
    BY IntSpanAssumption
  <2>2. QED
    BY <2>1, SMT
<1>2. n % IntSpan = n
  BY <1>1, SMT
<1>3. QED
  BY <1>2 DEF AsInt, AsUnsigned

LEMMA AccessSizeInt ==
  ASSUME NEW g \in GeometryType
  PROVE  A_min(g) \in Int /\ A_max(g) \in Int /\ AccessSize(g) \in Int
<1>1. ASSUME NEW a \in Int, NEW b \in Nat \ {0} PROVE Quot(a, b) \in Int
  BY QuotNat, QuotNegative
<1>2. A_min(g) \in Int /\ A_max(g) \in Int
  BY <1>1 DEF A_min, A_max, GeometryType
<1>3. QED
  BY <1>2 DEF AccessSize, GeometryType

(* Partitions of equal length, at least one, make up the message.          *)
LEMMA PartitionsTile ==
  ASSUME NEW g \in GeometryType, FitsInt(g), ~Traps(g)
  PROVE  /\ PartitionCount(g) \in Nat \ {0}
         /\ PartitionLength(g) \in Nat \ {0}
         /\ PartitionLength(g) * PartitionCount(g) = SendingSize(g)
<1>1. /\ g.extent \in Nat \ {0} /\ g.count \in Nat \ {0}
      /\ SendingSize(g) = g.extent * g.count
  BY DEF GeometryType, SendingSize
<1>2. SendingSize(g) \in Nat \ {0} /\ g.count <= SendingSize(g)
  BY <1>1, FactorBound
<1>3. CASE ~Partitionable(g)
  <2>1. PartitionCount(g) = 1
    BY <1>3 DEF PartitionCount, Traps
  <2>2. PartitionLength(g) = SendingSize(g)
    BY <1>1, <1>2, <1>3, IntHolds DEF PartitionLength, FitsInt
  <2>3. QED
    BY <1>2, <2>1, <2>2
<1>4. CASE Partitionable(g)
  <2> DEFINE requested == AsUnsigned(AccessSize(g))
             size == FindValidPartitionSizeBytes(g.count, g.extent, requested)
  <2>1. requested \in Nat
    BY AccessSizeInt, IntSpanAssumption, SMT DEF AsUnsigned
  <2>2. PartitionMembers(g) = AsUnsigned(Quot(size, g.extent)) /\ PartitionMembers(g) # 0
    BY <1>4 DEF PartitionMembers, PartitionSize, Traps
  <2> HIDE DEF requested, size
  <2>3. size # Trap
    <3> SUFFICES ASSUME size = 0 PROVE FALSE
      BY DEF Trap
    <3>1. Quot(0, g.extent) = 0
      <4>1. 0 = g.extent * 0
        BY <1>1
      <4>2. QED
        BY <1>1, <4>1, QuotOfMultiple
    <3>2. AsUnsigned(0) = 0
      <4>1. 0 < IntSpan \div 2
        BY IntSpanAssumption, SMT
      <4>2. QED
        BY <4>1, IntHolds
    <3>3. QED
      BY <2>2, <3>1, <3>2
  <2>4. PICK k \in 1 .. g.count : size = g.extent * k /\ Rem(g.count, k) = 0
    BY <1>1, <2>1, <2>3, SizeIsDivisor DEF size
  <2>5. k \in Nat \ {0} /\ k \in Int
    BY <1>1
  <2>6. Quot(size, g.extent) = k
    BY <1>1, <2>4, <2>5, QuotExact
  <2>7. /\ g.count \div k \in Nat \ {0} /\ g.count = k * (g.count \div k)
        /\ k <= g.count
    BY <1>1, <2>4, <2>5, PartsOf
  <2>8. PartitionMembers(g) = k
    <3>1. k < IntSpan \div 2
      BY <1>2, <2>5, <2>7, IntSpanAssumption DEF FitsInt
    <3>2. QED
      BY <2>2, <2>5, <2>6, <3>1, IntHolds
  <2>9. PartitionCount(g) = g.count \div k
    BY <1>4, <2>8 DEF PartitionCount, Traps
  <2>10. PartitionLength(g) = g.extent * k /\ g.extent * k \in Nat \ {0}
    <3>1. k * g.extent <= g.count * g.extent
      BY <1>1, <2>5, <2>7, ProductGrows
    <3>2. g.extent * k \in Nat \ {0}
      BY <1>1, <2>5, FactorBound
    <3>3. g.extent * k < IntSpan \div 2
      BY <1>1, <2>5, <3>1, <3>2, IntSpanAssumption DEF FitsInt
    <3>4. QED
      BY <1>4, <2>8, <3>2, <3>3, IntHolds DEF PartitionLength
  <2> DEFINE q == g.count \div k
  <2>11. q \in Nat \ {0} /\ g.count = k * q
    BY <2>7
  <2> HIDE DEF q
  <2>12. (g.extent * k) * q = g.extent * g.count
    BY <1>1, <2>5, <2>11
  <2>13. QED
    BY <1>1, <2>7, <2>9, <2>10, <2>12 DEF q
<1>5. QED
  BY <1>3, <1>4

-----------------------------------------------------------------------------
(* What signoff_partitions_after_loop_iter computes, said without division.*)

(* Partition i is not before the first one of an access at address low.    *)
LEMMA FirstPartitionAtMost ==
  ASSUME NEW access, NEW length \in Nat \ {0}, NEW x, NEW low \in Int, NEW i \in Nat,
         access.A_min * x + access.B_min = low
  PROVE  /\ FirstPartition(access, length, x) \in Nat
         /\ FirstPartition(access, length, x) <= i <=> low < length * (i + 1)
<1>1. FirstPartition(access, length, x) = IF Quot(low, length) < 0 THEN 0 ELSE Quot(low, length)
  BY DEF FirstPartition, AtLeast
<1>2. length * (i + 1) = (i + 1) * length /\ length * (i + 1) \in Nat
  OBVIOUS
<1>3. CASE low >= 0
  <2>1. Quot(low, length) \in Nat /\ (i + 1 <= Quot(low, length) <=> (i + 1) * length <= low)
    BY <1>3, QuotNat
  <2>2. QED
    BY <1>1, <1>2, <2>1
<1>4. CASE low < 0
  <2>1. Quot(low, length) \in Int /\ Quot(low, length) <= 0
    BY <1>4, QuotNegative
  <2>2. QED
    BY <1>1, <1>2, <1>4, <2>1
<1>5. QED
  BY <1>3, <1>4

(* Partition i is not behind the last one of an access at address high,    *)
(* which is not the first byte of a partition unless it is behind them all.*)
LEMMA LastPartitionAtLeast ==
  ASSUME NEW access, NEW length \in Nat \ {0}, NEW n \in Nat \ {0}, NEW x,
         NEW high \in Nat, NEW i \in 0 .. n - 1,
         access.A_max * x + access.B_max = high,
         high < length * n => Rem(high, length) # 0
  PROVE  /\ LastPartition(access, length, n, x) \in Int
         /\ i <= LastPartition(access, length, n, x) <=> length * i <= high
         /\ LastPartition(access, length, n, x) < n
<1> DEFINE q == Quot(high, length)
           boundary == IF Rem(high, length) = 0 THEN 1 ELSE 0
<1>1. LastPartition(access, length, n, x) = IF q - boundary > n - 1 THEN n - 1 ELSE q - boundary
  BY DEF LastPartition, AtMost
<1>2. /\ q \in Nat /\ (i <= q <=> i * length <= high) /\ (n <= q <=> n * length <= high)
      /\ i \in Int /\ n \in Int
  BY QuotNat
<1>3. length * i = i * length /\ length * n = n * length /\ i * length <= n * length
  BY ProductGrows
<1>4. boundary \in {0, 1} /\ (high < length * n => boundary = 0)
  OBVIOUS
<1> HIDE DEF q, boundary
<1>5. CASE high < length * n
  BY <1>1, <1>2, <1>3, <1>4, <1>5
<1>6. CASE length * n <= high
  <2>1. n <= q /\ length * i <= high
    BY <1>2, <1>3, <1>6
  <2>2. QED
    BY <1>1, <1>2, <1>4, <2>1
<1>7. QED
  BY <1>2, <1>3, <1>5, <1>6

-----------------------------------------------------------------------------
(* Chunks of size C between the iterations lo and hi.                      *)

(* Of the chunks of the iterations 0 .. last, those that reach iteration   *)
(* lo and begin at hi at the latest are consecutive, and so is their count.*)
LEMMA ChunkInterval ==
  ASSUME NEW C \in Nat \ {0}, NEW last \in Nat, NEW lo \in Int, NEW hi \in Nat,
         lo <= last, lo <= hi
  PROVE  LET low  == AtLeast(lo, 0)
             high == AtMost(hi, last)
             S == {c \in 0 .. last \div C : c * C <= hi /\ lo <= AtMost(c * C + C - 1, last)}
         IN  /\ S = low \div C .. high \div C
             /\ S # {}
             /\ Cardinality(S) = Quot(high, C) - Quot(low, C) + 1
<1> DEFINE low  == AtLeast(lo, 0)
           high == AtMost(hi, last)
           S == {c \in 0 .. last \div C : c * C <= hi /\ lo <= AtMost(c * C + C - 1, last)}
           l == low \div C
           h == high \div C
<1>1. /\ low \in Nat /\ high \in Nat /\ low <= high
      /\ high <= last /\ high <= hi /\ (last <= high \/ hi <= high)
      /\ lo <= low /\ (low = lo \/ low = 0)
  BY DEF AtLeast, AtMost
<1> HIDE DEF low, high
<1>2. /\ l = Quot(low, C) /\ h = Quot(high, C) /\ l \in Nat /\ h \in Nat
      /\ last \div C \in Nat
  <2>1. last \div C = Quot(last, C)
    BY QuotNat
  <2>2. QED
    BY <1>1, <2>1, QuotNat
<1>3. l <= h
  <2>1. l * C <= low
    BY <1>1, DivBounds
  <2>2. l * C <= high
    BY <1>1, <1>2, <2>1
  <2>3. QED
    BY <1>1, <1>2, <2>2, DivLeast
<1>4. ASSUME NEW c \in Nat
      PROVE  c \in S <=> l <= c /\ c <= h
  <2>1. /\ c <= last \div C <=> c * C <= last
        /\ c <= h <=> c * C <= high
        /\ c + 1 <= l <=> (c + 1) * C <= low
    BY <1>1, DivLeast
  <2> DEFINE d == c * C
  <2>2. d \in Nat /\ (c + 1) * C = d + C
    OBVIOUS
  <2> HIDE DEF d
  <2>3. c \in S <=> d <= last /\ d <= hi /\ lo <= AtMost(d + C - 1, last)
    BY <1>2, <2>1 DEF d
  <2>4. lo <= AtMost(d + C - 1, last) <=> ~(d + C <= low)
    BY <1>1, <2>2 DEF AtMost
  <2>5. d <= last /\ d <= hi <=> d <= high
    BY <1>1, <2>2
  <2>6. c <= h <=> d <= high
    BY <2>1 DEF d
  <2>7. c + 1 <= l <=> d + C <= low
    BY <2>1, <2>2
  <2>8. QED
    BY <1>2, <2>3, <2>4, <2>5, <2>6, <2>7
<1>5. S \subseteq Nat
  BY <1>2
<1> HIDE DEF S, l, h
<1>6. S = l .. h
  <2>1. ASSUME NEW c \in S PROVE c \in l .. h
    <3>1. c \in Nat
      BY <1>5
    <3>2. QED
      BY <1>2, <1>4, <3>1
  <2>2. ASSUME NEW c \in l .. h PROVE c \in S
    <3>1. c \in Nat /\ l <= c /\ c <= h
      BY <1>2
    <3>2. QED
      BY <1>4, <3>1
  <2>3. QED
    BY <2>1, <2>2
<1>7. S # {} /\ Cardinality(S) = h - l + 1
  <2>1. l \in Int /\ h \in Int /\ ~(l > h)
    BY <1>2, <1>3
  <2>2. Cardinality(l .. h) = h - l + 1
    BY <2>1, FS_Interval
  <2>3. l \in l .. h
    BY <1>2, <1>3
  <2>4. QED
    BY <1>6, <2>2, <2>3
<1>8. QED
  BY <1>2, <1>6, <1>7 DEF S, l, h, low, high
-----------------------------------------------------------------------------
(* Well-aligned loops.                                                     *)

LEMMA CancelFactor ==
  ASSUME NEW a \in Nat \ {0}, NEW x \in Int, NEW y \in Int
  PROVE  a * x <= a * y <=> x <= y
<1>1. ASSUME x <= y PROVE a * x <= a * y
  <2>1. x * a <= y * a
    BY <1>1, ProductGrows
  <2>2. QED
    BY <2>1
<1>2. ASSUME y < x PROVE a * y < a * x
  <2>1. (y + 1) * a <= x * a
    BY <1>2, ProductGrows
  <2>2. (y + 1) * a = a * y + a /\ x * a = a * x /\ a * y \in Int /\ a * x \in Int
    OBVIOUS
  <2>3. QED
    BY <2>1, <2>2
<1>3. a * x \in Int /\ a * y \in Int
  OBVIOUS
<1>4. QED
  BY <1>1, <1>2, <1>3

LEMMA RemIsMod ==
  ASSUME NEW a \in Nat, NEW b \in Nat \ {0}
  PROVE  Rem(a, b) = a % b
<1>1. a \div b \in Int /\ a = b * (a \div b) + (a % b)
  BY SMT
<1>2. Quot(a, b) = a \div b
  BY QuotNat
<1> DEFINE q == a \div b
<1> HIDE DEF q
<1>3. Rem(a, b) = a - b * q /\ a = b * q + (a % b) /\ q \in Int
  BY <1>1, <1>2 DEF Rem, q
<1>4. a % b \in Int /\ b * q \in Int
  BY <1>3, SMT
<1>5. QED
  BY <1>3, <1>4

LEMMA Multiple ==
  ASSUME NEW a \in Int, NEW b \in Nat \ {0}, a % b = 0
  PROVE  \E y \in Int : a = b * y
<1>1. a \div b \in Int /\ a = b * (a \div b)
  BY SMT
<1>2. QED
  BY <1>1

(* The last number before a multiple.                                      *)
LEMMA QuotBeforeMultiple ==
  ASSUME NEW a \in Nat \ {0}, NEW h \in Nat, NEW k, k = a * (h + 1) - 1
  PROVE  Quot(k, a) = h
<1>1. k \in Nat /\ k = a * h + a - 1 /\ a * h \in Nat
  OBVIOUS
<1>2. h * a <= k /\ ~((h + 1) * a <= k)
  BY <1>1
<1>3. /\ h <= Quot(k, a) <=> h * a <= k
      /\ h + 1 <= Quot(k, a) <=> (h + 1) * a <= k
      /\ Quot(k, a) \in Nat
  BY <1>1, QuotNat
<1>4. QED
  BY <1>2, <1>3

(* The partition i of length A*p and the chunk of the iterations lb .. ub  *)
(* of a loop that stores to A*x + A*b: both conditions of a sign-off, said *)
(* in iterations instead of bytes.                                         *)
LEMMA InIterations ==
  ASSUME NEW A \in Nat \ {0}, NEW p \in Nat \ {0}, NEW b \in Int, NEW i \in Nat,
         NEW x \in Int
  PROVE  /\ A * x + A * b < (A * p) * (i + 1) <=> x <= p * (i + 1) - b - 1
         /\ (A * p) * i <= A * x + A * b <=> p * i - b <= x
         /\ \A w \in 1 .. A : A * x + A * b + w > (A * p) * i => p * i - b <= x
<1> DEFINE y == x + b
           top == p * (i + 1)
           bottom == p * i
<1>1. /\ y \in Int /\ top \in Int /\ bottom \in Int
      /\ A * x + A * b = A * y /\ (A * p) * (i + 1) = A * top /\ (A * p) * i = A * bottom
      /\ x = y - b
  OBVIOUS
<1> HIDE DEF y, top, bottom
<1>2. A * y < A * top <=> y < top
  <2>1. A * top <= A * y <=> top <= y
    BY <1>1, CancelFactor
  <2>2. A * top \in Int /\ A * y \in Int
    BY <1>1
  <2>3. QED
    BY <1>1, <2>1, <2>2
<1>3. A * bottom <= A * y <=> bottom <= y
  BY <1>1, CancelFactor
<1>4. ASSUME NEW w \in 1 .. A, A * y + w > A * bottom
      PROVE  bottom <= y
  <2>1. y + 1 \in Int /\ A * (y + 1) = A * y + A /\ A * y \in Int /\ A * bottom \in Int
    BY <1>1
  <2>2. A * bottom < A * (y + 1)
    BY <1>4, <2>1
  <2>3. A * (y + 1) <= A * bottom <=> y + 1 <= bottom
    BY <1>1, <2>1, CancelFactor
  <2>4. ~(y + 1 <= bottom)
    BY <2>1, <2>2, <2>3
  <2>5. QED
    BY <1>1, <2>4
<1>5. /\ y < top <=> x <= top - b - 1
      /\ bottom <= y <=> bottom - b <= x
  BY <1>1
<1>6. QED
  BY <1>1, <1>2, <1>3, <1>4, <1>5 DEF top, bottom

(* The backward and the forward computation agree on a partition: it waits *)
(* for the chunks that sign it off, there is one, and its writers are      *)
(* among them.                                                             *)
LEMMA AlignedPartition ==
  ASSUME NEW g \in GeometryType, FitsInt(g), WellAligned(g), PartitionCount(g) > 1,
         NEW i \in Partitions(g)
  PROVE  /\ Signers(g, i) # {}
         /\ LocalOverlapCount(g, i) = Cardinality(Signers(g, i))
         /\ Writers(g, i) \subseteq Signers(g, i)
<1> DEFINE A == A_min(g)
           B == g.curr_min
           P == PartitionLength(g)
           n == PartitionCount(g)
           C == g.chunk_size
           M == g.loop_max
           Last(c) == A * ChunkUb(g, c) + B
<1>1. /\ A \in Int /\ B \in Int /\ C \in Nat \ {0} /\ M \in Int /\ g.width \in Nat \ {0}
      /\ n \in Nat \ {0} /\ P \in Nat \ {0} /\ P * n = SendingSize(g)
  BY AccessSizeInt, PartitionsTile DEF GeometryType, WellAligned
<1>2. /\ A > 0 /\ A_max(g) = A /\ g.curr_max = B /\ g.loop_min = 0
      /\ g.width <= A /\ n > 1
      /\ P % A = 0 /\ B % A = 0 /\ B < P
      /\ A * M + B >= P * (n - 1)
      /\ \A c \in Chunks(g) :
           (Last(c) \in 0 .. SendingSize(g) - 1 => Last(c) % P # 0) /\ Last(c) >= 0
  BY DEF WellAligned
<1>3. i \in 0 .. n - 1 /\ i \in Nat /\ n - 1 \in Nat
  BY <1>1 DEF Partitions
<1>5. /\ AccessPattern(g).A_min = A /\ AccessPattern(g).B_min = B
      /\ AccessPattern(g).A_max = A /\ AccessPattern(g).B_max = B
  BY <1>2 DEF AccessPattern
<1>6. \A c : SignedOff(g, c) = FirstPartition(AccessPattern(g), P, ChunkLb(g, c))
                               .. LastPartition(AccessPattern(g), P, n, ChunkUb(g, c))
  BY DEF SignedOff
<1>7. \A c, x : StoresInto(g, x, i) <=> A * x + B < P * (i + 1) /\ A * x + B + g.width > P * i
  BY <1>2 DEF StoresInto
<1> HIDE DEF A, B, P, n, C, M
<1>8. A \in Nat \ {0}
  BY <1>1, <1>2
<1>9. PICK p \in Nat \ {0}, b \in Int : P = A * p /\ B = A * b
  <2> SUFFICES ASSUME \E p \in Int : P = A * p, \E b \in Int : B = A * b
               PROVE  \E p \in Nat \ {0}, b \in Int : P = A * p /\ B = A * b
    <3>1. P \in Int /\ P % A = 0 /\ B \in Int /\ B % A = 0
      BY <1>1, <1>2
    <3>2. QED
      BY <1>8, <3>1, Multiple
  <2>1. PICK p \in Int : P = A * p
    OBVIOUS
  <2>2. PICK b \in Int : B = A * b
    OBVIOUS
  <2>3. p > 0
    <3>1. A * p > A * 0
      BY <1>1, <1>8, <2>1
    <3>2. A * p <= A * 0 <=> p <= 0
      BY <1>8, CancelFactor
    <3>3. A * p \in Int /\ A * 0 = 0
      BY <1>8
    <3>4. QED
      BY <3>1, <3>2, <3>3
  <2>4. QED
    BY <2>1, <2>2, <2>3
<1> DEFINE lo == p * i - b
           hi == p * (i + 1) - b - 1
<1>10. /\ lo \in Int /\ hi \in Int /\ lo <= hi
  <2>1. p * i \in Int /\ p * (i + 1) = p * i + p
    BY <1>3
  <2>2. QED
    BY <2>1
<1>11. ASSUME NEW x \in Int
       PROVE  /\ A * x + B < P * (i + 1) <=> x <= hi
              /\ P * i <= A * x + B <=> lo <= x
              /\ A * x + B + g.width > P * i => lo <= x
  BY <1>1, <1>2, <1>3, <1>8, <1>9, InIterations
<1>12. hi >= 0
  <2>1. P * (i + 1) >= P
    <3>1. 1 * P <= (i + 1) * P
      BY <1>1, <1>3, ProductGrows
    <3>2. QED
      BY <1>1, <1>3, <3>1
  <2>2. A * 0 + B < P * (i + 1)
    BY <1>1, <1>2, <1>3, <1>8, <2>1
  <2>3. QED
    BY <1>10, <1>11, <2>2
<1>13. lo <= M
  <2>1. P * i <= P * (n - 1)
    <3>1. i * P <= (n - 1) * P
      BY <1>1, <1>3, ProductGrows
    <3>2. QED
      BY <1>1, <1>3, <3>1
  <2>2. P * i <= A * M + B
    BY <1>1, <1>2, <1>3, <1>8, <2>1
  <2>3. QED
    BY <1>1, <1>11, <2>2
<1>14. M \in Nat
  <2>1. P * (n - 1) >= P
    <3>1. 1 * P <= (n - 1) * P
      BY <1>1, <1>2, <1>3, ProductGrows
    <3>2. QED
      BY <1>1, <1>3, <3>1
  <2>2. A * M > A * 0
    BY <1>1, <1>2, <1>8, <2>1, A * M \in Int, P * (n - 1) \in Int
  <2>3. A * M <= A * 0 <=> M <= 0
    BY <1>1, <1>8, CancelFactor
  <2>4. A * M \in Int /\ A * 0 = 0
    BY <1>1, <1>8
  <2>5. QED
    BY <1>1, <2>2, <2>3, <2>4
<1>15. Chunks(g) = 0 .. M \div C
  <2>1. NumChunks(g) = (M - 0) \div C + 1 /\ M - 0 = M
    BY <1>2, <1>14 DEF NumChunks, M, C
  <2>2. M \div C \in Int
    BY <1>1, DivBounds
  <2>3. (M \div C + 1) - 1 = M \div C
    BY <2>2
  <2>4. QED
    BY <2>1, <2>3 DEF Chunks
<1>16. ASSUME NEW c \in Chunks(g)
       PROVE  /\ ChunkLb(g, c) = c * C /\ c * C \in Int
              /\ ChunkUb(g, c) = AtMost(c * C + C - 1, M)
              /\ ChunkUb(g, c) \in Int
              /\ i \in SignedOff(g, c) <=> c * C <= hi /\ lo <= ChunkUb(g, c)
  <2>1. c \in Int
    BY <1>15
  <2>2. ChunkLb(g, c) = c * C /\ c * C \in Int
    BY <1>1, <1>2, <2>1 DEF ChunkLb, C
  <2>3. ChunkUb(g, c) = AtMost(c * C + C - 1, M) /\ ChunkUb(g, c) \in Int
    BY <1>1, <2>2 DEF ChunkUb, AtMost, C, M
  <2> DEFINE lb == ChunkLb(g, c)
             ub == ChunkUb(g, c)
             high == A * ub + B
             low == A * lb + B
  <2>4. low \in Int /\ high \in Int /\ lb \in Int /\ ub \in Int
    BY <1>1, <1>8, <2>2, <2>3
  <2>5. high \in Nat /\ (high < P * n => Rem(high, P) # 0)
    <3>1. high >= 0 /\ (high \in 0 .. SendingSize(g) - 1 => high % P # 0)
      BY <1>2
    <3>2. SendingSize(g) \in Int /\ P * n = SendingSize(g) /\ P \in Nat \ {0}
      BY <1>1
    <3>3. high < P * n => high \in 0 .. SendingSize(g) - 1
      BY <2>4, <3>1, <3>2
    <3>4. high \in Nat => Rem(high, P) = high % P
      BY <3>2, RemIsMod
    <3>5. QED
      BY <2>4, <3>1, <3>3, <3>4
  <2> HIDE DEF low, high
  <2>6. AccessPattern(g).A_min * lb + AccessPattern(g).B_min = low
    BY <1>5 DEF low
  <2>7. AccessPattern(g).A_max * ub + AccessPattern(g).B_max = high
    BY <1>5 DEF high
  <2> HIDE DEF lb, ub
  <2> DEFINE first == FirstPartition(AccessPattern(g), P, lb)
             last == LastPartition(AccessPattern(g), P, n, ub)
  <2>8. first \in Nat /\ (first <= i <=> low < P * (i + 1))
    BY <1>1, <1>3, <2>4, <2>6, FirstPartitionAtMost
  <2>9. last \in Int /\ (i <= last <=> P * i <= high)
    <3>1. P \in Nat \ {0} /\ n \in Nat \ {0} /\ high \in Nat /\ i \in 0 .. n - 1
      BY <1>1, <1>3, <2>5
    <3>2. QED
      BY <2>5, <2>7, <3>1, LastPartitionAtLeast
  <2> HIDE DEF first, last
  <2>10. i \in SignedOff(g, c) <=> first <= i /\ i <= last
    <3>1. SignedOff(g, c) = first .. last
      BY <1>6 DEF first, last, lb, ub
    <3>2. QED
      BY <1>3, <2>8, <2>9, <3>1
  <2>11. low < P * (i + 1) <=> lb <= hi
    BY <1>11, <2>4 DEF low
  <2>12. P * i <= high <=> lo <= ub
    BY <1>11, <2>4 DEF high
  <2>13. QED
    BY <2>2, <2>3, <2>8, <2>9, <2>10, <2>11, <2>12 DEF lb, ub
<1> HIDE DEF lo, hi
<1> DEFINE S == {c \in 0 .. M \div C : c * C <= hi /\ lo <= AtMost(c * C + C - 1, M)}
<1>17. Signers(g, i) = S
  BY <1>15, <1>16 DEF Signers
<1>18. /\ S # {}
       /\ Cardinality(S) = Quot(AtMost(hi, M), C) - Quot(AtLeast(lo, 0), C) + 1
  <2>1. C \in Nat \ {0} /\ M \in Nat /\ lo \in Int /\ hi \in Nat /\ lo <= M /\ lo <= hi
    BY <1>1, <1>10, <1>12, <1>13, <1>14
  <2>2. QED
    BY <2>1, ChunkInterval
<1>19. LocalOverlapCount(g, i) = Quot(AtMost(hi, M), C) - Quot(AtLeast(lo, 0), C) + 1
  <2>1. Quot(P * i - B, A) = lo
    <3>1. P * i - B = A * lo
      BY <1>3, <1>8, <1>9 DEF lo
    <3>2. P * i - B = A * lo /\ lo \in Int /\ A \in Nat \ {0}
      BY <1>8, <1>10, <3>1
    <3>3. QED
      BY <3>2, QuotOfMultiple, Zenon
  <2>2. Quot((P * i + P - 1) - B, A) = hi
    <3>1. (P * i + P - 1) - B = A * (hi + 1) - 1
      BY <1>3, <1>8, <1>9 DEF hi
    <3>2. hi \in Nat
      BY <1>10, <1>12
    <3>3. QED
      BY <1>8, <3>1, <3>2, QuotBeforeMultiple, Zenon
  <2>3. LocalOverlapCount(g, i)
          = Quot(AtMost(Quot((P * i + P - 1) - B, A), M) - 0, C)
              - Quot(AtLeast(Quot(P * i - B, A), 0) - 0, C) + 1
    <3>1. LocalOverlapCount(g, i)
            = Quot(AtMost(Quot((P * i + P - 1) - g.curr_max, A_max(g)), M) - g.loop_min, C)
                - Quot(AtLeast(Quot(P * i - B, A), g.loop_min) - g.loop_min, C) + 1
      BY DEF LocalOverlapCount, P, A, B, C, M
    <3>2. QED
      BY <1>2, <3>1
  <2>4. AtMost(hi, M) - 0 = AtMost(hi, M) /\ AtLeast(lo, 0) - 0 = AtLeast(lo, 0)
    BY <1>1, <1>10 DEF AtMost, AtLeast
  <2>5. QED
    BY <2>1, <2>2, <2>3, <2>4
<1>20. Writers(g, i) \subseteq Signers(g, i)
  <2> SUFFICES ASSUME NEW c \in Chunks(g),
                      NEW x \in ChunkLb(g, c) .. ChunkUb(g, c), StoresInto(g, x, i)
               PROVE  i \in SignedOff(g, c)
    BY DEF Writers, Signers
  <2>1. x \in Int /\ ChunkLb(g, c) <= x /\ x <= ChunkUb(g, c)
    BY <1>16
  <2>2. x <= hi /\ lo <= x
    BY <1>7, <1>11, <2>1
  <2>3. QED
    BY <1>10, <1>16, <2>1, <2>2
<1>21. QED
  BY <1>17, <1>18, <1>19, <1>20

(* A well-aligned loop has a sound layout.                                 *)
LEMMA WellAlignedIsSound ==
  ASSUME NEW g \in GeometryType, FitsInt(g), WellAligned(g)
  PROVE  SoundLayout(g)
<1>1. ~Traps(g)
  BY DEF WellAligned
<1>2. QED
  BY <1>1, PartitionsTile, AlignedPartition DEF SoundLayout
=============================================================================
