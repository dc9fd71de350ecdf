------------------------- MODULE PassDriver_proofs -------------------------
(***************************************************************************)
(* Proofs about PassDriver: what the loop over the sends promises, for     *)
(* every module of any number of sends and regions.                        *)
(***************************************************************************)
EXTENDS PassDriver, WellFoundedInduction, SequenceTheorems, TLAPS

-----------------------------------------------------------------------------
(* Induction over the natural numbers, for sets instead of predicates: to  *)
(* prove a statement for all n, prove that the set of the n for which it   *)
(* holds is Nat.  The proofs about recursive functions rest on it.         *)

(* A set with 0 and with the successor of each of its elements is Nat.     *)
LEMMA SetInduction ==
  ASSUME NEW S \in SUBSET Nat, 0 \in S, \A n \in S : n + 1 \in S
  PROVE  S = Nat
<1> SUFFICES ASSUME Nat \ S # {} PROVE FALSE
  OBVIOUS
<1>1. PICK x \in Nat \ S : \A y \in Nat \ S : ~(<<y, x>> \in OpToRel(<, Nat))
  <2>1. Nat \ S \subseteq Nat
    OBVIOUS
  <2>2. QED
    BY <2>1, NatLessThanWellFounded, WFMin, Zenon
<1>2. \A y \in Nat \ S : ~(y < x)
  BY <1>1, Zenon DEF OpToRel
<1>3. x # 0 /\ x - 1 \in Nat
  OBVIOUS
<1>4. x - 1 \in S
  BY <1>2, <1>3
<1>5. (x - 1) + 1 \in S
  BY <1>4
<1>6. QED
  BY <1>5

(* The same from 0 to n.                                                   *)
LEMMA IntervalInduction ==
  ASSUME NEW n \in Nat, NEW S, 0 \in S, \A i \in 0 .. n - 1 : i \in S => i + 1 \in S
  PROVE  0 .. n \subseteq S
<1> DEFINE T == {i \in Nat : i <= n => i \in S}
<1>1. T \in SUBSET Nat /\ 0 \in T
  OBVIOUS
<1>2. ASSUME NEW i \in T PROVE i + 1 \in T
  BY <1>2
<1>3. T = Nat
  <2> HIDE DEF T
  <2>1. QED
    BY <1>1, <1>2, SetInduction
<1>4. QED
  BY <1>3

(* A function on a .. n that is defined by its first value and by a step   *)
(* from each value to the next exists: what CHOOSE finds where a definition *)
(* is recursive.                                                           *)
RecursionIsDefined(a, n, T, init, turn) ==
  \E f \in [a .. n -> T] :
    /\ f[a] = init
    /\ \A i \in a + 1 .. n : f[i] = turn[<<i, f[i - 1]>>]

LEMMA RecursionExists ==
  ASSUME NEW a \in Int, NEW n \in Int, a <= n,
         NEW T, NEW init \in T, NEW turn \in [(a + 1 .. n) \X T -> T]
  PROVE  RecursionIsDefined(a, n, T, init, turn)
<1> DEFINE D(k, f) == /\ f \in [a .. k -> T]
                      /\ f[a] = init
                      /\ \A i \in a + 1 .. k : f[i] = turn[<<i, f[i - 1]>>]
           S == {j \in Nat : a + j <= n => \E f : D(a + j, f)}
<1>1. 0 \in S
  <2>1. D(a + 0, [i \in a .. a |-> init])
    OBVIOUS
  <2>2. QED
    BY <2>1
<1>2. ASSUME NEW j \in S PROVE j + 1 \in S
  <2> SUFFICES ASSUME a + (j + 1) <= n PROVE \E f : D(a + (j + 1), f)
    OBVIOUS
  <2> DEFINE k == a + j
  <2>1. k \in Int /\ a <= k /\ k < n /\ a + (j + 1) = k + 1
    OBVIOUS
  <2>2. PICK f : D(k, f)
    BY <2>1
  <2> HIDE DEF k
  <2> DEFINE next == turn[<<k + 1, f[k]>>]
             h == [i \in a .. k + 1 |-> IF i = k + 1 THEN next ELSE f[i]]
  <2>3. next \in T
    <3>1. k + 1 \in a + 1 .. n /\ f[k] \in T
      BY <2>1, <2>2
    <3>2. QED
      BY <3>1
  <2> HIDE DEF next
  <2>4. h \in [a .. k + 1 -> T] /\ h[a] = init
    BY <2>1, <2>2, <2>3
  <2>5. ASSUME NEW i \in a + 1 .. k + 1 PROVE h[i] = turn[<<i, h[i - 1]>>]
    <3>1. CASE i = k + 1
      <4>1. h[i] = next /\ h[i - 1] = f[k]
        BY <2>1, <3>1
      <4>2. QED
        BY <3>1, <4>1 DEF next
    <3>2. CASE i # k + 1
      <4>1. i \in a + 1 .. k /\ h[i] = f[i] /\ h[i - 1] = f[i - 1]
        BY <2>1, <3>2
      <4>2. QED
        BY <2>2, <4>1
    <3>3. QED
      BY <3>1, <3>2
  <2> HIDE DEF h
  <2>6. D(k + 1, h)
    BY <2>4, <2>5
  <2> HIDE DEF D
  <2>7. QED
    BY <2>1, <2>6
<1>3. S = Nat
  <2>1. S \in SUBSET Nat
    OBVIOUS
  <2> HIDE DEF S
  <2>2. QED
    BY <1>1, <1>2, <2>1, SetInduction
<1>4. \E f : D(a + (n - a), f)
  <2>1. n - a \in Nat /\ a + (n - a) <= n
    OBVIOUS
  <2> HIDE DEF D
  <2>2. QED
    BY <1>3, <2>1
<1>5. PICK f : D(n, f)
  BY <1>4
<1>6. QED
  BY <1>5 DEF RecursionIsDefined

(* A set of the numbers from 1 to n that contains with a number all the    *)
(* smaller ones is 1 .. k.                                                 *)
LEMMA PrefixIsInterval ==
  ASSUME NEW n \in Nat, NEW S \in SUBSET (1 .. n),
         \A i \in S : \A j \in 1 .. i : j \in S
  PROVE  \E k \in 0 .. n : S = 1 .. k
<1> DEFINE T == {k \in Nat : 1 .. k \subseteq S}
<1>1. T \in SUBSET Nat /\ 0 \in T
  OBVIOUS
<1>2. n + 1 \notin T
  OBVIOUS
<1>3. \E k \in T : k + 1 \notin T
  <2> SUFFICES ASSUME \A k \in T : k + 1 \in T PROVE FALSE
    OBVIOUS
  <2>1. n + 1 \in Nat
    OBVIOUS
  <2> HIDE DEF T
  <2>2. T = Nat
    BY <1>1, SetInduction
  <2>3. QED
    BY <1>2, <2>1, <2>2
<1>4. PICK k \in T : k + 1 \notin T
  BY <1>3
<1>5. k + 1 \notin S
  BY <1>4
<1>6. S = 1 .. k
  <2>1. ASSUME NEW i \in S, i > k PROVE FALSE
    <3>1. k + 1 \in 1 .. i
      BY <2>1
    <3>2. QED
      BY <1>5, <3>1
  <2>2. \A i \in S : i \in 1 .. k
    BY <2>1
  <2>3. 1 .. k \subseteq S
    BY <1>4
  <2>4. QED
    BY <2>2, <2>3
<1>7. k \in 0 .. n
  BY <1>4, <1>6
<1>8. QED
  BY <1>6, <1>7

-----------------------------------------------------------------------------
(* Sequences that enumerate a set: each element once.                      *)

Enumerates(list, S) ==
  /\ list \in Seq(S)
  /\ \A i, j \in DOMAIN list : i # j => list[i] # list[j]
  /\ \A a \in S : \E i \in DOMAIN list : list[i] = a

LEMMA EnumeratesNothing == Enumerates(<<>>, {})
BY DEF Enumerates

LEMMA EnumeratesOneMore ==
  ASSUME NEW S, NEW list, Enumerates(list, S), NEW a, a \notin S
  PROVE  Enumerates(Append(list, a), S \cup {a})
<1> DEFINE l == Append(list, a)
           n == Len(list)
<1>1. /\ list \in Seq(S) /\ n \in Nat /\ DOMAIN list = 1 .. n
      /\ \A i \in 1 .. n : list[i] \in S
  BY DEF Enumerates
<1>2. /\ l \in Seq(S \cup {a}) /\ DOMAIN l = 1 .. n + 1 /\ l[n + 1] = a
      /\ \A i \in 1 .. n : l[i] = list[i]
  <2>1. list \in Seq(S \cup {a})
    BY <1>1
  <2>2. QED
    BY <1>1, <2>1
<1>3. \A i \in DOMAIN l : i \in 1 .. n \/ i = n + 1
  BY <1>1, <1>2
<1> HIDE DEF l, n
<1>4. ASSUME NEW i \in DOMAIN l, NEW j \in DOMAIN l, i # j PROVE l[i] # l[j]
  BY <1>1, <1>2, <1>3, <1>4 DEF Enumerates
<1>5. ASSUME NEW b \in S \cup {a} PROVE \E i \in DOMAIN l : l[i] = b
  <2>1. CASE b \in S
    <3>1. PICK i \in 1 .. n : list[i] = b
      BY <1>1, <2>1 DEF Enumerates
    <3>2. i \in DOMAIN l
      BY <1>1, <1>2
    <3>3. QED
      BY <1>2, <3>1, <3>2
  <2>2. CASE b = a
    BY <1>1, <1>2, <2>2
  <2>3. QED
    BY <2>1, <2>2
<1>6. QED
  BY <1>2, <1>4, <1>5 DEF Enumerates, l

LEMMA EnumeratesBoth ==
  ASSUME NEW S, NEW T, NEW p, NEW q, Enumerates(p, S), Enumerates(q, T), S \cap T = {}
  PROVE  Enumerates(p \o q, S \cup T)
<1> DEFINE l == p \o q
           n == Len(p)
           k == Len(q)
<1>1. /\ p \in Seq(S) /\ n \in Nat /\ DOMAIN p = 1 .. n
      /\ q \in Seq(T) /\ k \in Nat /\ DOMAIN q = 1 .. k
      /\ \A i \in 1 .. n : p[i] \in S
      /\ \A i \in 1 .. k : q[i] \in T
  BY DEF Enumerates
<1>2. /\ l \in Seq(S \cup T) /\ DOMAIN l = 1 .. n + k
      /\ \A i \in 1 .. n : l[i] = p[i]
      /\ \A i \in n + 1 .. n + k : l[i] = q[i - n]
  <2>1. p \in Seq(S \cup T) /\ q \in Seq(S \cup T)
    BY <1>1
  <2>2. QED
    BY <1>1, <2>1
<1>3. \A i \in DOMAIN l : i \in 1 .. n \/ (i \in n + 1 .. n + k /\ i - n \in 1 .. k)
  BY <1>1, <1>2
<1> HIDE DEF l, n, k
<1>4. ASSUME NEW i \in DOMAIN l, NEW j \in DOMAIN l, i # j PROVE l[i] # l[j]
  <2>1. i \in Int /\ j \in Int /\ (i - n = j - n => i = j)
    BY <1>1, <1>2
  <2>2. CASE i \in 1 .. n /\ j \in 1 .. n
    BY <1>1, <1>2, <1>4, <2>2 DEF Enumerates
  <2>3. CASE i \in n + 1 .. n + k /\ j \in n + 1 .. n + k
    <3>1. i - n \in DOMAIN q /\ j - n \in DOMAIN q /\ i - n # j - n
      BY <1>1, <1>4, <2>1, <2>3
    <3>2. q[i - n] # q[j - n]
      BY <3>1 DEF Enumerates
    <3>3. QED
      BY <1>2, <2>3, <3>2
  <2>4. CASE i \in 1 .. n /\ j \in n + 1 .. n + k
    <3>1. l[i] \in S /\ l[j] \in T
      BY <1>1, <1>2, <1>3, <2>4
    <3>2. QED
      BY <3>1
  <2>5. CASE j \in 1 .. n /\ i \in n + 1 .. n + k
    <3>1. l[j] \in S /\ l[i] \in T
      BY <1>1, <1>2, <1>3, <2>5
    <3>2. QED
      BY <3>1
  <2>6. QED
    BY <1>3, <2>2, <2>3, <2>4, <2>5
<1>5. ASSUME NEW b \in S \cup T PROVE \E i \in DOMAIN l : l[i] = b
  <2>1. CASE b \in S
    <3>1. PICK i \in 1 .. n : p[i] = b
      BY <1>1, <2>1 DEF Enumerates
    <3>2. i \in DOMAIN l
      BY <1>1, <1>2
    <3>3. QED
      BY <1>2, <3>1, <3>2
  <2>2. CASE b \in T
    <3>1. PICK i \in 1 .. k : q[i] = b
      BY <1>1, <2>2 DEF Enumerates
    <3>2. /\ n + i \in DOMAIN l /\ n + i \in n + 1 .. n + k /\ (n + i) - n = i
      BY <1>1, <1>2
    <3>3. l[n + i] = q[(n + i) - n]
      BY <1>2, <3>2
    <3>4. QED
      BY <3>1, <3>2, <3>3
  <2>3. QED
    BY <2>1, <2>2
<1>6. QED
  BY <1>2, <1>4, <1>5 DEF Enumerates, l

-----------------------------------------------------------------------------
(* The sends in the order they are handled.                                *)

SendsOf(f) == {a \in DOMAIN m.sends : m.sends[a].name = f}

LEMMA CallsOfEnumerates ==
  ASSUME IsModule(m), NEW f
  PROVE  Enumerates(CallsOf(f), SendsOf(f))
<1> DEFINE n == Len(m.sends)
           To(k) == {a \in 1 .. k : m.sends[a].name = f}
           D(g) == g = [a \in 0 .. n |->
                         IF a = 0 THEN <<>>
                         ELSE IF m.sends[a].name = f THEN Append(g[a - 1], a) ELSE g[a - 1]]
           next == [p \in (0 + 1 .. n) \X Seq(1 .. n) |->
                     IF m.sends[p[1]].name = f THEN Append(p[2], p[1]) ELSE p[2]]
<1>1. n \in Nat /\ DOMAIN m.sends = 1 .. n
  BY DEF IsModule
<1>2. \E g : D(g)
  <2> HIDE DEF n
  <2>1. next \in [(0 + 1 .. n) \X Seq(1 .. n) -> Seq(1 .. n)]
    <3>1. ASSUME NEW p \in (0 + 1 .. n) \X Seq(1 .. n)
          PROVE  (IF m.sends[p[1]].name = f THEN Append(p[2], p[1]) ELSE p[2]) \in Seq(1 .. n)
      <4>1. p[1] \in 1 .. n /\ p[2] \in Seq(1 .. n)
        BY <1>1
      <4>2. Append(p[2], p[1]) \in Seq(1 .. n)
        BY <4>1
      <4>3. QED
        BY <4>1, <4>2
    <3>2. QED
      BY <3>1
  <2>2. <<>> \in Seq(1 .. n) /\ 0 \in Int /\ n \in Int /\ 0 <= n
    BY <1>1
  <2> HIDE DEF next
  <2>6. RecursionIsDefined(0, n, Seq(1 .. n), <<>>, next)
    BY <2>1, <2>2, RecursionExists
  <2>3. PICK g \in [0 .. n -> Seq(1 .. n)] :
          /\ g[0] = <<>>
          /\ \A a \in 0 + 1 .. n : g[a] = next[<<a, g[a - 1]>>]
    BY <2>6 DEF RecursionIsDefined
  <2>4. ASSUME NEW a \in 0 .. n, a # 0
        PROVE  g[a] = IF m.sends[a].name = f THEN Append(g[a - 1], a) ELSE g[a - 1]
    <3>1. a \in 0 + 1 .. n /\ a - 1 \in 0 .. n
      BY <1>1, <2>4
    <3>2. g[a - 1] \in Seq(1 .. n) /\ <<a, g[a - 1]>> \in (0 + 1 .. n) \X Seq(1 .. n)
      BY <2>3, <3>1
    <3>3. g[a] = next[<<a, g[a - 1]>>]
      BY <2>3, <3>1
    <3>4. QED
      BY <3>2, <3>3 DEF next
  <2>5. D(g)
    BY <2>3, <2>4
  <2> HIDE DEF D
  <2>7. QED
    BY <2>5
<1> DEFINE c == CHOOSE g : D(g)
<1>3. CallsOf(f) = c[n]
  BY DEF CallsOf
<1>4. D(c)
  <2> HIDE DEF D
  <2>1. QED
    BY <1>2
<1> HIDE DEF c, n
<1>5. c[0] = <<>>
  BY <1>1, <1>4
<1>6. ASSUME NEW a \in 1 .. n
      PROVE  c[a] = IF m.sends[a].name = f THEN Append(c[a - 1], a) ELSE c[a - 1]
  <2>1. a \in 0 .. n /\ a # 0
    BY <1>1
  <2>2. QED
    BY <1>4, <2>1
<1> HIDE DEF D
<1> DEFINE T == {k \in 0 .. n : Enumerates(c[k], To(k))}
<1>7. 0 \in T
  <2>1. To(0) = {}
    OBVIOUS
  <2> HIDE DEF To
  <2>2. Enumerates(c[0], To(0))
    BY <1>5, <2>1, EnumeratesNothing
  <2>3. QED
    BY <1>1, <2>2
<1>8. ASSUME NEW k \in 0 .. n - 1, k \in T PROVE k + 1 \in T
  <2>1. k + 1 \in 1 .. n /\ (k + 1) - 1 = k /\ k + 1 \in 0 .. n
    BY <1>1
  <2>2. c[k + 1] = IF m.sends[k + 1].name = f THEN Append(c[k], k + 1) ELSE c[k]
    BY <1>6, <2>1
  <2>3. k + 1 \notin To(k)
    BY <2>1
  <2>4. To(k + 1) = IF m.sends[k + 1].name = f THEN To(k) \cup {k + 1} ELSE To(k)
    BY <2>1
  <2> HIDE DEF To
  <2>5. Enumerates(c[k], To(k))
    BY <1>8
  <2>6. Enumerates(c[k + 1], To(k + 1))
    <3>1. CASE m.sends[k + 1].name = f
      <4>1. Enumerates(Append(c[k], k + 1), To(k) \cup {k + 1})
        BY <2>3, <2>5, EnumeratesOneMore
      <4>2. QED
        BY <2>2, <2>4, <3>1, <4>1
    <3>2. CASE m.sends[k + 1].name # f
      BY <2>2, <2>4, <2>5, <3>2
    <3>3. QED
      BY <3>1, <3>2
  <2>7. QED
    BY <2>1, <2>6
<1>9. n \in T
  <2> HIDE DEF T
  <2>1. 0 .. n \subseteq T
    BY <1>1, <1>7, <1>8, IntervalInduction
  <2>2. QED
    BY <1>1, <2>1
<1>10. To(n) = SendsOf(f)
  BY <1>1 DEF SendsOf
<1>11. QED
  BY <1>3, <1>9, <1>10

LEMMA SendFunctionsDiffer ==
  /\ Len(_send_functions) \in Nat /\ DOMAIN _send_functions = 1 .. Len(_send_functions)
  /\ \A i, j \in DOMAIN _send_functions : i # j => _send_functions[i] # _send_functions[j]
<1>1. Len(_send_functions) = 9 /\ DOMAIN _send_functions = 1 .. 9
  BY DEF _send_functions
<1>2. ASSUME NEW i \in 1 .. 9, NEW j \in 1 .. 9, i # j
      PROVE  _send_functions[i] # _send_functions[j]
  BY <1>2 DEF _send_functions
<1>3. QED
  BY <1>1, <1>2

(* Every send is handled once.                                             *)
LEMMA SendersEnumerate ==
  ASSUME IsModule(m)
  PROVE  Enumerates(senders, DOMAIN m.sends)
<1> DEFINE n == Len(m.sends)
           k == Len(_send_functions)
           F(i) == _send_functions[i]
           UpTo(i) == {a \in DOMAIN m.sends : \E j \in 1 .. i : m.sends[a].name = F(j)}
           D(g) == g = [i \in 0 .. k |->
                         IF i = 0 THEN <<>> ELSE g[i - 1] \o CallsOf(_send_functions[i])]
           next == [p \in (0 + 1 .. k) \X Seq(1 .. n) |-> p[2] \o CallsOf(F(p[1]))]
<1>1. /\ m.sends \in Seq(Sent(Len(m.regions)))
      /\ n \in Nat /\ DOMAIN m.sends = 1 .. n
      /\ k \in Nat /\ DOMAIN _send_functions = 1 .. k
  BY SendFunctionsDiffer DEF IsModule
<1>2. \A f : Enumerates(CallsOf(f), SendsOf(f))
  BY CallsOfEnumerates
<1>3. \A f : CallsOf(f) \in Seq(1 .. n)
  <2> SUFFICES ASSUME NEW f PROVE CallsOf(f) \in Seq(1 .. n)
    OBVIOUS
  <2>1. CallsOf(f) \in Seq(SendsOf(f)) /\ SendsOf(f) \subseteq 1 .. n
    BY <1>1, <1>2 DEF Enumerates, SendsOf
  <2> HIDE DEF n
  <2>2. QED
    BY <2>1, SeqMonotonic
<1>4. \E g : D(g)
  <2> HIDE DEF n, k, F
  <2>1. next \in [(0 + 1 .. k) \X Seq(1 .. n) -> Seq(1 .. n)]
    <3>1. ASSUME NEW p \in (0 + 1 .. k) \X Seq(1 .. n)
          PROVE  p[2] \o CallsOf(F(p[1])) \in Seq(1 .. n)
      <4>1. p[2] \in Seq(1 .. n) /\ CallsOf(F(p[1])) \in Seq(1 .. n)
        BY <1>3
      <4>2. QED
        BY <4>1
    <3>2. QED
      BY <3>1
  <2>2. <<>> \in Seq(1 .. n) /\ 0 \in Int /\ k \in Int /\ 0 <= k
    BY <1>1
  <2> HIDE DEF next
  <2>3. RecursionIsDefined(0, k, Seq(1 .. n), <<>>, next)
    BY <2>1, <2>2, RecursionExists
  <2>4. PICK g \in [0 .. k -> Seq(1 .. n)] :
          /\ g[0] = <<>>
          /\ \A i \in 0 + 1 .. k : g[i] = next[<<i, g[i - 1]>>]
    BY <2>3 DEF RecursionIsDefined
  <2>5. ASSUME NEW i \in 0 .. k, i # 0 PROVE g[i] = g[i - 1] \o CallsOf(F(i))
    <3>1. i \in 0 + 1 .. k /\ i - 1 \in 0 .. k
      BY <1>1, <2>5
    <3>2. <<i, g[i - 1]>> \in (0 + 1 .. k) \X Seq(1 .. n)
      BY <2>4, <3>1
    <3>3. g[i] = next[<<i, g[i - 1]>>]
      BY <2>4, <3>1
    <3>4. QED
      BY <3>2, <3>3 DEF next
  <2>6. D(g)
    BY <2>4, <2>5 DEF F
  <2> HIDE DEF D
  <2>7. QED
    BY <2>6
<1> DEFINE c == CHOOSE g : D(g)
<1>5. senders = c[k]
  BY DEF senders
<1>6. D(c)
  <2> HIDE DEF D
  <2>1. QED
    BY <1>4
<1> HIDE DEF c, n, k
<1>7. c[0] = <<>> /\ \A i \in 1 .. k : c[i] = c[i - 1] \o CallsOf(F(i))
  <2>1. c[0] = <<>>
    BY <1>1, <1>6
  <2>2. ASSUME NEW i \in 1 .. k PROVE c[i] = c[i - 1] \o CallsOf(F(i))
    <3>1. i \in 0 .. k /\ i # 0
      BY <1>1
    <3>2. QED
      BY <1>6, <3>1
  <2>3. QED
    BY <2>1, <2>2
<1> HIDE DEF D
<1> DEFINE T == {i \in 0 .. k : Enumerates(c[i], UpTo(i))}
<1>8. 0 \in T
  <2>1. UpTo(0) = {}
    OBVIOUS
  <2> HIDE DEF UpTo
  <2>2. Enumerates(c[0], UpTo(0))
    BY <1>7, <2>1, EnumeratesNothing
  <2>3. QED
    BY <1>1, <2>2
<1>9. ASSUME NEW i \in 0 .. k - 1, i \in T PROVE i + 1 \in T
  <2>1. i + 1 \in 1 .. k /\ (i + 1) - 1 = i /\ i + 1 \in 0 .. k /\ i \in Nat
    BY <1>1
  <2>2. c[i + 1] = c[i] \o CallsOf(F(i + 1))
    BY <1>7, <2>1
  <2>3. UpTo(i + 1) = UpTo(i) \cup SendsOf(F(i + 1))
    <3>1. \A j : j \in 1 .. i + 1 <=> j \in 1 .. i \/ j = i + 1
      BY <2>1
    <3>2. QED
      BY <3>1 DEF SendsOf
  <2>4. UpTo(i) \cap SendsOf(F(i + 1)) = {}
    <3>1. \A j \in 1 .. i : F(j) # F(i + 1)
      BY <1>1, <2>1, SendFunctionsDiffer
    <3>2. QED
      BY <3>1 DEF SendsOf
  <2>5. Enumerates(c[i], UpTo(i)) /\ Enumerates(CallsOf(F(i + 1)), SendsOf(F(i + 1)))
    BY <1>2, <1>9
  <2> HIDE DEF UpTo, F
  <2>6. Enumerates(c[i + 1], UpTo(i + 1))
    BY <2>2, <2>3, <2>4, <2>5, EnumeratesBoth
  <2>7. QED
    BY <2>1, <2>6
<1>10. Enumerates(c[k], UpTo(k))
  <2> HIDE DEF T
  <2>1. 0 .. k \subseteq T
    BY <1>1, <1>8, <1>9, IntervalInduction
  <2>2. k \in T
    BY <1>1, <2>1
  <2>3. QED
    BY <2>2 DEF T
<1>11. UpTo(k) = DOMAIN m.sends
  <2>1. ASSUME NEW a \in DOMAIN m.sends PROVE \E j \in 1 .. k : m.sends[a].name = F(j)
    <3>1. m.sends[a] \in Sent(Len(m.regions))
      BY <1>1
    <3>2. QED
      BY <1>1, <3>1 DEF Sent
  <2>2. QED
    BY <2>1
<1>12. QED
  BY <1>5, <1>10, <1>11

-----------------------------------------------------------------------------
(* What a sequence of questions does to what is known of the analyses.     *)

AllFunctions == Nat \X Nat

Cached == AllFunctions \cup {NoFunction}

Results ==
  [ran : Cached, current : [Kinds -> Cached], alive : BOOLEAN, stale : SUBSET (Kinds \cup {"SCEV"})]

Question == (Kinds \cup {"AA", "SCEV"}) \X AllFunctions

LEMMA AfterQuestionType ==
  ASSUME NEW x \in Results, NEW q \in Question
  PROVE  AfterQuestion(x, q) \in Results /\ x.stale \subseteq AfterQuestion(x, q).stale
<1> DEFINE f == q[2]
           kind == q[1]
<1>1. f \in Cached /\ kind \in Kinds \cup {"AA", "SCEV"}
  BY DEF Question, Cached
<1>2. CASE kind = "AA"
  <2>1. AfterQuestion(x, q) = [x EXCEPT !.ran = f, !.alive = FALSE]
    BY <1>2 DEF AfterQuestion, getAAResults, Run
  <2>2. QED
    BY <1>1, <2>1 DEF Results
<1>3. CASE kind = "SCEV"
  <2>1. AfterQuestion(x, q) = [x EXCEPT !.stale = IF x.alive THEN @ ELSE @ \cup {"SCEV"}]
    BY <1>3 DEF AfterQuestion
  <2>2. QED
    BY <2>1 DEF Results
<1>4. CASE kind \in Kinds
  <2> DEFINE y == getAnalysis(x, kind, f)
  <2>1. y \in Results /\ y.stale = x.stale
    BY <1>1, <1>4 DEF Results, getAnalysis, Run
  <2>2. AfterQuestion(x, q)
          = [y EXCEPT !.stale = IF WrongAnswer(y, kind, f) THEN @ \cup {kind} ELSE @]
    BY <1>4 DEF AfterQuestion, Kinds
  <2> HIDE DEF y
  <2>3. QED
    BY <1>4, <2>1, <2>2 DEF Results
<1>5. QED
  BY <1>1, <1>2, <1>3, <1>4

LEMMA AfterQuestionsEquation ==
  ASSUME NEW x \in Results, NEW qs \in Seq(Question)
  PROVE  \E after \in [0 .. Len(qs) -> Results] :
           /\ after[0] = x
           /\ \A i \in 1 .. Len(qs) : after[i] = AfterQuestion(after[i - 1], qs[i])
           /\ AfterQuestions(x, qs) = after[Len(qs)]
<1> DEFINE n == Len(qs)
           D(g) == g = [i \in 0 .. n |-> IF i = 0 THEN x ELSE AfterQuestion(g[i - 1], qs[i])]
           next == [p \in (0 + 1 .. n) \X Results |-> AfterQuestion(p[2], qs[p[1]])]
<1>1. n \in Nat /\ \A i \in 1 .. n : qs[i] \in Question
  OBVIOUS
<1>2. PICK g \in [0 .. n -> Results] : D(g)
  <2> HIDE DEF n
  <2>1. next \in [(0 + 1 .. n) \X Results -> Results]
    <3>1. ASSUME NEW p \in (0 + 1 .. n) \X Results PROVE AfterQuestion(p[2], qs[p[1]]) \in Results
      <4>1. p[1] \in 1 .. n /\ p[2] \in Results
        BY <1>1
      <4>2. qs[p[1]] \in Question
        BY <1>1, <4>1
      <4>3. QED
        BY <4>1, <4>2, AfterQuestionType
    <3>2. QED
      BY <3>1
  <2>2. 0 \in Int /\ n \in Int /\ 0 <= n
    BY <1>1
  <2> HIDE DEF next
  <2>3. RecursionIsDefined(0, n, Results, x, next)
    BY <2>1, <2>2, RecursionExists
  <2>4. PICK g \in [0 .. n -> Results] :
          /\ g[0] = x
          /\ \A i \in 0 + 1 .. n : g[i] = next[<<i, g[i - 1]>>]
    BY <2>3 DEF RecursionIsDefined
  <2>5. ASSUME NEW i \in 0 .. n, i # 0 PROVE g[i] = AfterQuestion(g[i - 1], qs[i])
    <3>1. i \in 0 + 1 .. n /\ i - 1 \in 0 .. n
      BY <1>1, <2>5
    <3>2. <<i, g[i - 1]>> \in (0 + 1 .. n) \X Results
      BY <2>4, <3>1
    <3>3. g[i] = next[<<i, g[i - 1]>>]
      BY <2>4, <3>1
    <3>4. QED
      BY <3>2, <3>3 DEF next
  <2>6. D(g)
    BY <2>4, <2>5
  <2> HIDE DEF D
  <2>7. QED
    BY <2>6
<1> DEFINE c == CHOOSE h : D(h)
<1>3. AfterQuestions(x, qs) = c[n]
  BY DEF AfterQuestions
<1>4. D(c)
  <2> HIDE DEF D
  <2>1. QED
    BY <1>2
<1> HIDE DEF c, n
<1>5. c[0] = x
  BY <1>1, <1>4
<1>6. ASSUME NEW i \in 1 .. n PROVE c[i] = AfterQuestion(c[i - 1], qs[i])
  <2>1. i \in 0 .. n /\ i # 0
    BY <1>1
  <2>2. QED
    BY <1>4, <2>1
<1>7. c \in [0 .. n -> Results]
  <2>1. c = [i \in 0 .. n |-> c[i]]
    BY <1>4
  <2> DEFINE T == {i \in 0 .. n : c[i] \in Results}
  <2> HIDE DEF D
  <2>2. 0 \in T
    BY <1>1, <1>5
  <2>3. ASSUME NEW i \in 0 .. n - 1, i \in T PROVE i + 1 \in T
    <3>1. i + 1 \in 1 .. n /\ (i + 1) - 1 = i /\ i + 1 \in 0 .. n
      BY <1>1
    <3>2. qs[i + 1] \in Question /\ c[i] \in Results
      BY <1>1, <2>3, <3>1
    <3>3. c[i + 1] = AfterQuestion(c[i], qs[i + 1])
      BY <1>6, <3>1
    <3>4. c[i + 1] \in Results
      BY <3>2, <3>3, AfterQuestionType
    <3>5. QED
      BY <3>1, <3>4
  <2>4. 0 .. n \subseteq T
    <3> HIDE DEF T
    <3>1. QED
      BY <1>1, <2>2, <2>3, IntervalInduction
  <2>5. QED
    BY <2>1, <2>4
<1>8. QED
  BY <1>3, <1>5, <1>6, <1>7 DEF n

(* What each question keeps is kept.                                       *)
LEMMA AfterQuestionsKeep ==
  ASSUME NEW x, NEW qs \in Seq(Question), NEW P, P \subseteq Results, x \in P,
         \A i \in 1 .. Len(qs) : \A y \in P : AfterQuestion(y, qs[i]) \in P
  PROVE  AfterQuestions(x, qs) \in P
<1> DEFINE n == Len(qs)
<1>1. n \in Nat /\ x \in Results
  OBVIOUS
<1>2. PICK after \in [0 .. n -> Results] :
        /\ after[0] = x
        /\ \A i \in 1 .. n : after[i] = AfterQuestion(after[i - 1], qs[i])
        /\ AfterQuestions(x, qs) = after[n]
  BY <1>1, AfterQuestionsEquation
<1> DEFINE T == {i \in 0 .. n : after[i] \in P}
<1> HIDE DEF n
<1>3. 0 \in T
  BY <1>1, <1>2
<1>4. ASSUME NEW i \in 0 .. n - 1, i \in T PROVE i + 1 \in T
  <2>1. i + 1 \in 1 .. n /\ (i + 1) - 1 = i /\ i + 1 \in 0 .. n
    BY <1>1
  <2>2. after[i + 1] = AfterQuestion(after[i], qs[i + 1]) /\ after[i] \in P
    BY <1>2, <1>4, <2>1
  <2>3. QED
    BY <2>1, <2>2 DEF n
<1>5. 0 .. n \subseteq T
  <2> HIDE DEF T
  <2>1. QED
    BY <1>1, <1>3, <1>4, IntervalInduction
<1>6. QED
  BY <1>1, <1>2, <1>5

(* The same when what is kept changes with each question.                  *)
LEMMA AfterQuestionsFollow ==
  ASSUME NEW qs \in Seq(Question), NEW P \in [0 .. Len(qs) -> SUBSET Results], NEW x \in P[0],
         \A i \in 1 .. Len(qs) : \A y \in P[i - 1] : AfterQuestion(y, qs[i]) \in P[i]
  PROVE  AfterQuestions(x, qs) \in P[Len(qs)]
<1> DEFINE n == Len(qs)
<1>1. n \in Nat /\ x \in Results
  OBVIOUS
<1>2. PICK after \in [0 .. n -> Results] :
        /\ after[0] = x
        /\ \A i \in 1 .. n : after[i] = AfterQuestion(after[i - 1], qs[i])
        /\ AfterQuestions(x, qs) = after[n]
  BY <1>1, AfterQuestionsEquation
<1> DEFINE T == {i \in 0 .. n : after[i] \in P[i]}
<1> HIDE DEF n
<1>3. 0 \in T
  BY <1>1, <1>2
<1>4. ASSUME NEW i \in 0 .. n - 1, i \in T PROVE i + 1 \in T
  <2>1. i + 1 \in 1 .. n /\ (i + 1) - 1 = i /\ i + 1 \in 0 .. n
    BY <1>1
  <2>2. after[i + 1] = AfterQuestion(after[i], qs[i + 1]) /\ after[i] \in P[i]
    BY <1>2, <1>4, <2>1
  <2>3. QED
    BY <2>1, <2>2 DEF n
<1>5. 0 .. n \subseteq T
  <2> HIDE DEF T
  <2>1. QED
    BY <1>1, <1>3, <1>4, IntervalInduction
<1>6. QED
  BY <1>1, <1>2, <1>5 DEF n

LEMMA AfterQuestionsType ==
  ASSUME NEW x \in Results, NEW qs \in Seq(Question)
  PROVE  AfterQuestions(x, qs) \in Results /\ x.stale \subseteq AfterQuestions(x, qs).stale
<1> DEFINE P == {y \in Results : x.stale \subseteq y.stale}
<1>1. ASSUME NEW i \in 1 .. Len(qs), NEW y \in P PROVE AfterQuestion(y, qs[i]) \in P
  <2>1. qs[i] \in Question /\ y \in Results
    OBVIOUS
  <2>2. AfterQuestion(y, qs[i]) \in Results /\ y.stale \subseteq AfterQuestion(y, qs[i]).stale
    BY <2>1, AfterQuestionType
  <2>3. QED
    BY <2>2
<1>2. AfterQuestions(x, qs) \in P
  <2>1. P \subseteq Results /\ x \in P
    OBVIOUS
  <2> HIDE DEF P
  <2>2. QED
    BY <1>1, <2>1, AfterQuestionsKeep
<1>3. QED
  BY <1>2

LEMMA AfterTwoLists ==
  ASSUME NEW x \in Results, NEW p \in Seq(Question), NEW q \in Seq(Question)
  PROVE  AfterQuestions(x, p \o q) = AfterQuestions(AfterQuestions(x, p), q)
<1> DEFINE n == Len(p)
           k == Len(q)
           l == p \o q
           y == AfterQuestions(x, p)
<1>1. /\ n \in Nat /\ k \in Nat /\ l \in Seq(Question) /\ Len(l) = n + k
      /\ \A i \in 1 .. n : l[i] = p[i]
      /\ \A i \in 1 .. k : l[n + i] = q[i]
  OBVIOUS
<1>2. y \in Results
  BY AfterQuestionsType
<1> HIDE DEF l, y
<1>3. PICK f \in [0 .. n -> Results] :
        /\ f[0] = x
        /\ \A i \in 1 .. n : f[i] = AfterQuestion(f[i - 1], p[i])
        /\ y = f[n]
  BY AfterQuestionsEquation DEF y
<1>4. PICK g \in [0 .. k -> Results] :
        /\ g[0] = y
        /\ \A i \in 1 .. k : g[i] = AfterQuestion(g[i - 1], q[i])
        /\ AfterQuestions(y, q) = g[k]
  BY <1>2, AfterQuestionsEquation
<1>5. PICK h \in [0 .. n + k -> Results] :
        /\ h[0] = x
        /\ \A i \in 1 .. n + k : h[i] = AfterQuestion(h[i - 1], l[i])
        /\ AfterQuestions(x, l) = h[n + k]
  <2>1. PICK h \in [0 .. Len(l) -> Results] :
        /\ h[0] = x
        /\ \A i \in 1 .. Len(l) : h[i] = AfterQuestion(h[i - 1], l[i])
        /\ AfterQuestions(x, l) = h[Len(l)]
    BY <1>1, AfterQuestionsEquation
  <2>2. QED
    BY <1>1, <2>1
<1> HIDE DEF n, k
<1>6. h[n] = y
  <2> DEFINE T == {i \in 0 .. n : h[i] = f[i]}
  <2>1. 0 \in T
    BY <1>1, <1>3, <1>5
  <2>2. ASSUME NEW i \in 0 .. n - 1, i \in T PROVE i + 1 \in T
    <3>1. i + 1 \in 1 .. n /\ (i + 1) - 1 = i /\ i + 1 \in 0 .. n /\ i + 1 \in 1 .. n + k
      BY <1>1
    <3>2. h[i + 1] = AfterQuestion(h[i], l[i + 1]) /\ f[i + 1] = AfterQuestion(f[i], p[i + 1])
      BY <1>3, <1>5, <3>1
    <3>3. l[i + 1] = p[i + 1] /\ h[i] = f[i]
      BY <1>1, <2>2, <3>1
    <3>4. QED
      BY <3>1, <3>2, <3>3
  <2>3. 0 .. n \subseteq T
    <3> HIDE DEF T
    <3>1. QED
      BY <1>1, <2>1, <2>2, IntervalInduction
  <2>4. QED
    BY <1>1, <1>3, <2>3
<1>7. h[n + k] = g[k]
  <2> DEFINE T == {i \in 0 .. k : h[n + i] = g[i]}
  <2>1. 0 \in T
    BY <1>1, <1>4, <1>6
  <2>2. ASSUME NEW i \in 0 .. k - 1, i \in T PROVE i + 1 \in T
    <3>1. /\ i + 1 \in 1 .. k /\ (i + 1) - 1 = i /\ i + 1 \in 0 .. k
          /\ n + (i + 1) \in 1 .. n + k /\ (n + (i + 1)) - 1 = n + i
      BY <1>1
    <3>2. /\ h[n + (i + 1)] = AfterQuestion(h[n + i], l[n + (i + 1)])
          /\ g[i + 1] = AfterQuestion(g[i], q[i + 1])
      BY <1>4, <1>5, <3>1
    <3>3. l[n + (i + 1)] = q[i + 1] /\ h[n + i] = g[i]
      BY <1>1, <2>2, <3>1
    <3>4. QED
      BY <3>1, <3>2, <3>3
  <2>3. 0 .. k \subseteq T
    <3> HIDE DEF T
    <3>1. QED
      BY <1>1, <2>1, <2>2, IntervalInduction
  <2>4. QED
    BY <1>1, <2>3
<1>8. QED
  BY <1>4, <1>5, <1>7 DEF l, y

LEMMA AfterNothing ==
  ASSUME NEW x \in Results
  PROVE  AfterQuestions(x, <<>>) = x
<1>1. <<>> \in Seq(Question) /\ Len(<<>>) = 0
  OBVIOUS
<1>2. PICK after \in [0 .. Len(<<>>) -> Results] :
        after[0] = x /\ AfterQuestions(x, <<>>) = after[Len(<<>>)]
  BY <1>1, AfterQuestionsEquation
<1>3. QED
  BY <1>1, <1>2

LEMMA AfterOne ==
  ASSUME NEW x \in Results, NEW q \in Question
  PROVE  AfterQuestions(x, <<q>>) = AfterQuestion(x, q)
<1> DEFINE l == <<q>>
<1>1. l \in Seq(Question) /\ Len(l) = 1 /\ l[1] = q
  OBVIOUS
<1> HIDE DEF l
<1>2. PICK after \in [0 .. Len(l) -> Results] :
        /\ after[0] = x
        /\ \A i \in 1 .. Len(l) : after[i] = AfterQuestion(after[i - 1], l[i])
        /\ AfterQuestions(x, l) = after[Len(l)]
  BY <1>1, AfterQuestionsEquation
<1>3. after[1] = AfterQuestion(after[1 - 1], l[1])
  BY <1>1, <1>2
<1>4. QED
  BY <1>1, <1>2, <1>3 DEF l

LEMMA AfterTwo ==
  ASSUME NEW x \in Results, NEW a \in Question, NEW b \in Question
  PROVE  AfterQuestions(x, <<a, b>>) = AfterQuestion(AfterQuestion(x, a), b)
<1> DEFINE l == <<a, b>>
<1>1. l \in Seq(Question) /\ Len(l) = 2 /\ l[1] = a /\ l[2] = b
  OBVIOUS
<1> HIDE DEF l
<1>2. PICK after \in [0 .. Len(l) -> Results] :
        /\ after[0] = x
        /\ \A i \in 1 .. Len(l) : after[i] = AfterQuestion(after[i - 1], l[i])
        /\ AfterQuestions(x, l) = after[Len(l)]
  BY <1>1, AfterQuestionsEquation
<1>3. /\ after[1] = AfterQuestion(after[0], a)
      /\ after[2] = AfterQuestion(after[1], b)
  <2>1. 1 \in 1 .. Len(l) /\ 2 \in 1 .. Len(l) /\ 1 - 1 = 0 /\ 2 - 1 = 1
    BY <1>1
  <2>2. QED
    BY <1>1, <1>2, <2>1
<1>4. QED
  BY <1>1, <1>2, <1>3 DEF l

LEMMA AfterThree ==
  ASSUME NEW x \in Results, NEW a \in Question, NEW b \in Question, NEW c \in Question
  PROVE  AfterQuestions(x, <<a, b, c>>) = AfterQuestion(AfterQuestion(AfterQuestion(x, a), b), c)
<1> DEFINE l == <<a, b, c>>
<1>1. l \in Seq(Question) /\ Len(l) = 3 /\ l[1] = a /\ l[2] = b /\ l[3] = c
  OBVIOUS
<1> HIDE DEF l
<1>2. PICK after \in [0 .. Len(l) -> Results] :
        /\ after[0] = x
        /\ \A i \in 1 .. Len(l) : after[i] = AfterQuestion(after[i - 1], l[i])
        /\ AfterQuestions(x, l) = after[Len(l)]
  BY <1>1, AfterQuestionsEquation
<1>3. /\ after[1] = AfterQuestion(after[0], a)
      /\ after[2] = AfterQuestion(after[1], b)
      /\ after[3] = AfterQuestion(after[2], c)
  <2>1. 1 \in 1 .. Len(l) /\ 2 \in 1 .. Len(l) /\ 3 \in 1 .. Len(l) /\ 1 - 1 = 0 /\ 2 - 1 = 1 /\ 3 - 1 = 2
    BY <1>1
  <2>2. QED
    BY <1>1, <1>2, <2>1
<1>4. QED
  BY <1>1, <1>2, <1>3 DEF l

-----------------------------------------------------------------------------
(* The range of the addresses of a region's stores.                        *)

StoreOf == [after_loop : BOOLEAN, base : STRING, offset : Int]

(* A range that is known has the address of every store at both ends: the  *)
(* greatest address is the first, and is never changed.                    *)
LEMMA KnownRange ==
  ASSUME NEW stores \in Seq(StoreOf), stores # <<>>, AccessRange(stores).known
  PROVE  LET range == AccessRange(stores)
         IN  /\ range.min \in StoreOf /\ range.max \in StoreOf
             /\ \A j \in DOMAIN stores :
                  /\ range.min.base = stores[j].base /\ range.min.offset = stores[j].offset
                  /\ range.max.base = stores[j].base /\ range.max.offset = stores[j].offset
<1> DEFINE n == Len(stores)
           R == [known : BOOLEAN, min : StoreOf, max : StoreOf]
           Step(i, x) == [x EXCEPT !.known = @ /\ isKnownLE(stores[i], x.min)
                                               /\ isKnownLE(x.max, stores[i]),
                                   !.min = stores[i]]
           init == [known |-> TRUE, min |-> stores[1], max |-> stores[1]]
           D(g) == g = [i \in 1 .. n |-> IF i = 1 THEN init ELSE Step(i, g[i - 1])]
           next == [p \in (1 + 1 .. n) \X R |-> Step(p[1], p[2])]
<1>1. n \in Nat \ {0} /\ DOMAIN stores = 1 .. n /\ \A i \in 1 .. n : stores[i] \in StoreOf
  OBVIOUS
<1>2. ASSUME NEW x \in R, NEW i \in 1 .. n
      PROVE  /\ Step(i, x) \in R
             /\ Step(i, x).min = stores[i] /\ Step(i, x).max = x.max
             /\ Step(i, x).known <=> /\ x.known /\ isKnownLE(stores[i], x.min)
                                     /\ isKnownLE(x.max, stores[i])
  <2>1. stores[i] \in StoreOf
    BY <1>1
  <2> DEFINE known == x.known /\ isKnownLE(stores[i], x.min) /\ isKnownLE(x.max, stores[i])
  <2>2. known \in BOOLEAN
    OBVIOUS
  <2>3. Step(i, x) = [x EXCEPT !.known = known, !.min = stores[i]]
    OBVIOUS
  <2> HIDE DEF known, Step
  <2>4. QED
    BY <2>1, <2>2, <2>3 DEF known
<1>3. init \in R /\ init.known /\ init.min = stores[1] /\ init.max = stores[1]
  BY <1>1
<1> HIDE DEF n, R, Step, init
<1>4. PICK g \in [1 .. n -> R] : D(g)
  <2>1. next \in [(1 + 1 .. n) \X R -> R]
    <3>1. ASSUME NEW p \in (1 + 1 .. n) \X R PROVE Step(p[1], p[2]) \in R
      <4>1. p[1] \in 1 .. n /\ p[2] \in R
        BY <1>1
      <4>2. QED
        BY <1>2, <4>1
    <3>2. QED
      BY <3>1
  <2>2. 1 \in Int /\ n \in Int /\ 1 <= n
    BY <1>1
  <2> HIDE DEF next
  <2>3. RecursionIsDefined(1, n, R, init, next)
    BY <1>3, <2>1, <2>2, RecursionExists
  <2>4. PICK g \in [1 .. n -> R] :
          /\ g[1] = init
          /\ \A i \in 1 + 1 .. n : g[i] = next[<<i, g[i - 1]>>]
    BY <2>3 DEF RecursionIsDefined
  <2>5. ASSUME NEW i \in 1 .. n, i # 1 PROVE g[i] = Step(i, g[i - 1])
    <3>1. i \in 1 + 1 .. n /\ i - 1 \in 1 .. n
      BY <1>1, <2>5
    <3>2. <<i, g[i - 1]>> \in (1 + 1 .. n) \X R
      BY <2>4, <3>1
    <3>3. g[i] = next[<<i, g[i - 1]>>]
      BY <2>4, <3>1
    <3>4. QED
      BY <3>2, <3>3 DEF next
  <2>6. D(g)
    BY <2>4, <2>5
  <2> HIDE DEF D
  <2>7. QED
    BY <2>6
<1> DEFINE c == CHOOSE h : D(h)
<1>5. AccessRange(stores) = c[n]
  BY DEF AccessRange, n, Step, init
<1>6. D(c)
  <2> HIDE DEF D
  <2>1. QED
    BY <1>4
<1> HIDE DEF c
<1>7. c[1] = init /\ \A i \in 2 .. n : c[i] = Step(i, c[i - 1])
  <2>1. c[1] = init
    BY <1>1, <1>6
  <2>2. ASSUME NEW i \in 2 .. n PROVE c[i] = Step(i, c[i - 1])
    <3>1. i \in 1 .. n /\ i # 1
      BY <1>1
    <3>2. QED
      BY <1>6, <3>1
  <2>3. QED
    BY <2>1, <2>2
<1> HIDE DEF D
(* Up to i, a known range is the address of the first store.               *)
<1> DEFINE Same(a, b) == a.base = b.base /\ a.offset = b.offset
           Inv(i) == /\ c[i] \in R /\ c[i].min = stores[i] /\ c[i].max = stores[1]
                     /\ c[i].known => \A j \in 1 .. i : Same(stores[j], stores[1])
           T == {i \in 0 .. n : i # 0 => Inv(i)}
<1>8. 0 \in T
  BY <1>1
<1>9. ASSUME NEW i \in 0 .. n - 1, i \in T PROVE i + 1 \in T
  <2>1. i + 1 \in 1 .. n /\ (i + 1) - 1 = i /\ i + 1 \in 0 .. n
    BY <1>1
  <2>2. CASE i = 0
    <3>1. Same(stores[1], stores[1])
      OBVIOUS
    <3> HIDE DEF Same
    <3>2. \A j \in 1 .. 1 : Same(stores[j], stores[1])
      BY <3>1
    <3>3. Inv(1)
      BY <1>3, <1>7, <3>2
    <3> HIDE DEF Inv
    <3>4. QED
      BY <2>1, <2>2, <3>3
  <2>3. CASE i # 0
    <3>1. Inv(i) /\ i \in 1 .. n /\ i + 1 \in 2 .. n /\ 1 \in 1 .. n
      BY <1>1, <1>9, <2>3
    <3>2. c[i + 1] = Step(i + 1, c[i])
      BY <1>7, <2>1, <3>1
    <3>3. /\ c[i + 1] \in R /\ c[i + 1].min = stores[i + 1] /\ c[i + 1].max = stores[1]
          /\ c[i + 1].known <=> /\ c[i].known /\ isKnownLE(stores[i + 1], stores[i])
                                /\ isKnownLE(stores[1], stores[i + 1])
      <4>1. c[i] \in R /\ c[i].min = stores[i] /\ c[i].max = stores[1]
        BY <3>1
      <4>2. /\ Step(i + 1, c[i]) \in R
            /\ Step(i + 1, c[i]).min = stores[i + 1] /\ Step(i + 1, c[i]).max = c[i].max
            /\ Step(i + 1, c[i]).known <=> /\ c[i].known /\ isKnownLE(stores[i + 1], c[i].min)
                                           /\ isKnownLE(c[i].max, stores[i + 1])
        BY <1>2, <2>1, <4>1
      <4>3. QED
        BY <3>2, <4>1, <4>2
    <3>4. ASSUME c[i + 1].known PROVE \A j \in 1 .. i + 1 : Same(stores[j], stores[1])
      <4>1. /\ \A j \in 1 .. i : Same(stores[j], stores[1])
            /\ isKnownLE(stores[i + 1], stores[i]) /\ isKnownLE(stores[1], stores[i + 1])
        BY <3>1, <3>3, <3>4
      <4>2. Same(stores[i], stores[1]) /\ i \in 1 .. i
        BY <3>1, <4>1
      <4>3. stores[i] \in StoreOf /\ stores[i + 1] \in StoreOf /\ stores[1] \in StoreOf
        BY <1>1, <2>1, <3>1
      <4>4. Same(stores[i + 1], stores[1])
        <5>1. /\ stores[i].offset \in Int /\ stores[i + 1].offset \in Int /\ stores[1].offset \in Int
          BY <4>3 DEF StoreOf
        <5>2. /\ stores[i + 1].base = stores[i].base /\ stores[i + 1].offset <= stores[i].offset
              /\ stores[1].offset <= stores[i + 1].offset
          BY <4>1 DEF isKnownLE
        <5>3. stores[i].base = stores[1].base /\ stores[i].offset = stores[1].offset
          BY <4>2
        <5>4. QED
          BY <5>1, <5>2, <5>3
      <4>5. \A j \in 1 .. i + 1 : j \in 1 .. i \/ j = i + 1
        BY <3>1
      <4> HIDE DEF Same
      <4>6. QED
        BY <4>1, <4>4, <4>5
    <3> HIDE DEF Same
    <3>5. Inv(i + 1)
      BY <3>3, <3>4
    <3> HIDE DEF Inv
    <3>6. QED
      BY <2>1, <3>5
  <2>4. QED
    BY <2>2, <2>3
<1>10. Inv(n)
  <2> HIDE DEF T
  <2>1. 0 .. n \subseteq T
    BY <1>1, <1>8, <1>9, IntervalInduction
  <2>2. n \in T
    BY <1>1, <2>1
  <2>3. QED
    BY <1>1, <2>2 DEF T
<1>11. \A j \in 1 .. n : Same(stores[j], stores[1])
  BY <1>5, <1>10
<1>12. AccessRange(stores).min = stores[n] /\ AccessRange(stores).max = stores[1] /\ n \in 1 .. n /\ 1 \in 1 .. n
  BY <1>1, <1>5, <1>10
<1>13. QED
  BY <1>1, <1>11, <1>12

(* Known ranges bound the stores they were computed from.                  *)
LEMMA KnownRangeCovers ==
  ASSUME NEW stores \in Seq(StoreOf), stores # <<>>, AccessRange(stores).known
  PROVE  LET range == AccessRange(stores)
         IN  \A j \in DOMAIN stores :
               isKnownLE(range.min, stores[j]) /\ isKnownLE(stores[j], range.max)
<1> DEFINE range == AccessRange(stores)
<1>1. /\ range.min \in StoreOf /\ range.max \in StoreOf
      /\ \A j \in DOMAIN stores :
           /\ range.min.base = stores[j].base /\ range.min.offset = stores[j].offset
           /\ range.max.base = stores[j].base /\ range.max.offset = stores[j].offset
  BY KnownRange
<1> HIDE DEF range
<1>2. ASSUME NEW j \in DOMAIN stores
      PROVE  isKnownLE(range.min, stores[j]) /\ isKnownLE(stores[j], range.max)
  <2>1. /\ range.min.offset \in Int /\ range.max.offset \in Int
    BY <1>1 DEF StoreOf
  <2>2. QED
    BY <1>1, <2>1 DEF isKnownLE
<1>3. QED
  BY <1>2 DEF range

-----------------------------------------------------------------------------
(* The states of the loop over the sends.                                  *)

Outcomes ==
  {"no_region", "readonly", "no_loop", "call", "store_after_loop", "no_range", "not_affine",
   "partitioned"}

TypeInv ==
  /\ IsModule(m)
  /\ handled \in 0 .. Len(senders)
  /\ step \in {"send", "fork", "insert", "aborted"}
  /\ step \in {"fork", "insert"} => handled < Len(senders) /\ r # nullptr
  /\ step = "insert" => Decision = "partitioned"
  /\ results \in Results
  /\ forked \in [DOMAIN m.regions -> [signoffs : Seq(Nat), args : Seq(Nat)]]
  /\ decision \in Seq([send : Nat, is : Outcomes])
  /\ Len(decision) = handled
  /\ \A i \in 1 .. handled : decision[i].send = senders[i]

LEMMA SendersAreSends ==
  ASSUME IsModule(m)
  PROVE  /\ Len(m.sends) \in Nat /\ DOMAIN m.sends = 1 .. Len(m.sends)
         /\ Len(m.regions) \in Nat /\ DOMAIN m.regions = 1 .. Len(m.regions)
         /\ Len(senders) \in Nat /\ DOMAIN senders = 1 .. Len(senders)
         /\ \A i \in 1 .. Len(senders) : senders[i] \in DOMAIN m.sends
         /\ \A i, j \in 1 .. Len(senders) : i # j => senders[i] # senders[j]
         /\ \A a \in DOMAIN m.sends : \E i \in 1 .. Len(senders) : senders[i] = a
         /\ \A a \in DOMAIN m.sends : m.sends[a] \in Sent(Len(m.regions))
         /\ \A q \in DOMAIN m.regions : m.regions[q] \in Region
<1>1. Enumerates(senders, DOMAIN m.sends)
  BY SendersEnumerate
<1>2. senders \in Seq(DOMAIN m.sends) /\ m.sends \in Seq(Sent(Len(m.regions))) /\ m.regions \in Seq(Region)
  BY <1>1 DEF Enumerates, IsModule
<1>3. Len(senders) \in Nat /\ DOMAIN senders = 1 .. Len(senders)
  BY <1>2
<1>4. /\ \A i, j \in 1 .. Len(senders) : i # j => senders[i] # senders[j]
      /\ \A a \in DOMAIN m.sends : \E i \in 1 .. Len(senders) : senders[i] = a
  BY <1>1, <1>3 DEF Enumerates
<1>5. QED
  BY <1>2, <1>3, <1>4

LEMMA CurrentSend ==
  ASSUME TypeInv, handled < Len(senders)
  PROVE  /\ handled \in Nat /\ handled + 1 \in 1 .. Len(senders)
         /\ s \in DOMAIN m.sends /\ s \in Nat
         /\ send \in Sent(Len(m.regions)) /\ r \in Nat
         /\ send.function \in Function /\ Function \subseteq AllFunctions
         /\ r # nullptr => r \in DOMAIN m.regions /\ region \in Region
<1>1. handled \in Nat /\ handled + 1 \in 1 .. Len(senders)
  BY SendersAreSends DEF TypeInv
<1>2. s \in DOMAIN m.sends /\ s \in Nat
  BY <1>1, SendersAreSends DEF TypeInv, s
<1>3. send \in Sent(Len(m.regions)) /\ Len(m.regions) \in Nat
  BY <1>2, SendersAreSends DEF TypeInv, send
<1>4. r \in 0 .. Len(m.regions) /\ send.function \in Function
  BY <1>3 DEF Sent, r
<1>5. r # nullptr => r \in DOMAIN m.regions
  BY <1>3, <1>4, SendersAreSends DEF TypeInv, nullptr
<1>6. r # nullptr => region \in Region
  BY <1>5, SendersAreSends DEF TypeInv, region
<1>7. Function \subseteq AllFunctions
  BY DEF Function, AllFunctions
<1>8. QED
  BY <1>1, <1>2, <1>3, <1>4, <1>5, <1>6, <1>7

LEMMA CurrentFunctions ==
  ASSUME TypeInv, handled < Len(senders), r # nullptr
  PROVE  /\ forked[r] \in [signoffs : Seq(Nat), args : Seq(Nat)]
         /\ Len(forked[r].args) \in Nat
         /\ parallel_function \in AllFunctions /\ parallel_function \notin Function
         /\ region.function \in AllFunctions /\ region.function \in Function
<1>1. r \in DOMAIN m.regions /\ region \in Region /\ r \in Nat /\ Function \subseteq AllFunctions
  BY CurrentSend
<1>2. forked[r] \in [signoffs : Seq(Nat), args : Seq(Nat)]
  BY <1>1 DEF TypeInv
<1>3. Len(forked[r].args) \in Nat
  BY <1>2
<1>4. parallel_function \in AllFunctions
  BY <1>1, <1>3 DEF parallel_function, AllFunctions
<1>5. parallel_function \notin Function
  BY <1>1, <1>3 DEF parallel_function, Function, nullptr
<1>6. region.function \in Function
  BY <1>1 DEF Region
<1>7. QED
  BY <1>1, <1>2, <1>3, <1>4, <1>5, <1>6

(* All that is asked are questions.                                        *)
AskedOfSend == [i \in DOMAIN send.asked |-> <<send.asked[i], send.function>>]

AskedOfCalls == [i \in CallsAsked |-> <<"AA", parallel_function>>]

LEMMA AskedOfSendType ==
  ASSUME TypeInv, handled < Len(senders)
  PROVE  AskedOfSend \in Seq({"LI", "DT", "PDT"} \X {send.function}) /\ AskedOfSend \in Seq(Question)
<1>1. send.asked \in Seq({"LI", "DT", "PDT"}) /\ send.function \in AllFunctions
  BY CurrentSend DEF Sent
<1>2. AskedOfSend \in Seq({"LI", "DT", "PDT"} \X {send.function})
  BY <1>1 DEF AskedOfSend
<1>3. {"LI", "DT", "PDT"} \X {send.function} \subseteq Question
  BY <1>1 DEF Question, Kinds
<1>4. QED
  BY <1>2, <1>3, SeqMonotonic

LEMMA AskedOfCallsType ==
  ASSUME TypeInv, handled < Len(senders), r # nullptr
  PROVE  /\ AskedOfCalls \in Seq({<<"AA", parallel_function>>})
         /\ AskedOfCalls \in Seq(Question)
<1>1. region \in Region /\ parallel_function \in AllFunctions
  BY CurrentSend, CurrentFunctions
<1>2. pointer_calls \in Seq({"other", "aliasing"})
  BY <1>1 DEF Region, pointer_calls
<1>3. PICK k \in 0 .. Len(pointer_calls) : CallsAsked = 1 .. k
  <2>1. Len(pointer_calls) \in Nat /\ CallsAsked \in SUBSET (1 .. Len(pointer_calls))
    BY <1>2 DEF CallsAsked
  <2>2. ASSUME NEW i \in CallsAsked, NEW j \in 1 .. i PROVE j \in CallsAsked
    <3>1. i \in 1 .. Len(pointer_calls) /\ j \in DOMAIN pointer_calls
      BY <1>2, <2>1, <2>2
    <3>2. \A n \in 1 .. i - 1 : pointer_calls[n] # "aliasing"
      BY DEF CallsAsked
    <3>3. 1 .. j - 1 \subseteq 1 .. i - 1
      BY <3>1
    <3>4. QED
      BY <3>1, <3>2, <3>3 DEF CallsAsked
  <2>3. QED
    BY <2>1, <2>2, PrefixIsInterval
<1>4. AskedOfCalls \in Seq({<<"AA", parallel_function>>})
  <2>1. k \in Nat
    BY <1>2
  <2>2. QED
    BY <1>3, <2>1 DEF AskedOfCalls
<1>5. {<<"AA", parallel_function>>} \subseteq Question
  BY <1>1 DEF Question
<1>6. QED
  BY <1>4, <1>5, SeqMonotonic

LEMMA QuestionsAboutValuesType ==
  ASSUME TypeInv, handled < Len(senders), r # nullptr
  PROVE  /\ QuestionsAboutValues \in Seq(Question)
         /\ DOMAIN region.asked = 1 .. Len(QuestionsAboutValues)
         /\ \A i \in 1 .. Len(QuestionsAboutValues) :
              \/ /\ region.asked[i] = "SCEV"
                 /\ QuestionsAboutValues[i] = <<"SCEV", parallel_function>>
              \/ /\ region.asked[i] \in {"PDT", "DT"}
                 /\ QuestionsAboutValues[i] = <<region.asked[i], region.function>>
<1>1. region \in Region /\ parallel_function \in AllFunctions /\ region.function \in AllFunctions
  BY CurrentSend, CurrentFunctions
<1>2. region.asked \in Seq({"SCEV", "PDT", "DT"})
  BY <1>1 DEF Region
<1> DEFINE n == Len(region.asked)
<1>3. n \in Nat /\ DOMAIN region.asked = 1 .. n
      /\ \A i \in 1 .. n : region.asked[i] \in {"SCEV", "PDT", "DT"}
  BY <1>2
<1> DEFINE f == parallel_function
           g == region.function
           q(i) == <<region.asked[i], IF region.asked[i] = "SCEV" THEN f ELSE g>>
<1>4. QuestionsAboutValues = [i \in 1 .. n |-> q(i)]
  BY <1>3 DEF QuestionsAboutValues
<1>5. \A i \in 1 .. n : q(i) \in Question
  BY <1>1, <1>3 DEF Question, Kinds
<1>6. QuestionsAboutValues \in Seq(Question) /\ Len(QuestionsAboutValues) = n
  <2> HIDE DEF q, n
  <2>1. QED
    BY <1>3, <1>4, <1>5
<1>7. QED
  BY <1>3, <1>4, <1>6

(* The results after the questions about a region and those of an          *)
(* insertion, one group of questions after the other.                      *)
Ask(x, kind, f) == AfterQuestion(x, <<kind, f>>)

AskThree(x, a, b, c, f) == Ask(Ask(Ask(x, a, f), b, f), c, f)

AfterCalls(x) == IF Decision = "no_loop" THEN x ELSE AfterQuestions(x, AskedOfCalls)

AfterLooking(x) ==
  IF Decision \in Looked THEN AskThree(x, "LI", "DT", "PDT", parallel_function) ELSE x

AfterComparing(x) ==
  IF Decision \in Compared THEN AskThree(x, "SE", "SCEV", "LI", parallel_function) ELSE x

AfterRegion(x) ==
  IF Decision = "readonly" THEN x
  ELSE AfterComparing(AfterLooking(AfterCalls(Ask(x, "AA", region.function))))

AfterValues(x) == AfterQuestions(x, QuestionsAboutValues)

AfterInsertion(x) ==
  AskThree(AfterValues(Ask(Ask(x, "SE", parallel_function), "SCEV", parallel_function)),
           "LI", "PDT", "DT", region.function)

LEMMA AskType ==
  ASSUME NEW x \in Results, NEW kind \in Kinds \cup {"AA", "SCEV"}, NEW f \in AllFunctions
  PROVE  Ask(x, kind, f) \in Results /\ <<kind, f>> \in Question
<1>1. <<kind, f>> \in Question
  BY DEF Question
<1>2. QED
  BY <1>1, AfterQuestionType DEF Ask

LEMMA AskThreeType ==
  ASSUME NEW x \in Results, NEW a \in Kinds \cup {"AA", "SCEV"},
         NEW b \in Kinds \cup {"AA", "SCEV"}, NEW c \in Kinds \cup {"AA", "SCEV"},
         NEW f \in AllFunctions
  PROVE  /\ AskThree(x, a, b, c, f) \in Results
         /\ <<<<a, f>>, <<b, f>>, <<c, f>>>> \in Seq(Question)
         /\ AfterQuestions(x, <<<<a, f>>, <<b, f>>, <<c, f>>>>) = AskThree(x, a, b, c, f)
<1>1. /\ Ask(x, a, f) \in Results
      /\ <<a, f>> \in Question /\ <<b, f>> \in Question /\ <<c, f>> \in Question
  BY AskType
<1>2. Ask(Ask(x, a, f), b, f) \in Results
  BY <1>1, AskType
<1>3. AskThree(x, a, b, c, f) \in Results
  BY <1>2, AskType DEF AskThree
<1> DEFINE qa == <<a, f>>
           qb == <<b, f>>
           qc == <<c, f>>
<1>4. AfterQuestions(x, <<qa, qb, qc>>) = AskThree(x, a, b, c, f)
  <2>1. qa \in Question /\ qb \in Question /\ qc \in Question
    BY <1>1
  <2>2. AskThree(x, a, b, c, f) = AfterQuestion(AfterQuestion(AfterQuestion(x, qa), qb), qc)
    BY DEF AskThree, Ask
  <2> HIDE DEF qa, qb, qc
  <2>3. QED
    BY <2>1, <2>2, AfterThree
<1>5. <<qa, qb, qc>> \in Seq(Question)
  <2>1. qa \in Question /\ qb \in Question /\ qc \in Question
    BY <1>1
  <2> HIDE DEF qa, qb, qc
  <2>2. QED
    BY <2>1
<1>6. QED
  BY <1>3, <1>4, <1>5

LEMMA QuestionsAboutRegionType ==
  ASSUME TypeInv, handled < Len(senders), r # nullptr
  PROVE  /\ QuestionsAboutRegion \in Seq(Question)
         /\ AfterQuestions(results, QuestionsAboutRegion) = AfterRegion(results)
<1> DEFINE f == parallel_function
           A == <<<<"AA", region.function>>>>
           B == IF Decision = "no_loop" THEN <<>> ELSE AskedOfCalls
           C == IF Decision \in Looked THEN <<<<"LI", f>>, <<"DT", f>>, <<"PDT", f>>>> ELSE <<>>
           E == IF Decision \in Compared THEN <<<<"SE", f>>, <<"SCEV", f>>, <<"LI", f>>>> ELSE <<>>
           xa == Ask(results, "AA", region.function)
           xb == AfterCalls(xa)
           xc == AfterLooking(xb)
           xe == AfterComparing(xc)
<1>1. f \in AllFunctions /\ region.function \in AllFunctions /\ results \in Results
  BY CurrentFunctions DEF TypeInv
<1>2. QuestionsAboutRegion = IF Decision = "readonly" THEN <<>> ELSE ((A \o B) \o C) \o E
  <2> HIDE DEF f
  <2>1. [i \in DOMAIN [j \in CallsAsked |-> "AA"] |-> <<[j \in CallsAsked |-> "AA"][i], f>>] = AskedOfCalls
    BY DEF AskedOfCalls, f
  <2>2. [i \in DOMAIN <<"LI", "DT", "PDT">> |-> <<<<"LI", "DT", "PDT">>[i], f>>]
          = <<<<"LI", f>>, <<"DT", f>>, <<"PDT", f>>>>
    OBVIOUS
  <2>3. [i \in DOMAIN <<"SE", "SCEV", "LI">> |-> <<<<"SE", "SCEV", "LI">>[i], f>>]
          = <<<<"SE", f>>, <<"SCEV", f>>, <<"LI", f>>>>
    OBVIOUS
  <2>4. QED
    BY <2>1, <2>2, <2>3 DEF QuestionsAboutRegion, f
<1>3. A \in Seq(Question) /\ xa \in Results /\ AfterQuestions(results, A) = xa
  <2> DEFINE q == <<"AA", region.function>>
  <2>1. q \in Question /\ xa \in Results /\ xa = AfterQuestion(results, q)
    BY <1>1, AskType DEF Ask
  <2> HIDE DEF q, xa
  <2>2. <<q>> \in Seq(Question) /\ AfterQuestions(results, <<q>>) = xa
    BY <1>1, <2>1, AfterOne
  <2>3. QED
    BY <2>1, <2>2 DEF q
<1> HIDE DEF A, xa
<1>4. B \in Seq(Question) /\ xb \in Results /\ AfterQuestions(xa, B) = xb
  <2>1. AskedOfCalls \in Seq(Question)
    BY AskedOfCallsType
  <2>2. <<>> \in Seq(Question)
    OBVIOUS
  <2>3. CASE Decision = "no_loop"
    BY <1>3, <2>2, <2>3, AfterNothing DEF AfterCalls
  <2>4. CASE Decision # "no_loop"
    BY <1>3, <2>1, <2>4, AfterQuestionsType DEF AfterCalls
  <2>5. QED
    BY <2>3, <2>4
<1> HIDE DEF B, xb
<1>5. C \in Seq(Question) /\ xc \in Results /\ AfterQuestions(xb, C) = xc
  <2>1. CASE Decision \in Looked
    <3>1. /\ AskThree(xb, "LI", "DT", "PDT", f) \in Results
          /\ <<<<"LI", f>>, <<"DT", f>>, <<"PDT", f>>>> \in Seq(Question)
          /\ AfterQuestions(xb, <<<<"LI", f>>, <<"DT", f>>, <<"PDT", f>>>>)
               = AskThree(xb, "LI", "DT", "PDT", f)
      <4>1. "LI" \in Kinds /\ "DT" \in Kinds /\ "PDT" \in Kinds
        BY DEF Kinds
      <4> HIDE DEF f
      <4>2. QED
        BY <1>1, <1>4, <4>1, AskThreeType
    <3>2. QED
      BY <2>1, <3>1 DEF AfterLooking
  <2>2. CASE Decision \notin Looked
    <3>1. <<>> \in Seq(Question)
      OBVIOUS
    <3>2. QED
      BY <1>4, <2>2, <3>1, AfterNothing DEF AfterLooking
  <2>3. QED
    BY <2>1, <2>2
<1> HIDE DEF C, xc
<1>6. E \in Seq(Question) /\ xe \in Results /\ AfterQuestions(xc, E) = xe
  <2>1. CASE Decision \in Compared
    <3>1. /\ AskThree(xc, "SE", "SCEV", "LI", f) \in Results
          /\ <<<<"SE", f>>, <<"SCEV", f>>, <<"LI", f>>>> \in Seq(Question)
          /\ AfterQuestions(xc, <<<<"SE", f>>, <<"SCEV", f>>, <<"LI", f>>>>)
               = AskThree(xc, "SE", "SCEV", "LI", f)
      <4>1. "LI" \in Kinds /\ "SE" \in Kinds
        BY DEF Kinds
      <4> HIDE DEF f
      <4>2. xc \in Results /\ f \in AllFunctions
        BY <1>1, <1>5
      <4>3. QED
        BY <4>1, <4>2, AskThreeType
    <3>2. QED
      BY <2>1, <3>1 DEF AfterComparing
  <2>2. CASE Decision \notin Compared
    <3>1. <<>> \in Seq(Question)
      OBVIOUS
    <3>2. QED
      BY <1>5, <2>2, <3>1, AfterNothing DEF AfterComparing
  <2>3. QED
    BY <2>1, <2>2
<1> HIDE DEF E, xe
<1> DEFINE AB == A \o B
           ABC == AB \o C
<1>7. AB \in Seq(Question) /\ AfterQuestions(results, AB) = xb
  BY <1>1, <1>3, <1>4, AfterTwoLists
<1> HIDE DEF AB
<1>8. ABC \in Seq(Question) /\ AfterQuestions(results, ABC) = xc
  BY <1>1, <1>5, <1>7, AfterTwoLists
<1> HIDE DEF ABC
<1>9. ABC \o E \in Seq(Question) /\ AfterQuestions(results, ABC \o E) = xe
  BY <1>1, <1>6, <1>8, AfterTwoLists
<1>10. CASE Decision = "readonly"
  <2>1. QuestionsAboutRegion = <<>> /\ <<>> \in Seq(Question)
    BY <1>2, <1>10
  <2>2. QED
    BY <1>1, <1>10, <2>1, AfterNothing DEF AfterRegion
<1>11. CASE Decision # "readonly"
  <2>1. QuestionsAboutRegion = ABC \o E
    BY <1>2, <1>11 DEF AB, ABC
  <2>2. AfterRegion(results) = xe
    BY <1>11 DEF AfterRegion, xa, xb, xc, xe
  <2>3. QED
    BY <1>9, <2>1, <2>2
<1>12. QED
  BY <1>10, <1>11

LEMMA QuestionsOfInsertionType ==
  ASSUME TypeInv, handled < Len(senders), r # nullptr
  PROVE  /\ QuestionsOfInsertion \in Seq(Question)
         /\ AfterQuestions(results, QuestionsOfInsertion) = AfterInsertion(results)
<1> DEFINE f == parallel_function
           g == region.function
           qse == <<"SE", f>>
           qsv == <<"SCEV", f>>
           B == QuestionsAboutValues
           C == <<<<"LI", g>>, <<"PDT", g>>, <<"DT", g>>>>
           xa == Ask(results, "SE", f)
           xb == Ask(xa, "SCEV", f)
           xc == AfterValues(xb)
<1>1. f \in AllFunctions /\ g \in AllFunctions /\ results \in Results
  BY CurrentFunctions DEF TypeInv
<1>2. QuestionsOfInsertion = (<<qse, qsv>> \o B) \o C
  BY DEF QuestionsOfInsertion
<1>3. "SE" \in Kinds /\ "PDT" \in Kinds /\ "DT" \in Kinds /\ "LI" \in Kinds
  BY DEF Kinds
<1>4. /\ qse \in Question /\ xa \in Results /\ xa = AfterQuestion(results, qse)
      /\ qsv \in Question /\ xb \in Results /\ xb = AfterQuestion(xa, qsv)
  <2>0. "SE" \in Kinds \cup {"AA", "SCEV"} /\ "SCEV" \in Kinds \cup {"AA", "SCEV"}
    BY <1>3
  <2>1. qse \in Question /\ xa \in Results /\ xa = AfterQuestion(results, qse)
    <3> HIDE DEF f
    <3>1. <<"SE", f>> \in Question /\ Ask(results, "SE", f) \in Results
      BY <1>1, <2>0, AskType
    <3>2. QED
      BY <3>1 DEF Ask
  <2> HIDE DEF xa
  <2>2. qsv \in Question /\ xb \in Results /\ xb = AfterQuestion(xa, qsv)
    <3> HIDE DEF f
    <3>1. <<"SCEV", f>> \in Question /\ Ask(xa, "SCEV", f) \in Results
      BY <1>1, <2>0, <2>1, AskType
    <3>2. QED
      BY <3>1 DEF Ask
  <2>3. QED
    BY <2>1, <2>2 DEF xa
<1> HIDE DEF qse, qsv, xa, xb
<1>5. <<qse, qsv>> \in Seq(Question) /\ AfterQuestions(results, <<qse, qsv>>) = xb
  <2>1. AfterQuestions(results, <<qse, qsv>>) = AfterQuestion(AfterQuestion(results, qse), qsv)
    BY <1>1, <1>4, AfterTwo
  <2>2. QED
    BY <1>4, <2>1
<1>6. B \in Seq(Question) /\ xc \in Results /\ AfterQuestions(xb, B) = xc
  BY <1>4, QuestionsAboutValuesType, AfterQuestionsType DEF AfterValues
<1> HIDE DEF B, xc
<1>7. /\ C \in Seq(Question)
      /\ AfterQuestions(xc, C) = AskThree(xc, "LI", "PDT", "DT", g)
  <2> HIDE DEF g
  <2>1. QED
    BY <1>1, <1>3, <1>6, AskThreeType
<1> DEFINE A == <<qse, qsv>>
           AB == A \o B
<1>13. A \in Seq(Question) /\ AfterQuestions(results, A) = xb
  BY <1>5
<1> HIDE DEF A, C
<1>8. AB \in Seq(Question) /\ AfterQuestions(results, AB) = xc
  <2>1. AfterQuestions(results, A \o B) = AfterQuestions(AfterQuestions(results, A), B)
    BY <1>1, <1>6, <1>13, AfterTwoLists
  <2>2. QED
    BY <1>6, <1>13, <2>1
<1> HIDE DEF AB
<1>9. AB \o C \in Seq(Question) /\ AfterQuestions(results, AB \o C) = AskThree(xc, "LI", "PDT", "DT", g)
  <2>1. AB \o C \in Seq(Question)
    BY <1>7, <1>8
  <2>2. AfterQuestions(results, AB \o C) = AfterQuestions(xc, C)
    BY <1>1, <1>7, <1>8, AfterTwoLists
  <2>3. QED
    BY <1>7, <2>1, <2>2
<1>10. AfterInsertion(results) = AskThree(xc, "LI", "PDT", "DT", g)
  BY DEF AfterInsertion, xc, xb, xa
<1>11. QuestionsOfInsertion = AB \o C
  BY <1>2 DEF AB, A
<1>12. QED
  BY <1>9, <1>10, <1>11

LEMMA DecisionType == Decision \in Outcomes \cup {"aborted"}
BY DEF Decision, Outcomes

(* A region is partitioned exactly if it would be alone.                   *)
LEMMA DecisionIsAboutRegion ==
  ASSUME TypeInv, handled < Len(senders), r # nullptr
  PROVE  Decision = "partitioned" <=> PartitionedAlone(region)
<1>1. region \in Region
  BY CurrentSend
<1>2. /\ region.readonly \in BOOLEAN /\ region.parallel_for \in BOOLEAN /\ region.affine \in BOOLEAN
  BY <1>1 DEF Region
<1>3. AliasingCall <=> ~ \A i \in DOMAIN region.calls : region.calls[i] # "aliasing"
  BY DEF AliasingCall, pointer_calls
<1>4. StoreAfterLoop <=> ~ \A i \in DOMAIN region.stores : ~region.stores[i].after_loop
  BY DEF StoreAfterLoop
<1>5. QED
  BY <1>2, <1>3, <1>4 DEF Decision, PartitionedAlone

LEMMA InitTypes == Init => TypeInv
<1> SUFFICES ASSUME Init PROVE TypeInv
  OBVIOUS
<1>1. IsModule(m)
  BY ModulesAssumption DEF Init
<1>2. handled \in 0 .. Len(senders) /\ Len(decision) = 0 /\ handled = 0
  BY <1>1, SendersAreSends DEF Init
<1>3. results \in Results
  BY DEF Init, NewResults, Results, Cached
<1>4. forked \in [DOMAIN m.regions -> [signoffs : Seq(Nat), args : Seq(Nat)]]
  BY DEF Init
<1>5. decision \in Seq([send : Nat, is : Outcomes])
  BY DEF Init
<1>6. step = "send"
  BY DEF Init
<1>7. QED
  BY <1>1, <1>2, <1>3, <1>4, <1>5, <1>6 DEF TypeInv

LEMMA SendersStay == ASSUME m' = m PROVE senders' = senders
BY DEF senders, CallsOf

(* Handling a send adds it and what became of it.                          *)
LEMMA DecidedTypes ==
  ASSUME TypeInv, handled < Len(senders), m' = m, NEW d \in Outcomes, Decided(d)
  PROVE  /\ handled' = handled + 1 /\ handled' \in 0 .. Len(senders')
         /\ (decision \in Seq([send : Nat, is : Outcomes]))'
         /\ Len(decision') = handled'
         /\ \A i \in 1 .. handled' : decision'[i].send = senders'[i]
         /\ decision'[handled'] = [send |-> s, is |-> d]
         /\ \A i \in 1 .. handled : decision'[i] = decision[i]
<1>1. senders' = senders
  BY SendersStay
<1>2. s \in Nat /\ handled \in Nat /\ handled + 1 \in 1 .. Len(senders) /\ s = senders[handled + 1]
  BY CurrentSend DEF s
<1>3. /\ decision \in Seq([send : Nat, is : Outcomes]) /\ Len(decision) = handled
      /\ \A i \in 1 .. handled : decision[i].send = senders[i]
  BY DEF TypeInv
<1> DEFINE e == [send |-> s, is |-> d]
<1>4. handled' = handled + 1 /\ decision' = Append(decision, e) /\ e \in [send : Nat, is : Outcomes]
  BY <1>2 DEF Decided
<1>5. e.send = s
  OBVIOUS
<1> HIDE DEF e
<1>6. /\ decision' \in Seq([send : Nat, is : Outcomes])
      /\ Len(decision') = handled + 1
      /\ decision'[handled + 1] = e
      /\ \A i \in 1 .. handled : decision'[i] = decision[i]
  BY <1>3, <1>4
<1>7. \A i \in 1 .. handled + 1 : i \in 1 .. handled \/ i = handled + 1
  BY <1>2
<1>8. ASSUME NEW i \in 1 .. handled + 1 PROVE decision'[i].send = senders[i]
  BY <1>2, <1>3, <1>5, <1>6, <1>7
<1>9. QED
  BY <1>1, <1>2, <1>4, <1>6, <1>8 DEF e

LEMMA NextTypes == TypeInv /\ [Next \/ Returned]_vars => TypeInv'
<1> SUFFICES ASSUME TypeInv, [Next \/ Returned]_vars PROVE TypeInv'
  OBVIOUS
<1> DEFINE Shared == /\ IsModule(m)' /\ results' \in Results
                     /\ (forked \in [DOMAIN m.regions -> [signoffs : Seq(Nat), args : Seq(Nat)]])'
           Progress == /\ handled' \in 0 .. Len(senders')
                       /\ (decision \in Seq([send : Nat, is : Outcomes]))'
                       /\ Len(decision') = handled'
                       /\ \A i \in 1 .. handled' : decision'[i].send = senders'[i]
           At == /\ step' \in {"send", "fork", "insert", "aborted"}
                 /\ step' \in {"fork", "insert"} => handled' < Len(senders') /\ r' # nullptr
                 /\ step' = "insert" => Decision' = "partitioned"
<1>1. Shared /\ Progress /\ At => TypeInv'
  BY DEF TypeInv
<1>2. ASSUME m' = m PROVE senders' = senders
  BY <1>2, SendersStay
<1>3. ASSUME m' = m, handled' = handled, decision' = decision PROVE Progress
  BY <1>2, <1>3 DEF TypeInv
<1>4. ASSUME m' = m, forked' = forked, results' \in Results PROVE Shared
  BY <1>4 DEF TypeInv
<1>5. ASSUME m' = m, handled' = handled
      PROVE  r' = r /\ Decision' = Decision
  BY <1>2, <1>5 DEF r, send, s, Decision, region, AliasingCall, pointer_calls, StoreAfterLoop
<1> HIDE DEF Shared, Progress, At
<1>6. CASE UnexpectedSend
  <2>1. m' = m /\ handled' = handled /\ decision' = decision /\ forked' = forked /\ results' \in Results
    BY <1>6 DEF UnexpectedSend, TypeInv
  <2>2. At
    BY <1>6 DEF UnexpectedSend, At
  <2>3. QED
    BY <1>1, <1>3, <1>4, <2>1, <2>2
<1>7. ASSUME NEW found \in {nullptr} \cup DOMAIN m.regions, FindModification(found) PROVE TypeInv'
  <2>1. /\ m' = m /\ forked' = forked /\ handled < Len(senders) /\ handled \in Nat
        /\ results' = AfterQuestions(results, AskedOfSend)
    BY <1>7, CurrentSend DEF FindModification, AskedOfSend
  <2>2. results' \in Results
    BY <2>1, AskedOfSendType, AfterQuestionsType DEF TypeInv
  <2>3. CASE found = nullptr
    <3>1. Decided("no_region") /\ step' = "send" /\ "no_region" \in Outcomes
      BY <1>7, <2>3 DEF FindModification, Outcomes
    <3>2. Progress
      BY <2>1, <3>1, DecidedTypes DEF Progress
    <3>3. At
      BY <3>1 DEF At
    <3>4. QED
      BY <1>1, <1>4, <2>1, <2>2, <3>2, <3>3
  <2>4. CASE found # nullptr
    <3>1. step' = "fork" /\ handled' = handled /\ decision' = decision /\ r # nullptr
      BY <1>7, <2>4 DEF FindModification
    <3>2. At
      BY <1>2, <1>5, <2>1, <3>1 DEF At
    <3>3. QED
      BY <1>1, <1>3, <1>4, <2>1, <2>2, <3>1, <3>2
  <2>5. QED
    BY <2>3, <2>4
<1>8. CASE HandleForkCall
  <2>1. /\ m' = m /\ forked' = forked /\ handled < Len(senders) /\ r # nullptr
        /\ results' = AfterQuestions(results, QuestionsAboutRegion)
    BY <1>8 DEF HandleForkCall, TypeInv
  <2>2. results' \in Results
    BY <2>1, QuestionsAboutRegionType, AfterQuestionsType DEF TypeInv
  <2>3. CASE Decision \in {"partitioned", "aborted"}
    <3>1. /\ handled' = handled /\ decision' = decision
          /\ step' = IF Decision = "partitioned" THEN "insert" ELSE "aborted"
      BY <1>8, <2>3 DEF HandleForkCall
    <3>2. At
      BY <1>2, <1>5, <2>1, <2>3, <3>1 DEF At
    <3>3. QED
      BY <1>1, <1>3, <1>4, <2>1, <2>2, <3>1, <3>2
  <2>4. CASE Decision \notin {"partitioned", "aborted"}
    <3>1. step' = "send" /\ Decided(Decision) /\ Decision \in Outcomes
      BY <1>8, <2>4, DecisionType DEF HandleForkCall
    <3>2. Progress
      BY <2>1, <3>1, DecidedTypes DEF Progress
    <3>3. At
      BY <3>1 DEF At
    <3>4. QED
      BY <1>1, <1>4, <2>1, <2>2, <3>2, <3>3
  <2>5. QED
    BY <2>3, <2>4
<1>9. CASE InsertPartitioning
  <2>1. /\ m' = m /\ handled < Len(senders) /\ r # nullptr
        /\ results' = AfterQuestions(results, QuestionsOfInsertion)
        /\ forked' = [forked EXCEPT ![r] = [signoffs |-> new_parallel_function.signoffs,
                                            args |-> Append(forked[r].args, s)]]
        /\ Decided("partitioned") /\ step' = "send" /\ "partitioned" \in Outcomes
    BY <1>9 DEF InsertPartitioning, TypeInv, Outcomes
  <2>2. results' \in Results
    BY <2>1, QuestionsOfInsertionType, AfterQuestionsType DEF TypeInv
  <2>3. new_parallel_function.signoffs \in Seq(Nat) /\ Append(forked[r].args, s) \in Seq(Nat)
    BY <2>1, CurrentSend, CurrentFunctions DEF new_parallel_function
  <2>4. Shared
    BY <2>1, <2>2, <2>3 DEF Shared, TypeInv
  <2>5. Progress
    BY <2>1, DecidedTypes DEF Progress
  <2>6. At
    BY <2>1 DEF At
  <2>7. QED
    BY <1>1, <2>4, <2>5, <2>6
<1>10. CASE ReadFreedMemory
  <2>1. /\ m' = m /\ handled' = handled /\ decision' = decision /\ forked' = forked
        /\ step' = "aborted" /\ handled < Len(senders) /\ r # nullptr
        /\ results' = AfterQuestions(results, IF step = "fork" THEN QuestionsAboutRegion
                                              ELSE QuestionsOfInsertion)
    BY <1>10 DEF ReadFreedMemory, TypeInv
  <2>2. results' \in Results
    BY <2>1, QuestionsAboutRegionType, QuestionsOfInsertionType, AfterQuestionsType DEF TypeInv
  <2>3. At
    BY <2>1 DEF At
  <2>4. QED
    BY <1>1, <1>3, <1>4, <2>1, <2>2, <2>3
<1>11. CASE UNCHANGED vars
  <2>1. /\ m' = m /\ handled' = handled /\ decision' = decision /\ forked' = forked
        /\ results' = results /\ step' = step
    BY <1>11 DEF vars
  <2>2. At
    BY <1>2, <1>5, <2>1 DEF At, TypeInv
  <2>3. QED
    BY <1>1, <1>3, <1>4, <2>1, <2>2 DEF TypeInv
<1>12. QED
  BY <1>6, <1>7, <1>8, <1>9, <1>10, <1>11 DEF Next, Returned

-----------------------------------------------------------------------------
(* What the decisions and the rewritten regions say of each other.         *)

(* A send was partitioned exactly if it would be alone, as long as all     *)
(* answers were about what was asked.                                      *)
Justified(e) ==
  /\ e.send \in DOMAIN m.sends
  /\ e.is = "no_region" => m.sends[e.send].region = nullptr \/ results.stale # {}
  /\ e.is = "partitioned" =>
       /\ m.sends[e.send].region # nullptr
       /\ PartitionedAlone(m.regions[m.sends[e.send].region])
  /\ e.is \notin {"no_region", "partitioned"} =>
       /\ m.sends[e.send].region # nullptr
       /\ ~PartitionedAlone(m.regions[m.sends[e.send].region])

Decisions == {decision[i] : i \in 1 .. handled}

DecisionInv == \A e \in Decisions : Justified(e)

(* The fork call of a region passes the sends that were partitioned there, *)
(* and the region signs off its requests in their order.                   *)
PassedTo(q) == {a \in Became("partitioned") : m.sends[a].region = q}

SignoffInv ==
  \A q \in DOMAIN m.regions :
    /\ Enumerates(forked[q].args, PassedTo(q))
    /\ Len(forked[q].signoffs) = Len(forked[q].args)
    /\ \A i \in DOMAIN forked[q].signoffs : forked[q].signoffs[i] = i

LEMMA BecameIsHandled ==
  ASSUME TypeInv, NEW d
  PROVE  /\ Became(d) = {decision[i].send : i \in {j \in 1 .. handled : decision[j].is = d}}
         /\ \A a \in Became(d) : \E i \in 1 .. handled : senders[i] = a
         /\ Became(d) \subseteq DOMAIN m.sends
<1>1. DOMAIN decision = 1 .. handled
  BY DEF TypeInv
<1>2. Became(d) = {decision[i].send : i \in {j \in 1 .. handled : decision[j].is = d}}
  BY <1>1 DEF Became
<1>3. \A i \in 1 .. handled : decision[i].send = senders[i] /\ i \in 1 .. Len(senders)
  BY SendersAreSends DEF TypeInv
<1>4. \A a \in Became(d) : \E i \in 1 .. handled : senders[i] = a
  BY <1>2, <1>3
<1>5. \A i \in 1 .. Len(senders) : senders[i] \in DOMAIN m.sends
  BY SendersAreSends DEF TypeInv
<1>6. QED
  BY <1>2, <1>3, <1>4, <1>5

LEMMA NotHandledYet ==
  ASSUME TypeInv, handled < Len(senders), NEW d
  PROVE  s \notin Became(d)
<1>1. handled \in Nat /\ handled + 1 \in 1 .. Len(senders) /\ Len(senders) \in Nat
  BY CurrentSend, SendersAreSends DEF TypeInv
<1>2. \A i \in 1 .. handled : i \in 1 .. Len(senders) /\ i # handled + 1
  BY <1>1
<1>3. \A i \in 1 .. handled : senders[i] # senders[handled + 1]
  BY <1>1, <1>2, SendersAreSends DEF TypeInv
<1>4. QED
  BY <1>3, BecameIsHandled DEF s

LEMMA BecameOneMore ==
  ASSUME TypeInv, handled < Len(senders), m' = m, NEW d \in Outcomes, Decided(d), NEW c
  PROVE  Became(c)' = IF c = d THEN Became(c) \cup {s} ELSE Became(c)
<1>1. /\ DOMAIN decision' = 1 .. handled + 1 /\ handled \in Nat
      /\ decision'[handled + 1] = [send |-> s, is |-> d]
      /\ \A i \in 1 .. handled : decision'[i] = decision[i]
  BY DecidedTypes, CurrentSend
<1>2. DOMAIN decision = 1 .. handled
  BY DEF TypeInv
<1>3. \A i : i \in 1 .. handled + 1 <=> i \in 1 .. handled \/ i = handled + 1
  BY <1>1
<1>4. decision'[handled + 1].send = s /\ decision'[handled + 1].is = d
  BY <1>1
<1>5. Became(c)' = {decision'[i].send : i \in {j \in 1 .. handled + 1 : decision'[j].is = c}}
  BY <1>1 DEF Became
<1>6. Became(c) = {decision[i].send : i \in {j \in 1 .. handled : decision[j].is = c}}
  BY <1>2 DEF Became
<1>7. ASSUME NEW a
      PROVE  a \in Became(c)' <=> a \in Became(c) \/ (c = d /\ a = s)
  <2>1. a \in Became(c)' <=> \E i \in 1 .. handled + 1 : decision'[i].is = c /\ a = decision'[i].send
    BY <1>5
  <2>2. a \in Became(c) <=> \E i \in 1 .. handled : decision[i].is = c /\ a = decision[i].send
    BY <1>6
  <2>3. QED
    BY <1>1, <1>3, <1>4, <2>1, <2>2
<1>8. QED
  BY <1>7

LEMMA InitDecisions == Init => DecisionInv /\ SignoffInv
<1> SUFFICES ASSUME Init PROVE DecisionInv /\ SignoffInv
  OBVIOUS
<1>1. Became("partitioned") = {}
  BY DEF Init, Became
<1>2. ASSUME NEW q \in DOMAIN m.regions
      PROVE  forked[q].args = <<>> /\ forked[q].signoffs = <<>> /\ PassedTo(q) = {}
  BY <1>1 DEF Init, PassedTo
<1>3. SignoffInv
  <2>1. ASSUME NEW q \in DOMAIN m.regions
        PROVE  /\ Enumerates(forked[q].args, PassedTo(q))
               /\ Len(forked[q].signoffs) = Len(forked[q].args)
               /\ DOMAIN forked[q].signoffs = {}
    <3>1. DOMAIN <<>> = {}
      OBVIOUS
    <3>2. QED
      BY <1>2, <3>1, EnumeratesNothing
  <2>2. QED
    BY <2>1 DEF SignoffInv
<1>4. DecisionInv
  BY DEF Init, DecisionInv, Decisions
<1>5. QED
  BY <1>3, <1>4

(* A justified decision stays so: what is stale once remains stale.        *)
LEMMA StaysJustified ==
  ASSUME NEW e, Justified(e), m' = m, results.stale \subseteq results'.stale
  PROVE  Justified(e)'
BY DEF Justified, PartitionedAlone

LEMMA NextDecisions == TypeInv /\ DecisionInv /\ [Next \/ Returned]_vars => DecisionInv'
<1> SUFFICES ASSUME TypeInv, DecisionInv, [Next \/ Returned]_vars PROVE DecisionInv'
  OBVIOUS
<1>1. ASSUME m' = m, results.stale \subseteq results'.stale, handled' = handled, decision' = decision
      PROVE  DecisionInv'
  <2>1. ASSUME NEW e \in Decisions' PROVE Justified(e)'
    <3>1. e \in Decisions
      BY <1>1 DEF Decisions
    <3>2. Justified(e)
      BY <3>1 DEF DecisionInv
    <3>3. QED
      BY <1>1, <3>2, StaysJustified
  <2>2. QED
    BY <2>1 DEF DecisionInv
<1>2. ASSUME m' = m, results.stale \subseteq results'.stale, handled < Len(senders),
             NEW d \in Outcomes, Decided(d),
             d = "no_region" => r = nullptr \/ results'.stale # {},
             d = "partitioned" => r # nullptr /\ PartitionedAlone(region),
             d \notin {"no_region", "partitioned"} => r # nullptr /\ ~PartitionedAlone(region)
      PROVE  DecisionInv'
  <2>1. /\ handled' = handled + 1 /\ handled \in Nat /\ s \in DOMAIN m.sends
        /\ decision'[handled'] = [send |-> s, is |-> d]
        /\ \A i \in 1 .. handled : decision'[i] = decision[i]
    BY <1>2, DecidedTypes, CurrentSend
  <2>2. ASSUME NEW e \in Decisions' PROVE Justified(e)'
    <3>1. PICK i \in 1 .. handled + 1 : e = decision'[i]
      BY <2>1 DEF Decisions
    <3>2. CASE i = handled + 1
      <4>1. e.send = s /\ e.is = d
        BY <2>1, <3>1, <3>2
      <4>2. m.sends[e.send].region = r /\ m.regions[r] = region
        BY <4>1 DEF r, send, region
      <4>3. QED
        BY <1>2, <2>1, <4>1, <4>2 DEF Justified, PartitionedAlone
    <3>3. CASE i # handled + 1
      <4>1. i \in 1 .. handled
        BY <2>1, <3>3
      <4>2. e \in Decisions
        BY <2>1, <3>1, <4>1 DEF Decisions
      <4>3. Justified(e)
        BY <4>2 DEF DecisionInv
      <4>4. QED
        BY <1>2, <4>3, StaysJustified
    <3>4. QED
      BY <3>2, <3>3
  <2>3. QED
    BY <2>2 DEF DecisionInv
<1>3. CASE UnexpectedSend
  BY <1>1, <1>3 DEF UnexpectedSend
<1>4. ASSUME NEW found \in {nullptr} \cup DOMAIN m.regions, FindModification(found) PROVE DecisionInv'
  <2>1. /\ m' = m /\ handled < Len(senders)
        /\ results' = AfterQuestions(results, AskedOfSend)
        /\ found = r \/ (found = nullptr /\ Stale({"LI", "DT", "PDT"}))
    BY <1>4 DEF FindModification, AskedOfSend
  <2>2. results.stale \subseteq results'.stale
    BY <2>1, AskedOfSendType, AfterQuestionsType DEF TypeInv
  <2>3. CASE found = nullptr
    <3>1. Decided("no_region") /\ "no_region" \in Outcomes
      BY <1>4, <2>3 DEF FindModification, Outcomes
    <3>2. r = nullptr \/ results'.stale # {}
      BY <2>1, <2>3 DEF Stale
    <3>3. QED
      BY <1>2, <2>1, <2>2, <3>1, <3>2
  <2>4. CASE found # nullptr
    BY <1>1, <1>4, <2>1, <2>2, <2>4 DEF FindModification
  <2>5. QED
    BY <2>3, <2>4
<1>5. CASE HandleForkCall
  <2>1. /\ m' = m /\ handled < Len(senders) /\ r # nullptr
        /\ results' = AfterQuestions(results, QuestionsAboutRegion)
    BY <1>5 DEF HandleForkCall, TypeInv
  <2>2. results.stale \subseteq results'.stale
    BY <2>1, QuestionsAboutRegionType, AfterQuestionsType DEF TypeInv
  <2>3. CASE Decision \in {"partitioned", "aborted"}
    <3>1. handled' = handled /\ decision' = decision
      BY <1>5, <2>3 DEF HandleForkCall
    <3>2. QED
      BY <1>1, <2>1, <2>2, <3>1
  <2>4. CASE Decision \notin {"partitioned", "aborted"}
    <3>1. Decided(Decision) /\ Decision \in Outcomes
      BY <1>5, <2>4, DecisionType DEF HandleForkCall
    <3>2. Decision # "no_region"
      BY DEF Decision
    <3>3. ~PartitionedAlone(region)
      BY <2>1, <2>4, DecisionIsAboutRegion
    <3> DEFINE d == Decision
    <3>4. d \in Outcomes /\ Decided(d) /\ d \notin {"no_region", "partitioned"}
      BY <2>4, <3>1, <3>2
    <3> HIDE DEF d
    <3>5. QED
      BY <1>2, <2>1, <2>2, <3>3, <3>4
  <2>5. QED
    BY <2>3, <2>4
<1>6. CASE InsertPartitioning
  <2>1. /\ m' = m /\ handled < Len(senders) /\ r # nullptr /\ Decision = "partitioned"
        /\ results' = AfterQuestions(results, QuestionsOfInsertion)
        /\ Decided("partitioned") /\ "partitioned" \in Outcomes
    BY <1>6 DEF InsertPartitioning, TypeInv, Outcomes
  <2>2. results.stale \subseteq results'.stale
    BY <2>1, QuestionsOfInsertionType, AfterQuestionsType DEF TypeInv
  <2>3. PartitionedAlone(region)
    BY <2>1, DecisionIsAboutRegion
  <2>4. QED
    BY <1>2, <2>1, <2>2, <2>3
<1>7. CASE ReadFreedMemory
  <2>1. /\ m' = m /\ handled' = handled /\ decision' = decision
        /\ handled < Len(senders) /\ r # nullptr
        /\ results' = AfterQuestions(results, IF step = "fork" THEN QuestionsAboutRegion
                                              ELSE QuestionsOfInsertion)
    BY <1>7 DEF ReadFreedMemory, TypeInv
  <2>2. results.stale \subseteq results'.stale
    BY <2>1, QuestionsAboutRegionType, QuestionsOfInsertionType, AfterQuestionsType DEF TypeInv
  <2>3. QED
    BY <1>1, <2>1, <2>2
<1>8. CASE UNCHANGED vars
  BY <1>1, <1>8 DEF vars
<1>9. QED
  BY <1>3, <1>4, <1>5, <1>6, <1>7, <1>8 DEF Next, Returned

LEMMA NextSignoffs == TypeInv /\ SignoffInv /\ [Next \/ Returned]_vars => SignoffInv'
<1> SUFFICES ASSUME TypeInv, SignoffInv, [Next \/ Returned]_vars PROVE SignoffInv'
  OBVIOUS
<1>1. ASSUME m' = m, forked' = forked, Became("partitioned")' = Became("partitioned")
      PROVE  SignoffInv'
  BY <1>1 DEF SignoffInv, PassedTo
<1>2. ASSUME decision' = decision PROVE Became("partitioned")' = Became("partitioned")
  BY <1>2 DEF Became
<1>3. CASE UnexpectedSend
  BY <1>1, <1>2, <1>3 DEF UnexpectedSend
<1>4. ASSUME NEW found \in {nullptr} \cup DOMAIN m.regions, FindModification(found) PROVE SignoffInv'
  <2>1. m' = m /\ forked' = forked /\ handled < Len(senders)
    BY <1>4 DEF FindModification
  <2>2. CASE found = nullptr
    <3>1. Decided("no_region") /\ "no_region" \in Outcomes
      BY <1>4, <2>2 DEF FindModification, Outcomes
    <3>2. Became("partitioned")' = Became("partitioned")
      BY <2>1, <3>1, BecameOneMore
    <3>3. QED
      BY <1>1, <2>1, <3>2
  <2>3. CASE found # nullptr
    BY <1>1, <1>2, <1>4, <2>1, <2>3 DEF FindModification
  <2>4. QED
    BY <2>2, <2>3
<1>5. CASE HandleForkCall
  <2>1. m' = m /\ forked' = forked /\ handled < Len(senders)
    BY <1>5 DEF HandleForkCall, TypeInv
  <2>2. CASE Decision \in {"partitioned", "aborted"}
    BY <1>1, <1>2, <1>5, <2>1, <2>2 DEF HandleForkCall
  <2>3. CASE Decision \notin {"partitioned", "aborted"}
    <3> DEFINE d == Decision
    <3>1. Decided(d) /\ d \in Outcomes /\ d # "partitioned"
      BY <1>5, <2>3, DecisionType DEF HandleForkCall
    <3> HIDE DEF d
    <3>2. Became("partitioned")' = Became("partitioned")
      BY <2>1, <3>1, BecameOneMore
    <3>3. QED
      BY <1>1, <2>1, <3>2
  <2>4. QED
    BY <2>2, <2>3
<1>6. CASE InsertPartitioning
  <2>1. /\ m' = m /\ handled < Len(senders) /\ r # nullptr
        /\ forked' = [forked EXCEPT ![r] = [signoffs |-> new_parallel_function.signoffs,
                                            args |-> Append(forked[r].args, s)]]
        /\ Decided("partitioned") /\ "partitioned" \in Outcomes
    BY <1>6 DEF InsertPartitioning, TypeInv, Outcomes
  <2>2. Became("partitioned")' = Became("partitioned") \cup {s}
    BY <2>1, BecameOneMore
  <2>3. /\ r \in DOMAIN m.regions /\ m.sends[s].region = r
        /\ s \notin Became("partitioned") /\ s \in Nat
        /\ forked \in [DOMAIN m.regions -> [signoffs : Seq(Nat), args : Seq(Nat)]]
    BY <2>1, CurrentSend, NotHandledYet DEF TypeInv, r, send
  <2>4. ASSUME NEW q \in DOMAIN m.regions
        PROVE  /\ Enumerates(forked'[q].args, PassedTo(q)')
               /\ Len(forked'[q].signoffs) = Len(forked'[q].args)
               /\ \A i \in DOMAIN forked'[q].signoffs : forked'[q].signoffs[i] = i
    <3>1. /\ Enumerates(forked[q].args, PassedTo(q))
          /\ Len(forked[q].signoffs) = Len(forked[q].args)
          /\ \A i \in DOMAIN forked[q].signoffs : forked[q].signoffs[i] = i
      BY DEF SignoffInv
    <3>2. CASE q # r
      <4>1. forked'[q] = forked[q]
        BY <2>1, <2>3, <3>2
      <4>2. PassedTo(q)' = PassedTo(q)
        BY <2>1, <2>2, <2>3, <3>2 DEF PassedTo
      <4>3. QED
        BY <3>1, <4>1, <4>2
    <3>3. CASE q = r
      <4> DEFINE args == forked[r].args
                 signoffs == forked[r].signoffs
                 n == Len(args)
      <4>1. /\ forked'[q].args = Append(args, s)
            /\ forked'[q].signoffs = Append(signoffs, n + 1)
        BY <2>1, <2>3, <3>3 DEF new_parallel_function
      <4>2. PassedTo(q)' = PassedTo(r) \cup {s} /\ s \notin PassedTo(r)
        BY <2>1, <2>2, <2>3, <3>3 DEF PassedTo
      <4>3. args \in Seq(Nat) /\ signoffs \in Seq(Nat) /\ n \in Nat /\ Len(signoffs) = n
        BY <2>3, <3>1, <3>3
      <4>4. Enumerates(args, PassedTo(r)) /\ \A i \in 1 .. n : signoffs[i] = i
        BY <3>1, <3>3, <4>3
      <4> HIDE DEF args, signoffs, n
      <4>5. Enumerates(Append(args, s), PassedTo(r) \cup {s})
        BY <4>2, <4>4, EnumeratesOneMore
      <4>6. /\ Len(Append(signoffs, n + 1)) = n + 1
            /\ DOMAIN Append(signoffs, n + 1) = 1 .. n + 1
            /\ \A i \in 1 .. n + 1 : Append(signoffs, n + 1)[i] = i
        BY <4>3, <4>4
      <4>7. Len(Append(args, s)) = n + 1
        BY <4>3 DEF n
      <4>8. QED
        BY <4>1, <4>2, <4>5, <4>6, <4>7
    <3>4. QED
      BY <3>2, <3>3
  <2>5. QED
    BY <2>1, <2>4 DEF SignoffInv
<1>7. CASE ReadFreedMemory
  BY <1>1, <1>2, <1>7 DEF ReadFreedMemory
<1>8. CASE UNCHANGED vars
  BY <1>1, <1>2, <1>8 DEF vars
<1>9. QED
  BY <1>3, <1>4, <1>5, <1>6, <1>7, <1>8 DEF Next, Returned

DriverInv == TypeInv /\ DecisionInv /\ SignoffInv

LEMMA DriverInvariant == Spec => []DriverInv
<1>1. Init => DriverInv
  BY InitTypes, InitDecisions DEF DriverInv
<1>2. DriverInv /\ [Next \/ Returned]_vars => DriverInv'
  BY NextTypes, NextDecisions, NextSignoffs DEF DriverInv
<1>3. QED
  BY <1>1, <1>2, PTL DEF Spec

LEMMA PartitionedIsJustified ==
  ASSUME DriverInv, NEW a \in Became("partitioned")
  PROVE  /\ a \in DOMAIN m.sends /\ m.sends[a].region # nullptr
         /\ m.sends[a].region \in DOMAIN m.regions
         /\ m.regions[m.sends[a].region] \in Region
         /\ PartitionedAlone(m.regions[m.sends[a].region])
<1>1. PICK i \in 1 .. handled : decision[i].is = "partitioned" /\ decision[i].send = a
  BY BecameIsHandled DEF DriverInv
<1>2. Justified(decision[i])
  BY DEF DriverInv, DecisionInv, Decisions
<1>3. /\ a \in DOMAIN m.sends /\ m.sends[a].region # nullptr
      /\ PartitionedAlone(m.regions[m.sends[a].region])
  BY <1>1, <1>2 DEF Justified
<1>4. /\ m.sends[a] \in Sent(Len(m.regions))
      /\ Len(m.regions) \in Nat /\ DOMAIN m.regions = 1 .. Len(m.regions)
      /\ \A q \in DOMAIN m.regions : m.regions[q] \in Region
  BY <1>3, SendersAreSends DEF DriverInv, TypeInv
<1>5. m.sends[a].region \in 0 .. Len(m.regions)
  BY <1>4 DEF Sent
<1>6. QED
  BY <1>3, <1>4, <1>5 DEF nullptr

(* The addresses a partitioned send is computed from bound those of all    *)
(* stores: handle_fork_call's comparison never raises the greatest         *)
(* address, and does not need to.                                          *)
THEOREM RangesCover == Spec => []RangeCoversStores
<1>1. DriverInv => RangeCoversStores
  <2> SUFFICES ASSUME DriverInv, NEW a \in Became("partitioned")
               PROVE  LET stores == m.regions[m.sends[a].region].stores
                          range == AccessRange(stores)
                      IN  \A i \in DOMAIN stores :
                            isKnownLE(range.min, stores[i]) /\ isKnownLE(stores[i], range.max)
    BY DEF RangeCoversStores
  <2> DEFINE stores == m.regions[m.sends[a].region].stores
  <2>1. /\ m.regions[m.sends[a].region] \in Region
        /\ PartitionedAlone(m.regions[m.sends[a].region])
    BY PartitionedIsJustified
  <2>2. stores \in Seq(StoreOf) /\ stores # <<>> /\ AccessRange(stores).known
    BY <2>1 DEF Region, StoreOf, PartitionedAlone
  <2> HIDE DEF stores
  <2>3. LET range == AccessRange(stores)
        IN  \A i \in DOMAIN stores :
              isKnownLE(range.min, stores[i]) /\ isKnownLE(stores[i], range.max)
    BY <2>2, KnownRangeCovers
  <2>4. QED
    BY <2>3 DEF stores
<1>2. QED
  BY <1>1, DriverInvariant, PTL

(* When the pass is done, exactly the sends are partitioned whose regions  *)
(* would be on their own: handling one send takes nothing from the next.   *)
THEOREM SendsAreIndependent == Spec => []EarlierSendsDoNotMatter
<1>1. DriverInv => EarlierSendsDoNotMatter
  <2> DEFINE Alone == {a \in DOMAIN m.sends :
                         m.sends[a].region # nullptr /\ PartitionedAlone(m.regions[m.sends[a].region])}
  <2> SUFFICES ASSUME DriverInv, Done, results.stale = {}
               PROVE  Became("partitioned") = Alone
    BY DEF EarlierSendsDoNotMatter
  <2>1. Became("partitioned") \subseteq Alone
    BY PartitionedIsJustified
  <2>2. ASSUME NEW a \in Alone PROVE a \in Became("partitioned")
    <3>1. PICK i \in 1 .. handled : senders[i] = a
      BY SendersAreSends DEF DriverInv, TypeInv, Done
    <3>2. decision[i].send = a /\ decision[i] \in Decisions
      BY <3>1 DEF DriverInv, TypeInv, Decisions
    <3>3. Justified(decision[i])
      BY <3>2 DEF DriverInv, DecisionInv
    <3>4. decision[i].is = "partitioned"
      BY <3>2, <3>3 DEF Justified
    <3>5. QED
      BY <3>2, <3>4, BecameIsHandled DEF DriverInv
  <2>3. QED
    BY <2>1, <2>2
<1>2. QED
  BY <1>1, DriverInvariant, PTL

(* However many sends share a region, each of those partitioned passes its *)
(* request to the region through a parameter of its own, and is signed off *)
(* there once.                                                             *)
THEOREM RequestsAreSignedOff == Spec => []EachRequestIsSignedOff
<1>1. DriverInv => EachRequestIsSignedOff
  <2> SUFFICES ASSUME DriverInv, NEW q \in DOMAIN m.regions
               PROVE  LET signed == [i \in DOMAIN forked[q].signoffs |->
                                       forked[q].args[forked[q].signoffs[i]]]
                          sends == {a \in Became("partitioned") : m.sends[a].region = q}
                      IN  /\ \A i, j \in DOMAIN signed : i # j => signed[i] # signed[j]
                          /\ {signed[i] : i \in DOMAIN signed} = sends
    BY DEF EachRequestIsSignedOff
  <2> DEFINE args == forked[q].args
             signoffs == forked[q].signoffs
             signed == [i \in DOMAIN signoffs |-> args[signoffs[i]]]
  <2>1. /\ Enumerates(args, PassedTo(q))
        /\ Len(signoffs) = Len(args)
        /\ \A i \in DOMAIN signoffs : signoffs[i] = i
        /\ args \in Seq(Nat) /\ signoffs \in Seq(Nat)
    BY DEF DriverInv, SignoffInv, TypeInv
  <2>2. DOMAIN signed = DOMAIN args /\ \A i \in DOMAIN args : signed[i] = args[i]
    BY <2>1
  <2>3. /\ \A i, j \in DOMAIN args : i # j => args[i] # args[j]
        /\ \A i \in DOMAIN args : args[i] \in PassedTo(q)
        /\ \A a \in PassedTo(q) : \E i \in DOMAIN args : args[i] = a
    BY <2>1 DEF Enumerates
  <2> HIDE DEF signed, args
  <2>4. {signed[i] : i \in DOMAIN signed} = PassedTo(q)
    BY <2>2, <2>3
  <2>5. \A i, j \in DOMAIN signed : i # j => signed[i] # signed[j]
    BY <2>2, <2>3
  <2>6. QED
    BY <2>4, <2>5 DEF signed, args, PassedTo
<1>2. QED
  BY <1>1, DriverInvariant, PTL

-----------------------------------------------------------------------------
(* What each question changes.                                             *)

TreeKinds == {"LI", "DT", "PDT"}

AnswersTree(x, kind, f, y) ==
  /\ y \in Results
  /\ y.current = [x.current EXCEPT ![kind] = f]
  /\ y.ran = IF x.current[kind] = f THEN x.ran ELSE f
  /\ y.alive = IF x.current[kind] = f THEN x.alive ELSE FALSE
  /\ y.stale = IF y.ran = f THEN x.stale ELSE x.stale \cup {kind}

AnswersEvolution(x, f, y) ==
  /\ y \in Results
  /\ y.current = [x.current EXCEPT !["SE"] = f]
  /\ y.ran = IF x.current["SE"] = f THEN x.ran ELSE f
  /\ y.alive = IF x.current["SE"] = f THEN x.alive ELSE TRUE
  /\ y.stale = IF y.alive THEN x.stale ELSE x.stale \cup {"SE"}

LEMMA AskTree ==
  ASSUME NEW x \in Results, NEW kind \in TreeKinds, NEW f \in AllFunctions
  PROVE  AnswersTree(x, kind, f, Ask(x, kind, f))
<1> DEFINE z == getAnalysis(x, kind, f)
<1>1. kind \in Kinds /\ kind # "SE" /\ kind # "AA" /\ kind # "SCEV" /\ f \in Cached
  BY DEF TreeKinds, Kinds, Cached
<1>2. /\ z \in Results /\ z.stale = x.stale
      /\ z.current = [x.current EXCEPT ![kind] = f]
      /\ z.ran = IF x.current[kind] = f THEN x.ran ELSE f
      /\ z.alive = IF x.current[kind] = f THEN x.alive ELSE FALSE
  <2>1. CASE x.current[kind] = f
    BY <1>1, <2>1 DEF getAnalysis, Results
  <2>2. CASE x.current[kind] # f
    BY <1>1, <2>2 DEF getAnalysis, Run, Results
  <2>3. QED
    BY <2>1, <2>2
<1>3. Ask(x, kind, f)
        = [z EXCEPT !.stale = IF z.ran # f THEN @ \cup {kind} ELSE @]
  BY <1>1 DEF Ask, AfterQuestion, WrongAnswer
<1> HIDE DEF z
<1>4. Ask(x, kind, f) \in Results
  BY <1>1, AskType
<1>5. QED
  BY <1>2, <1>3, <1>4 DEF Results, AnswersTree

LEMMA AskEvolution ==
  ASSUME NEW x \in Results, NEW f \in AllFunctions
  PROVE  AnswersEvolution(x, f, Ask(x, "SE", f))
<1> DEFINE z == getAnalysis(x, "SE", f)
<1>1. "SE" \in Kinds /\ f \in Cached
  BY DEF Kinds, Cached
<1>2. /\ z \in Results /\ z.stale = x.stale
      /\ z.current = [x.current EXCEPT !["SE"] = f]
      /\ z.ran = IF x.current["SE"] = f THEN x.ran ELSE f
      /\ z.alive = IF x.current["SE"] = f THEN x.alive ELSE TRUE
  <2>1. CASE x.current["SE"] = f
    BY <1>1, <2>1 DEF getAnalysis, Results
  <2>2. CASE x.current["SE"] # f
    BY <1>1, <2>2 DEF getAnalysis, Run, Results
  <2>3. QED
    BY <2>1, <2>2
<1>3. Ask(x, "SE", f) = [z EXCEPT !.stale = IF ~z.alive THEN @ \cup {"SE"} ELSE @]
  BY DEF Ask, AfterQuestion, WrongAnswer
<1> HIDE DEF z
<1>4. Ask(x, "SE", f) \in Results
  BY <1>1, AskType
<1>5. QED
  BY <1>2, <1>3, <1>4 DEF Results, AnswersEvolution

LEMMA AskExpression ==
  ASSUME NEW x \in Results, NEW f \in AllFunctions
  PROVE  LET y == Ask(x, "SCEV", f)
         IN  /\ y \in Results /\ y.current = x.current /\ y.ran = x.ran /\ y.alive = x.alive
             /\ y.stale = IF x.alive THEN x.stale ELSE x.stale \cup {"SCEV"}
<1>1. Ask(x, "SCEV", f) = [x EXCEPT !.stale = IF x.alive THEN @ ELSE @ \cup {"SCEV"}]
  BY DEF Ask, AfterQuestion
<1>2. Ask(x, "SCEV", f) \in Results
  BY AskType
<1>3. QED
  BY <1>1, <1>2 DEF Results

LEMMA AskAliases ==
  ASSUME NEW x \in Results, NEW f \in AllFunctions
  PROVE  LET y == Ask(x, "AA", f)
         IN  /\ y \in Results /\ y.current = x.current /\ y.ran = f /\ y.alive = FALSE
             /\ y.stale = x.stale
<1>1. Ask(x, "AA", f) = [x EXCEPT !.ran = f, !.alive = FALSE]
  BY DEF Ask, AfterQuestion, getAAResults, Run
<1>2. Ask(x, "AA", f) \in Results
  BY AskType
<1>3. QED
  BY <1>1, <1>2 DEF Results

(* What every question keeps once one of them has brought it about.        *)
LEMMA AfterQuestionsReach ==
  ASSUME NEW x, NEW qs \in Seq(Question), NEW P, NEW Q, P \subseteq Results, x \in P,
         \A i \in 1 .. Len(qs) : \A y \in P : AfterQuestion(y, qs[i]) \in P,
         \A i \in 1 .. Len(qs) : \A y \in Q : AfterQuestion(y, qs[i]) \in Q,
         NEW k \in 1 .. Len(qs), \A y \in P : AfterQuestion(y, qs[k]) \in Q
  PROVE  AfterQuestions(x, qs) \in Q
<1> DEFINE n == Len(qs)
<1>1. n \in Nat /\ x \in Results
  OBVIOUS
<1>2. PICK after \in [0 .. n -> Results] :
        /\ after[0] = x
        /\ \A i \in 1 .. n : after[i] = AfterQuestion(after[i - 1], qs[i])
        /\ AfterQuestions(x, qs) = after[n]
  BY <1>1, AfterQuestionsEquation
<1> DEFINE T == {i \in 0 .. n : after[i] \in P /\ (i >= k => after[i] \in Q)}
<1>3. 0 \in T
  BY <1>1, <1>2
<1>4. ASSUME NEW i \in 0 .. n - 1, i \in T PROVE i + 1 \in T
  <2>1. i + 1 \in 1 .. n /\ (i + 1) - 1 = i /\ i + 1 \in 0 .. n
    BY <1>1
  <2>2. after[i + 1] = AfterQuestion(after[i], qs[i + 1]) /\ after[i] \in P
    BY <1>2, <1>4, <2>1
  <2>3. after[i + 1] \in P
    BY <2>1, <2>2
  <2>4. ASSUME i + 1 >= k PROVE after[i + 1] \in Q
    <3>1. CASE i + 1 = k
      BY <2>2, <3>1
    <3>2. CASE i + 1 # k
      <4>1. i >= k
        BY <2>4, <3>2
      <4>2. after[i] \in Q
        BY <1>4, <4>1
      <4>3. QED
        BY <2>1, <2>2, <4>2
    <3>3. QED
      BY <3>1, <3>2
  <2>5. QED
    BY <2>1, <2>3, <2>4
<1>5. 0 .. n \subseteq T
  <2> HIDE DEF T
  <2>1. QED
    BY <1>1, <1>3, <1>4, IntervalInduction
<1>6. n \in T /\ n >= k
  BY <1>1, <1>5
<1>7. QED
  BY <1>2, <1>6

-----------------------------------------------------------------------------
(* Loops and dominance: which function the loops and trees are of.         *)

Right == {x \in Results : x.stale \cap TreeKinds = {}}

(* What was last asked of f is about f.                                    *)
Idle(f) == {x \in Right : \A kind \in TreeKinds : x.current[kind] = f => x.ran = f}

LoopsOf(f) == {x \in Idle(f) : x.current["LI"] = f}

AllOf(f) == {x \in Right : x.ran = f /\ \A kind \in TreeKinds : x.current[kind] = f}

LEMMA IdleStays ==
  ASSUME NEW f \in AllFunctions, NEW x \in Idle(f), NEW kind \in TreeKinds
  PROVE  /\ Ask(x, kind, f) \in Idle(f)
         /\ kind = "LI" \/ x \in LoopsOf(f) => Ask(x, kind, f) \in LoopsOf(f)
<1> DEFINE y == Ask(x, kind, f)
<1>1. x \in Results /\ x.current \in [Kinds -> Cached] /\ kind \in Kinds /\ "LI" \in Kinds
  BY DEF Idle, Right, Results, TreeKinds, Kinds
<1>2. /\ y \in Results
      /\ y.current = [x.current EXCEPT ![kind] = f]
      /\ y.ran = IF x.current[kind] = f THEN x.ran ELSE f
      /\ y.stale = IF y.ran = f THEN x.stale ELSE x.stale \cup {kind}
  <2>1. AnswersTree(x, kind, f, y)
    BY <1>1, AskTree
  <2> HIDE DEF y
  <2>2. QED
    BY <2>1 DEF AnswersTree
<1> HIDE DEF y
<1>3. y.ran = f
  BY <1>2 DEF Idle
<1>4. y \in Idle(f)
  BY <1>2, <1>3 DEF Idle, Right
<1>5. kind = "LI" \/ x \in LoopsOf(f) => y.current["LI"] = f
  BY <1>1, <1>2 DEF LoopsOf
<1>6. QED
  BY <1>4, <1>5 DEF LoopsOf, y

LEMMA AllStay ==
  ASSUME NEW f \in AllFunctions, NEW x \in AllOf(f)
  PROVE  /\ \A kind \in TreeKinds : Ask(x, kind, f) \in AllOf(f)
         /\ Ask(x, "SE", f) \in AllOf(f)
         /\ Ask(x, "SCEV", f) \in AllOf(f)
<1>1. x \in Results /\ x.current \in [Kinds -> Cached] /\ x.ran = f /\ TreeKinds \subseteq Kinds
  BY DEF AllOf, Right, Results, TreeKinds, Kinds
<1>2. ASSUME NEW kind \in TreeKinds PROVE Ask(x, kind, f) \in AllOf(f)
  <2> DEFINE y == Ask(x, kind, f)
  <2>1. /\ y \in Results
        /\ y.current = [x.current EXCEPT ![kind] = f]
        /\ y.ran = IF x.current[kind] = f THEN x.ran ELSE f
        /\ y.stale = IF y.ran = f THEN x.stale ELSE x.stale \cup {kind}
    <3>1. AnswersTree(x, kind, f, y)
      BY <1>1, AskTree
    <3> HIDE DEF y
    <3>2. QED
      BY <3>1 DEF AnswersTree
  <2> HIDE DEF y
  <2>2. QED
    BY <1>1, <2>1 DEF AllOf, Right, y
<1>3. Ask(x, "SE", f) \in AllOf(f)
  <2> DEFINE y == Ask(x, "SE", f)
  <2>1. /\ y \in Results
        /\ y.current = [x.current EXCEPT !["SE"] = f]
        /\ y.ran = IF x.current["SE"] = f THEN x.ran ELSE f
        /\ y.stale = IF y.alive THEN x.stale ELSE x.stale \cup {"SE"}
    <3>1. AnswersEvolution(x, f, y)
      BY <1>1, AskEvolution
    <3> HIDE DEF y
    <3>2. QED
      BY <3>1 DEF AnswersEvolution
  <2> HIDE DEF y
  <2>2. y.stale \cap TreeKinds = {}
    BY <2>1 DEF AllOf, Right, TreeKinds
  <2>3. \A kind \in TreeKinds : y.current[kind] = f
    BY <1>1, <2>1 DEF AllOf
  <2>4. QED
    BY <1>1, <2>1, <2>2, <2>3 DEF AllOf, Right, y
<1>4. Ask(x, "SCEV", f) \in AllOf(f)
  <2> DEFINE y == Ask(x, "SCEV", f)
  <2>1. /\ y \in Results /\ y.current = x.current /\ y.ran = x.ran
        /\ y.stale = IF x.alive THEN x.stale ELSE x.stale \cup {"SCEV"}
    BY <1>1, AskExpression
  <2> HIDE DEF y
  <2>2. y.stale \cap TreeKinds = {}
    BY <2>1 DEF AllOf, Right, TreeKinds
  <2>3. QED
    BY <1>1, <2>1, <2>2 DEF AllOf, Right, y
<1>5. QED
  BY <1>2, <1>3, <1>4

LEMMA LookingFindsAll ==
  ASSUME NEW f \in AllFunctions, NEW x \in Right, x.current["LI"] # f
  PROVE  AskThree(x, "LI", "DT", "PDT", f) \in AllOf(f)
<1> DEFINE a == Ask(x, "LI", f)
           b == Ask(a, "DT", f)
           c == Ask(b, "PDT", f)
<1>1. x \in Results /\ x.current \in [Kinds -> Cached] /\ x.stale \cap TreeKinds = {}
  BY DEF Right, Results
<1>2. "LI" \in TreeKinds /\ "DT" \in TreeKinds /\ "PDT" \in TreeKinds /\ TreeKinds \subseteq Kinds
  BY DEF TreeKinds, Kinds
<1>3. a \in Results /\ a.ran = f /\ a.stale = x.stale /\ a.current = [x.current EXCEPT !["LI"] = f]
  <2>1. AnswersTree(x, "LI", f, a)
    BY <1>1, <1>2, AskTree
  <2> HIDE DEF a
  <2>2. QED
    BY <2>1 DEF AnswersTree
<1> HIDE DEF a
<1>4. b \in Results /\ b.ran = f /\ b.stale = a.stale /\ b.current = [a.current EXCEPT !["DT"] = f]
  <2>1. AnswersTree(a, "DT", f, b)
    BY <1>2, <1>3, AskTree
  <2> HIDE DEF b
  <2>2. b.ran = f
    BY <1>3, <2>1 DEF AnswersTree
  <2>3. QED
    BY <2>1, <2>2 DEF AnswersTree
<1> HIDE DEF b
<1>5. c \in Results /\ c.ran = f /\ c.stale = b.stale /\ c.current = [b.current EXCEPT !["PDT"] = f]
  <2>1. AnswersTree(b, "PDT", f, c)
    BY <1>2, <1>4, AskTree
  <2> HIDE DEF c
  <2>2. c.ran = f
    BY <1>4, <2>1 DEF AnswersTree
  <2>3. QED
    BY <2>1, <2>2 DEF AnswersTree
<1> HIDE DEF c
<1>6. \A kind \in TreeKinds : c.current[kind] = f
  BY <1>1, <1>2, <1>3, <1>4, <1>5 DEF TreeKinds
<1>7. c \in AllOf(f)
  BY <1>1, <1>3, <1>4, <1>5, <1>6 DEF AllOf, Right
<1>8. QED
  BY <1>7 DEF AskThree, a, b, c

LEMMA AllIsIdle ==
  ASSUME NEW f, NEW g, f # g
  PROVE  AllOf(f) \subseteq Idle(g)
BY DEF AllOf, Idle

(* The questions about a send leave what is asked of its function right.   *)
LEMMA SendKeepsTrees ==
  ASSUME TypeInv, handled < Len(senders), results \in Idle(send.function)
  PROVE  /\ AfterQuestions(results, AskedOfSend) \in Idle(send.function)
         /\ r # nullptr => AfterQuestions(results, AskedOfSend) \in LoopsOf(send.function)
<1> DEFINE f == send.function
           n == Len(AskedOfSend)
<1>1. f \in AllFunctions /\ AskedOfSend \in Seq(Question) /\ send.asked \in Seq({"LI", "DT", "PDT"})
  BY CurrentSend, AskedOfSendType DEF Sent
<1>2. n = Len(send.asked) /\ n \in Nat /\ DOMAIN send.asked = 1 .. n
  BY <1>1 DEF AskedOfSend
<1>3. ASSUME NEW i \in 1 .. n
      PROVE  send.asked[i] \in TreeKinds /\ AskedOfSend[i] = <<send.asked[i], f>>
  BY <1>1, <1>2 DEF AskedOfSend, TreeKinds
<1>4. Idle(f) \subseteq Results /\ LoopsOf(f) \subseteq Idle(f)
  BY DEF Idle, LoopsOf, Right
<1> HIDE DEF n
<1>5. ASSUME NEW i \in 1 .. n, NEW y \in Idle(f)
      PROVE  /\ AfterQuestion(y, AskedOfSend[i]) \in Idle(f)
             /\ send.asked[i] = "LI" \/ y \in LoopsOf(f)
                  => AfterQuestion(y, AskedOfSend[i]) \in LoopsOf(f)
  <2>1. send.asked[i] \in TreeKinds /\ AfterQuestion(y, AskedOfSend[i]) = Ask(y, send.asked[i], f)
    BY <1>3 DEF Ask
  <2>2. QED
    BY <1>1, <2>1, IdleStays
<1>6. AfterQuestions(results, AskedOfSend) \in Idle(f)
  <2>1. \A i \in 1 .. Len(AskedOfSend) : \A y \in Idle(f) : AfterQuestion(y, AskedOfSend[i]) \in Idle(f)
    BY <1>5 DEF n
  <2> HIDE DEF f
  <2>2. results \in Idle(f)
    BY DEF f
  <2>3. QED
    BY <1>1, <1>4, <2>1, <2>2, AfterQuestionsKeep
<1>7. ASSUME r # nullptr PROVE AfterQuestions(results, AskedOfSend) \in LoopsOf(f)
  <2>1. PICK k \in 1 .. n : send.asked[k] = "LI"
    <3>1. \A i \in DOMAIN m.sends :
            m.sends[i].region # nullptr
              => \E k \in DOMAIN m.sends[i].asked : m.sends[i].asked[k] = "LI"
      BY DEF TypeInv, IsModule
    <3>2. s \in DOMAIN m.sends
      BY CurrentSend
    <3>3. QED
      BY <1>2, <1>7, <3>1, <3>2 DEF r, send
  <2>2. \A i \in 1 .. Len(AskedOfSend) : \A y \in Idle(f) : AfterQuestion(y, AskedOfSend[i]) \in Idle(f)
    BY <1>5 DEF n
  <2>3. \A i \in 1 .. Len(AskedOfSend) : \A y \in LoopsOf(f) : AfterQuestion(y, AskedOfSend[i]) \in LoopsOf(f)
    BY <1>4, <1>5 DEF n
  <2>4. k \in 1 .. Len(AskedOfSend) /\ \A y \in Idle(f) : AfterQuestion(y, AskedOfSend[k]) \in LoopsOf(f)
    BY <1>5, <2>1 DEF n
  <2> HIDE DEF f
  <2>5. results \in Idle(f)
    BY DEF f
  <2>6. QED
    BY <1>1, <1>4, <2>2, <2>3, <2>4, <2>5, AfterQuestionsReach
<1>8. QED
  BY <1>6, <1>7

(* The questions about a region, asked with the loops of the caller.       *)
LEMMA RegionKeepsTrees ==
  ASSUME TypeInv, handled < Len(senders), r # nullptr, results \in LoopsOf(region.function)
  PROVE  /\ AfterRegion(results) \in Right
         /\ Decision \in Looked => AfterRegion(results) \in AllOf(parallel_function)
         /\ Decision \notin Looked \cup {"call"} => AfterRegion(results) \in Idle(region.function)
<1> DEFINE f == region.function
           pf == parallel_function
           xa == Ask(results, "AA", f)
           xb == AfterCalls(xa)
           xc == AfterLooking(xb)
           xe == AfterComparing(xc)
<1>1. f \in AllFunctions /\ pf \in AllFunctions /\ f # pf
  BY CurrentFunctions
<1>2. /\ results \in Results /\ results \in Right /\ results \in Idle(f)
      /\ results.current["LI"] = f
  BY DEF LoopsOf, Idle, Right
<1>3. xa \in Results /\ xa.ran = f /\ xa.current = results.current /\ xa.stale = results.stale
  BY <1>1, <1>2, AskAliases
<1>4. xa \in Idle(f) /\ xa.current["LI"] = f
  <2> HIDE DEF xa
  <2>1. QED
    BY <1>2, <1>3 DEF Idle, Right
<1>5. CASE Decision = "readonly"
  <2>1. AfterRegion(results) = results /\ Decision \notin Looked
    BY <1>5 DEF AfterRegion, Looked
  <2>2. QED
    BY <1>2, <2>1
<1>6. CASE Decision = "no_loop"
  <2>1. AfterRegion(results) = xa /\ Decision \notin Looked
    BY <1>6 DEF AfterRegion, AfterCalls, AfterLooking, AfterComparing, Looked, Compared
  <2>2. xa \in Right
    BY <1>4 DEF Idle
  <2>3. QED
    BY <1>4, <2>1, <2>2
<1>7. CASE Decision \notin {"readonly", "no_loop"}
  <2>1. xb \in Right /\ xb.current["LI"] = f
    <3> DEFINE P == {y \in Right : y.current["LI"] = f}
    <3>1. xb = AfterQuestions(xa, AskedOfCalls)
      BY <1>7 DEF AfterCalls
    <3>2. AskedOfCalls \in Seq({<<"AA", pf>>}) /\ AskedOfCalls \in Seq(Question)
      BY AskedOfCallsType
    <3>3. ASSUME NEW i \in 1 .. Len(AskedOfCalls), NEW y \in P
          PROVE  AfterQuestion(y, AskedOfCalls[i]) \in P
      <4>1. AskedOfCalls[i] = <<"AA", pf>>
        BY <3>2
      <4>2. AfterQuestion(y, AskedOfCalls[i]) = Ask(y, "AA", pf) /\ y \in Results
        BY <4>1 DEF Ask, Right
      <4> DEFINE z == Ask(y, "AA", pf)
      <4>3. z \in Results /\ z.current = y.current /\ z.stale = y.stale
        BY <1>1, <4>2, AskAliases
      <4> HIDE DEF z
      <4>4. z \in P
        BY <4>3 DEF Right
      <4>5. QED
        BY <4>2, <4>4 DEF z
    <3>4. P \subseteq Results /\ xa \in P
      BY <1>4 DEF Right, Idle
    <3>5. AfterQuestions(xa, AskedOfCalls) \in P
      <4> HIDE DEF P, xa
      <4>1. QED
        BY <3>2, <3>3, <3>4, AfterQuestionsKeep
    <3>6. QED
      BY <3>1, <3>5
  <2>2. AfterRegion(results) = xe
    BY <1>7 DEF AfterRegion
  <2> HIDE DEF xa, xb
  <2>3. CASE Decision \notin Looked
    <3>1. xe = xb /\ Decision = "call"
      BY <1>7, <2>3, DecisionType DEF AfterLooking, AfterComparing, Looked, Compared, Outcomes, Decision
    <3>2. QED
      BY <2>1, <2>2, <2>3, <3>1
  <2>4. CASE Decision \in Looked
    <3>1. xc \in AllOf(pf)
      <4>1. xc = AskThree(xb, "LI", "DT", "PDT", pf)
        BY <2>4 DEF AfterLooking
      <4>2. QED
        BY <1>1, <2>1, <4>1, LookingFindsAll
    <3> HIDE DEF xc
    <3>2. xe \in AllOf(pf)
      <4>1. CASE Decision \in Compared
        <5>1. xe = Ask(Ask(Ask(xc, "SE", pf), "SCEV", pf), "LI", pf)
          BY <4>1 DEF AfterComparing, AskThree
        <5> HIDE DEF pf, xe
        <5>2. Ask(xc, "SE", pf) \in AllOf(pf)
          BY <1>1, <3>1, AllStay
        <5>3. Ask(Ask(xc, "SE", pf), "SCEV", pf) \in AllOf(pf)
          BY <1>1, <5>2, AllStay
        <5>4. "LI" \in TreeKinds
          BY DEF TreeKinds
        <5>5. QED
          BY <1>1, <5>1, <5>3, <5>4, AllStay
      <4>2. CASE Decision \notin Compared
        BY <3>1, <4>2 DEF AfterComparing
      <4>3. QED
        BY <4>1, <4>2
    <3>3. xe \in Right
      BY <3>2 DEF AllOf
    <3>4. QED
      BY <2>2, <2>4, <3>2, <3>3
  <2>5. QED
    BY <2>3, <2>4
<1>8. QED
  BY <1>5, <1>6, <1>7

(* Those of an insertion, asked with the trees of the region.              *)
LEMMA InsertionKeepsTrees ==
  ASSUME TypeInv, handled < Len(senders), r # nullptr, results \in AllOf(parallel_function)
  PROVE  AfterInsertion(results) \in Idle(region.function)
<1> DEFINE f == region.function
           pf == parallel_function
           xa == Ask(Ask(results, "SE", pf), "SCEV", pf)
           xb == AfterValues(xa)
<1>1. f \in AllFunctions /\ pf \in AllFunctions /\ f # pf
  BY CurrentFunctions
<1>2. "LI" \in TreeKinds /\ "DT" \in TreeKinds /\ "PDT" \in TreeKinds
  BY DEF TreeKinds
<1>3. xa \in Idle(f)
  <2>1. Ask(results, "SE", pf) \in AllOf(pf)
    BY <1>1, AllStay
  <2>2. xa \in AllOf(pf)
    BY <1>1, <2>1, AllStay
  <2>3. QED
    BY <1>1, <2>2, AllIsIdle
<1> HIDE DEF xa
<1>4. xb \in Idle(f)
  <2> DEFINE qs == QuestionsAboutValues
  <2>1. ASSUME NEW i \in 1 .. Len(qs), NEW y \in Idle(f) PROVE AfterQuestion(y, qs[i]) \in Idle(f)
    <3> DEFINE z == Ask(y, "SCEV", pf)
    <3>1. CASE qs[i] = <<"SCEV", pf>>
      <4>1. AfterQuestion(y, qs[i]) = z
        BY <3>1 DEF Ask
      <4>2. y \in Results
        BY DEF Idle, Right
      <4>3. /\ z \in Results /\ z.current = y.current /\ z.ran = y.ran
            /\ z.stale = IF y.alive THEN y.stale ELSE y.stale \cup {"SCEV"}
        BY <1>1, <4>2, AskExpression
      <4> HIDE DEF z
      <4>4. z.stale \cap TreeKinds = {}
        BY <4>3 DEF Idle, Right, TreeKinds
      <4>5. QED
        BY <4>1, <4>3, <4>4 DEF Idle, Right
    <3>2. CASE qs[i] # <<"SCEV", pf>>
      <4>1. PICK kind \in TreeKinds : qs[i] = <<kind, f>>
        BY <3>2, QuestionsAboutValuesType DEF TreeKinds
      <4> HIDE DEF f, qs
      <4>2. QED
        BY <1>1, <4>1, IdleStays DEF Ask
    <3>3. QED
      BY <3>1, <3>2
  <2>2. qs \in Seq(Question) /\ Idle(f) \subseteq Results
    BY QuestionsAboutValuesType DEF Idle, Right
  <2>3. AfterQuestions(xa, qs) \in Idle(f)
    <3> HIDE DEF qs, f, pf
    <3>1. QED
      BY <1>3, <2>1, <2>2, AfterQuestionsKeep
  <2>4. QED
    BY <2>3 DEF AfterValues
<1>5. AfterInsertion(results) = Ask(Ask(Ask(xb, "LI", f), "PDT", f), "DT", f)
  BY DEF AfterInsertion, AskThree, xa
<1> HIDE DEF f, xb
<1>6. Ask(Ask(xb, "LI", f), "PDT", f) \in Idle(f)
  BY <1>1, <1>2, <1>4, IdleStays
<1>7. Ask(Ask(Ask(xb, "LI", f), "PDT", f), "DT", f) \in Idle(f)
  BY <1>1, <1>2, <1>6, IdleStays
<1>8. QED
  BY <1>5, <1>7 DEF f

TreesInv ==
  Became("call") = {} /\ InOneFunction =>
    /\ results \in Right
    /\ step = "send" => \A a \in DOMAIN m.sends : results \in Idle(m.sends[a].function)
    /\ step = "fork" => results \in LoopsOf(send.function)
    /\ step = "insert" => results \in AllOf(parallel_function)

LEMMA InitTrees == Init => TreesInv
<1> SUFFICES ASSUME Init PROVE TreesInv
  OBVIOUS
<1>1. TypeInv
  BY InitTypes
<1>2. results \in Right
  BY <1>1 DEF Init, NewResults, Right, TypeInv
<1>3. ASSUME NEW f \in AllFunctions PROVE results \in Idle(f)
  <2>1. f # NoFunction
    BY DEF AllFunctions, NoFunction
  <2>2. \A kind \in TreeKinds : results.current[kind] = NoFunction
    BY DEF Init, NewResults, TreeKinds, Kinds
  <2>3. QED
    BY <1>2, <2>1, <2>2 DEF Idle
<1>4. \A a \in DOMAIN m.sends : m.sends[a].function \in AllFunctions
  <2>1. \A a \in DOMAIN m.sends : m.sends[a] \in Sent(Len(m.regions))
    BY <1>1, SendersAreSends DEF TypeInv
  <2>2. QED
    BY <2>1 DEF Sent, Function, AllFunctions
<1>5. step = "send"
  BY DEF Init
<1>6. QED
  BY <1>2, <1>3, <1>4, <1>5 DEF TreesInv

LEMMA BecameGrows ==
  ASSUME TypeInv, [Next \/ Returned]_vars, NEW c
  PROVE  Became(c) \subseteq Became(c)'
<1>1. ASSUME decision' = decision PROVE Became(c)' = Became(c)
  BY <1>1 DEF Became
<1>2. ASSUME m' = m, handled < Len(senders), NEW d \in Outcomes, Decided(d)
      PROVE  Became(c) \subseteq Became(c)'
  BY <1>2, BecameOneMore
<1>3. ASSUME NEW found \in {nullptr} \cup DOMAIN m.regions, FindModification(found)
      PROVE  Became(c) \subseteq Became(c)'
  BY <1>1, <1>2, <1>3 DEF FindModification, Outcomes
<1>4. CASE HandleForkCall
  <2>1. m' = m /\ handled < Len(senders)
    BY <1>4 DEF HandleForkCall, TypeInv
  <2>2. CASE Decision \in {"partitioned", "aborted"}
    BY <1>1, <1>4, <2>2 DEF HandleForkCall
  <2>3. CASE Decision \notin {"partitioned", "aborted"}
    <3> DEFINE d == Decision
    <3>1. Decided(d) /\ d \in Outcomes
      BY <1>4, <2>3, DecisionType DEF HandleForkCall
    <3> HIDE DEF d
    <3>2. QED
      BY <1>2, <2>1, <3>1
  <2>4. QED
    BY <2>2, <2>3
<1>5. CASE InsertPartitioning
  <2>1. m' = m /\ handled < Len(senders) /\ Decided("partitioned") /\ "partitioned" \in Outcomes
    BY <1>5 DEF InsertPartitioning, TypeInv, Outcomes
  <2>2. QED
    BY <1>2, <2>1
<1>6. QED
  BY <1>1, <1>3, <1>4, <1>5 DEF Next, Returned, vars, UnexpectedSend, ReadFreedMemory

LEMMA NextTrees == TypeInv /\ TreesInv /\ [Next \/ Returned]_vars => TreesInv'
<1> SUFFICES ASSUME TypeInv, TreesInv, [Next \/ Returned]_vars, (Became("call") = {} /\ InOneFunction)'
             PROVE  /\ results' \in Right
                    /\ step' = "send" =>
                         \A a \in DOMAIN m'.sends : results' \in Idle(m'.sends[a].function)
                    /\ step' = "fork" => results' \in LoopsOf(send'.function)
                    /\ step' = "insert" => results' \in AllOf(parallel_function')
  BY DEF TreesInv, Right, Idle, LoopsOf, AllOf
<1>1. m' = m
  BY DEF Next, Returned, vars, UnexpectedSend, FindModification, HandleForkCall,
         InsertPartitioning, ReadFreedMemory
<1>2. InOneFunction /\ Became("call") = {}
  BY <1>1, BecameGrows DEF InOneFunction
<1>3. /\ results \in Right
      /\ step = "send" => \A a \in DOMAIN m.sends : results \in Idle(m.sends[a].function)
      /\ step = "fork" => results \in LoopsOf(send.function)
      /\ step = "insert" => results \in AllOf(parallel_function)
  BY <1>2 DEF TreesInv
<1>4. ASSUME handled < Len(senders)
      PROVE  /\ s \in DOMAIN m.sends
             /\ \A a \in DOMAIN m.sends : m.sends[a].function = send.function
             /\ r # nullptr => region.function = send.function
  <2>1. s \in DOMAIN m.sends
    BY <1>4, CurrentSend
  <2>2. QED
    BY <1>2, <2>1 DEF InOneFunction, send, r, region
<1>5. ASSUME handled < Len(senders), results' \in Idle(send.function)
      PROVE  /\ results' \in Right
             /\ \A a \in DOMAIN m'.sends : results' \in Idle(m'.sends[a].function)
  BY <1>1, <1>4, <1>5 DEF Idle
<1>6. CASE UnexpectedSend
  BY <1>3, <1>6 DEF UnexpectedSend
<1>7. ASSUME NEW found \in {nullptr} \cup DOMAIN m.regions, FindModification(found)
      PROVE  /\ results' \in Right
             /\ step' = "send" =>
                  \A a \in DOMAIN m'.sends : results' \in Idle(m'.sends[a].function)
             /\ step' = "fork" => results' \in LoopsOf(send'.function)
             /\ step' # "insert"
  <2>1. /\ handled < Len(senders) /\ step = "send"
        /\ results' = AfterQuestions(results, AskedOfSend)
        /\ found # nullptr => r # nullptr /\ handled' = handled /\ step' = "fork"
        /\ found = nullptr => step' = "send"
    BY <1>7 DEF FindModification, AskedOfSend
  <2>2. results \in Idle(send.function)
    BY <1>3, <1>4, <2>1 DEF send
  <2>3. /\ results' \in Idle(send.function)
        /\ r # nullptr => results' \in LoopsOf(send.function)
    BY <2>1, <2>2, SendKeepsTrees
  <2>4. handled' = handled => send' = send
    BY <1>1, SendersStay DEF send, s
  <2>5. CASE found = nullptr
    BY <1>5, <2>1, <2>3, <2>5
  <2>6. CASE found # nullptr
    BY <1>5, <2>1, <2>3, <2>4, <2>6
  <2>7. QED
    BY <2>5, <2>6
<1>8. CASE HandleForkCall
  <2>1. /\ handled < Len(senders) /\ r # nullptr /\ step = "fork" /\ forked' = forked
        /\ results' = AfterQuestions(results, QuestionsAboutRegion)
    BY <1>8 DEF HandleForkCall, TypeInv
  <2>2. results \in LoopsOf(region.function) /\ region.function = send.function
    BY <1>3, <1>4, <2>1
  <2>3. /\ results' \in Right
        /\ Decision \in Looked => results' \in AllOf(parallel_function)
        /\ Decision \notin Looked \cup {"call"} => results' \in Idle(region.function)
    BY <2>1, <2>2, QuestionsAboutRegionType, RegionKeepsTrees
  <2>4. parallel_function # region.function
    BY <2>1, CurrentFunctions
  <2>5. CASE Decision \in {"partitioned", "aborted"}
    <3>1. /\ handled' = handled
          /\ step' = IF Decision = "partitioned" THEN "insert" ELSE "aborted"
      BY <1>8, <2>5 DEF HandleForkCall
    <3>2. parallel_function' = parallel_function
      BY <1>1, <2>1, <3>1, SendersStay DEF parallel_function, r, send, s
    <3>3. QED
      BY <2>3, <2>5, <3>1, <3>2 DEF Looked
  <2>6. CASE Decision \notin {"partitioned", "aborted"}
    <3> DEFINE d == Decision
    <3>1. step' = "send" /\ Decided(d) /\ d \in Outcomes
      BY <1>8, <2>6, DecisionType DEF HandleForkCall
    <3>2. Decision # "call"
      <4> HIDE DEF d
      <4>1. Became("call")' = IF "call" = d THEN Became("call") \cup {s} ELSE Became("call")
        BY <1>1, <2>1, <3>1, BecameOneMore
      <4>2. QED
        BY <4>1 DEF d
    <3>3. results' \in Idle(send.function)
      BY <2>2, <2>3, <2>4, <3>2, AllIsIdle
    <3>4. QED
      BY <1>5, <2>1, <3>1, <3>3
  <2>7. QED
    BY <2>5, <2>6
<1>9. CASE InsertPartitioning
  <2>1. /\ handled < Len(senders) /\ r # nullptr /\ step = "insert" /\ step' = "send"
        /\ results' = AfterQuestions(results, QuestionsOfInsertion)
    BY <1>9 DEF InsertPartitioning, TypeInv
  <2>2. results' \in Idle(region.function) /\ region.function = send.function
    BY <1>3, <1>4, <2>1, QuestionsOfInsertionType, InsertionKeepsTrees
  <2>3. QED
    BY <1>5, <2>1, <2>2
<1>10. CASE ReadFreedMemory
  <2>1. /\ handled < Len(senders) /\ r # nullptr /\ step \in {"fork", "insert"} /\ step' = "aborted"
        /\ results' = AfterQuestions(results, IF step = "fork" THEN QuestionsAboutRegion
                                              ELSE QuestionsOfInsertion)
    BY <1>10 DEF ReadFreedMemory, TypeInv
  <2>2. region.function = send.function
    BY <1>4, <2>1
  <2>3. CASE step = "fork"
    BY <1>3, <2>1, <2>2, <2>3, QuestionsAboutRegionType, RegionKeepsTrees
  <2>4. CASE step = "insert"
    <3>1. results' \in Idle(region.function)
      BY <1>3, <2>1, <2>4, QuestionsOfInsertionType, InsertionKeepsTrees
    <3>2. QED
      BY <2>1, <3>1 DEF Idle
  <2>5. QED
    BY <2>1, <2>3, <2>4
<1>11. CASE UNCHANGED vars
  <2>1. /\ m' = m /\ handled' = handled /\ forked' = forked /\ results' = results /\ step' = step
    BY <1>11 DEF vars
  <2>2. send' = send /\ parallel_function' = parallel_function
    BY <2>1, SendersStay DEF send, s, r, parallel_function
  <2>3. QED
    BY <1>3, <2>1, <2>2
<1>12. QED
  BY <1>6, <1>7, <1>8, <1>9, <1>10, <1>11 DEF Next, Returned

(* An answer about loops and dominance is about the function it was asked  *)
(* of, as long as all sends and the regions that fill their buffers are in *)
(* one function and no region was given up because of a call.              *)
THEOREM TreesStayCurrent == Spec => []TreesAreCurrent
<1>1. Init => TypeInv /\ TreesInv
  BY InitTypes, InitTrees
<1>2. TypeInv /\ TreesInv /\ [Next \/ Returned]_vars => (TypeInv /\ TreesInv)'
  BY NextTypes, NextTrees
<1>3. TypeInv /\ TreesInv => TreesAreCurrent
  BY DEF TreesInv, TreesAreCurrent, Right, TreeKinds
<1>4. QED
  BY <1>1, <1>2, <1>3, PTL DEF Spec

-----------------------------------------------------------------------------
(* Scalar evolution: whether the object that is asked is alive.            *)

EvolutionKinds == {"SE", "SCEV"}

(* Scalar evolution was last asked of f, and of kinds no answer is from    *)
(* freed memory.                                                           *)
EvolutionOf(f, kinds) == {x \in Results : x.current["SE"] = f /\ x.stale \cap kinds = {}}

(* The object is alive, and asking for the loops of f will not free it.    *)
Fresh(f) == {x \in EvolutionOf(f, EvolutionKinds) : x.alive /\ x.current["LI"] = f}

LEMMA KeepsEvolution ==
  ASSUME NEW kinds \in SUBSET EvolutionKinds, NEW f, NEW x \in EvolutionOf(f, kinds),
         NEW g \in AllFunctions
  PROVE  /\ \A kind \in TreeKinds : Ask(x, kind, g) \in EvolutionOf(f, kinds)
         /\ Ask(x, "AA", g) \in EvolutionOf(f, kinds)
<1>1. x \in Results /\ x.current \in [Kinds -> Cached] /\ TreeKinds \subseteq Kinds
  BY DEF EvolutionOf, Results, TreeKinds, Kinds
<1>2. ASSUME NEW kind \in TreeKinds PROVE Ask(x, kind, g) \in EvolutionOf(f, kinds)
  <2> DEFINE y == Ask(x, kind, g)
  <2>1. AnswersTree(x, kind, g, y)
    BY <1>1, AskTree
  <2> HIDE DEF y
  <2>2. kind \notin EvolutionKinds /\ kind # "SE"
    BY DEF TreeKinds, EvolutionKinds
  <2>3. y.current["SE"] = x.current["SE"]
    BY <1>1, <2>1, <2>2 DEF AnswersTree, Kinds
  <2>4. y.stale \cap kinds = {}
    BY <2>1, <2>2 DEF AnswersTree, EvolutionOf
  <2>5. QED
    BY <2>1, <2>3, <2>4 DEF AnswersTree, EvolutionOf, y
<1>3. Ask(x, "AA", g) \in EvolutionOf(f, kinds)
  <2> DEFINE y == Ask(x, "AA", g)
  <2>1. y \in Results /\ y.current = x.current /\ y.stale = x.stale
    BY <1>1, AskAliases
  <2> HIDE DEF y
  <2>2. QED
    BY <2>1 DEF EvolutionOf, y
<1>4. QED
  BY <1>2, <1>3

LEMMA SendKeepsEvolution ==
  ASSUME TypeInv, handled < Len(senders), NEW kinds \in SUBSET EvolutionKinds,
         NEW f, results \in EvolutionOf(f, kinds)
  PROVE  AfterQuestions(results, AskedOfSend) \in EvolutionOf(f, kinds)
<1> DEFINE g == send.function
<1>1. g \in AllFunctions /\ AskedOfSend \in Seq(TreeKinds \X {g}) /\ AskedOfSend \in Seq(Question)
  BY CurrentSend, AskedOfSendType DEF TreeKinds
<1> HIDE DEF g
<1>2. ASSUME NEW i \in 1 .. Len(AskedOfSend), NEW y \in EvolutionOf(f, kinds)
      PROVE  AfterQuestion(y, AskedOfSend[i]) \in EvolutionOf(f, kinds)
  <2>1. PICK kind \in TreeKinds : AskedOfSend[i] = <<kind, g>>
    BY <1>1
  <2>2. QED
    BY <1>1, <2>1, KeepsEvolution DEF Ask
<1>3. EvolutionOf(f, kinds) \subseteq Results
  BY DEF EvolutionOf
<1>4. QED
  BY <1>1, <1>2, <1>3, AfterQuestionsKeep

(* The questions about a region: when its addresses are compared, scalar   *)
(* evolution is asked of it, and was of no use if it had been before.      *)
LEMMA RegionKeepsEvolution ==
  ASSUME TypeInv, handled < Len(senders), r # nullptr, NEW kinds \in SUBSET EvolutionKinds,
         NEW c, results \in EvolutionOf(c, kinds)
  PROVE  /\ Decision \notin Compared => AfterRegion(results) \in EvolutionOf(c, kinds)
         /\ Decision \in Compared => AfterRegion(results) \in EvolutionOf(parallel_function, {})
         /\ Decision \in Compared /\ c # parallel_function /\ kinds = EvolutionKinds =>
              AfterRegion(results) \in Fresh(parallel_function)
<1> DEFINE f == region.function
           pf == parallel_function
           xa == Ask(results, "AA", f)
           xb == AfterCalls(xa)
           xc == AfterLooking(xb)
<1>1. f \in AllFunctions /\ pf \in AllFunctions
  BY CurrentFunctions
<1>2. "LI" \in TreeKinds /\ "DT" \in TreeKinds /\ "PDT" \in TreeKinds
  BY DEF TreeKinds
<1>3. xa \in EvolutionOf(c, kinds)
  BY <1>1, KeepsEvolution
<1> HIDE DEF xa
<1>4. xb \in EvolutionOf(c, kinds)
  <2>1. CASE Decision = "no_loop"
    BY <1>3, <2>1 DEF AfterCalls
  <2>2. CASE Decision # "no_loop"
    <3>1. xb = AfterQuestions(xa, AskedOfCalls)
      BY <2>2 DEF AfterCalls
    <3>2. AskedOfCalls \in Seq({<<"AA", pf>>}) /\ AskedOfCalls \in Seq(Question)
      BY AskedOfCallsType
    <3>3. ASSUME NEW i \in 1 .. Len(AskedOfCalls), NEW y \in EvolutionOf(c, kinds)
          PROVE  AfterQuestion(y, AskedOfCalls[i]) \in EvolutionOf(c, kinds)
      <4>1. AskedOfCalls[i] = <<"AA", pf>>
        BY <3>2
      <4> HIDE DEF pf
      <4>2. QED
        BY <1>1, <4>1, KeepsEvolution DEF Ask
    <3>4. EvolutionOf(c, kinds) \subseteq Results
      BY DEF EvolutionOf
    <3>5. QED
      BY <1>3, <3>1, <3>2, <3>3, <3>4, AfterQuestionsKeep
  <2>3. QED
    BY <2>1, <2>2
<1> HIDE DEF xb
<1>5. /\ xc \in EvolutionOf(c, kinds)
      /\ Decision \in Looked => xc.current["LI"] = pf
  <2>1. CASE Decision \in Looked
    <3> DEFINE y == Ask(xb, "LI", pf)
               z == Ask(y, "DT", pf)
               w == Ask(z, "PDT", pf)
    <3>1. xc = w
      BY <2>1 DEF AfterLooking, AskThree
    <3> HIDE DEF pf, xc
    <3>2. y \in EvolutionOf(c, kinds) /\ AnswersTree(xb, "LI", pf, y)
      BY <1>1, <1>2, <1>4, KeepsEvolution, AskTree DEF EvolutionOf
    <3> HIDE DEF y
    <3>3. z \in EvolutionOf(c, kinds) /\ AnswersTree(y, "DT", pf, z)
      BY <1>1, <1>2, <3>2, KeepsEvolution, AskTree DEF EvolutionOf
    <3> HIDE DEF z
    <3>4. w \in EvolutionOf(c, kinds) /\ AnswersTree(z, "PDT", pf, w)
      BY <1>1, <1>2, <3>3, KeepsEvolution, AskTree DEF EvolutionOf
    <3> HIDE DEF w
    <3>5. /\ xb.current \in [Kinds -> Cached] /\ y.current \in [Kinds -> Cached]
          /\ z.current \in [Kinds -> Cached] /\ "LI" \in Kinds
      BY <1>4, <3>2, <3>3 DEF EvolutionOf, Results, Kinds
    <3>6. y.current["LI"] = pf
      BY <3>2, <3>5 DEF AnswersTree
    <3>7. z.current["LI"] = pf
      BY <3>3, <3>5, <3>6 DEF AnswersTree
    <3>8. w.current["LI"] = pf
      BY <3>4, <3>5, <3>7 DEF AnswersTree
    <3>9. QED
      BY <3>1, <3>4, <3>8
  <2>2. CASE Decision \notin Looked
    BY <1>4, <2>2 DEF AfterLooking
  <2>3. QED
    BY <2>1, <2>2
<1> HIDE DEF xc
<1>6. Compared \subseteq Looked /\ "readonly" \notin Compared
  BY DEF Compared, Looked
<1>7. CASE Decision \notin Compared
  <2>1. AfterRegion(results) = results \/ AfterRegion(results) = xc
    BY <1>7 DEF AfterRegion, AfterComparing, xa, xb, xc
  <2>2. QED
    BY <1>5, <1>7, <2>1
<1>8. CASE Decision \in Compared
  <2> DEFINE y == Ask(xc, "SE", pf)
             z == Ask(y, "SCEV", pf)
             w == Ask(z, "LI", pf)
  <2>1. AfterRegion(results) = w
    BY <1>6, <1>8 DEF AfterRegion, AfterComparing, AskThree, xa, xb, xc
  <2> HIDE DEF pf
  <2>2. /\ xc \in Results /\ xc.current["SE"] = c /\ xc.stale \cap kinds = {}
        /\ xc.current["LI"] = pf /\ xc.current \in [Kinds -> Cached] /\ "SE" \in Kinds /\ "LI" \in Kinds
    BY <1>5, <1>6, <1>8 DEF EvolutionOf, Results, Kinds
  <2>3. AnswersEvolution(xc, pf, y)
    BY <1>1, <2>2, AskEvolution
  <2> HIDE DEF y
  <2>4. /\ y \in Results /\ y.current["SE"] = pf /\ y.current["LI"] = pf
        /\ c # pf => y.alive /\ y.stale = xc.stale
    BY <2>2, <2>3 DEF AnswersEvolution
  <2>5. /\ z \in Results /\ z.current = y.current /\ z.alive = y.alive
        /\ z.stale = IF y.alive THEN y.stale ELSE y.stale \cup {"SCEV"}
    BY <1>1, <2>4, AskExpression
  <2> HIDE DEF z
  <2>6. AnswersTree(z, "LI", pf, w)
    BY <1>1, <1>2, <2>5, AskTree
  <2> HIDE DEF w
  <2>7. z.current \in [Kinds -> Cached]
    BY <2>5 DEF Results
  <2>8. /\ w \in Results /\ w.alive = z.alive /\ w.current["SE"] = pf /\ w.current["LI"] = pf
    BY <2>2, <2>4, <2>5, <2>6, <2>7 DEF AnswersTree
  <2>9. w \in EvolutionOf(pf, {})
    BY <2>8 DEF EvolutionOf
  <2>10. ASSUME c # pf, kinds = EvolutionKinds PROVE w \in Fresh(pf)
    <3>1. w.stale \cap EvolutionKinds = {}
      BY <2>2, <2>4, <2>5, <2>6, <2>10 DEF AnswersTree, EvolutionKinds
    <3>2. w.alive
      BY <2>4, <2>5, <2>8, <2>10
    <3>3. QED
      BY <2>8, <3>1, <3>2 DEF Fresh, EvolutionOf
  <2>11. QED
    BY <1>8, <2>1, <2>9, <2>10 DEF pf
<1>9. QED
  BY <1>7, <1>8

(* Those of an insertion.                                                  *)
LEMMA InsertionKeepsEvolution ==
  ASSUME TypeInv, handled < Len(senders), r # nullptr
  PROVE  /\ AfterInsertion(results) \in EvolutionOf(parallel_function, {})
         /\ results \in Fresh(parallel_function) /\ ReadsExpressionsFirst(r) =>
              AfterInsertion(results) \in EvolutionOf(parallel_function, EvolutionKinds)
<1> DEFINE f == region.function
           pf == parallel_function
           y == Ask(results, "SE", pf)
           z == Ask(y, "SCEV", pf)
           v == AfterValues(z)
           w == AskThree(v, "LI", "PDT", "DT", f)
<1>1. f \in AllFunctions /\ pf \in AllFunctions
  BY CurrentFunctions
<1>2. "LI" \in TreeKinds /\ "DT" \in TreeKinds /\ "PDT" \in TreeKinds
  BY DEF TreeKinds
<1>3. AfterInsertion(results) = w
  BY DEF AfterInsertion
<1>4. results \in Results /\ results.current \in [Kinds -> Cached] /\ "SE" \in Kinds
  BY DEF TypeInv, Results, Kinds
<1>5. {} \in SUBSET EvolutionKinds /\ EvolutionKinds \in SUBSET EvolutionKinds
  OBVIOUS
<1> DEFINE qs == QuestionsAboutValues
           n == Len(qs)
<1>6. /\ v = AfterQuestions(z, qs) /\ qs \in Seq(Question) /\ n \in Nat
      /\ \A i \in 1 .. n :
           \/ region.asked[i] = "SCEV" /\ qs[i] = <<"SCEV", pf>>
           \/ region.asked[i] # "SCEV" /\ \E kind \in TreeKinds : qs[i] = <<kind, f>>
  BY QuestionsAboutValuesType DEF AfterValues, TreeKinds
<1>7. DOMAIN region.asked = 1 .. n
  BY QuestionsAboutValuesType
<1>8. w = Ask(Ask(Ask(v, "LI", f), "PDT", f), "DT", f)
  BY DEF AskThree
<1> HIDE DEF pf, f, v, w, qs, n
<1>9. AnswersEvolution(results, pf, y)
  BY <1>1, <1>4, AskEvolution
<1> HIDE DEF y
<1>10. y \in Results /\ y.current["SE"] = pf
  BY <1>4, <1>9 DEF AnswersEvolution
<1>11. /\ z \in Results /\ z.current = y.current
       /\ z.stale = IF y.alive THEN y.stale ELSE y.stale \cup {"SCEV"}
  BY <1>1, <1>10, AskExpression
<1> HIDE DEF z
<1>12. ASSUME NEW kinds \in SUBSET EvolutionKinds, v \in EvolutionOf(pf, kinds)
       PROVE  w \in EvolutionOf(pf, kinds)
  <2>1. Ask(v, "LI", f) \in EvolutionOf(pf, kinds)
    BY <1>1, <1>2, <1>12, KeepsEvolution
  <2>2. Ask(Ask(v, "LI", f), "PDT", f) \in EvolutionOf(pf, kinds)
    BY <1>1, <1>2, <2>1, KeepsEvolution
  <2>3. Ask(Ask(Ask(v, "LI", f), "PDT", f), "DT", f) \in EvolutionOf(pf, kinds)
    BY <1>1, <1>2, <2>2, KeepsEvolution
  <2>4. QED
    BY <1>8, <2>3
<1>13. v \in EvolutionOf(pf, {})
  <2>1. z \in EvolutionOf(pf, {})
    BY <1>10, <1>11 DEF EvolutionOf
  <2>2. ASSUME NEW i \in 1 .. n, NEW x \in EvolutionOf(pf, {})
        PROVE  AfterQuestion(x, qs[i]) \in EvolutionOf(pf, {})
    <3>1. CASE qs[i] = <<"SCEV", pf>>
      <4>1. x \in Results /\ x.current["SE"] = pf
        BY DEF EvolutionOf
      <4>2. Ask(x, "SCEV", pf) \in Results /\ Ask(x, "SCEV", pf).current = x.current
        BY <1>1, <4>1, AskExpression
      <4>3. QED
        BY <3>1, <4>1, <4>2 DEF EvolutionOf, Ask
    <3>2. CASE \E kind \in TreeKinds : qs[i] = <<kind, f>>
      BY <1>1, <1>5, <3>2, KeepsEvolution DEF Ask
    <3>3. QED
      BY <1>6, <3>1, <3>2
  <2>3. EvolutionOf(pf, {}) \subseteq Results
    BY DEF EvolutionOf
  <2>4. QED
    BY <1>6, <2>1, <2>2, <2>3, AfterQuestionsKeep DEF n
<1>14. ASSUME results \in Fresh(pf), ReadsExpressionsFirst(r)
       PROVE  w \in EvolutionOf(pf, EvolutionKinds)
  <2> DEFINE P == [i \in 0 .. n |-> {x \in EvolutionOf(pf, EvolutionKinds) :
                                      (\A k \in 1 .. i : region.asked[k] = "SCEV") => x.alive}]
  <2>1. results.current["SE"] = pf /\ results.alive /\ results.stale \cap EvolutionKinds = {}
    BY <1>14 DEF Fresh, EvolutionOf
  <2>2. y.alive /\ y.stale = results.stale
    BY <1>4, <1>9, <2>1 DEF AnswersEvolution
  <2>3. z.alive = y.alive
    BY <1>1, <1>10, AskExpression DEF z
  <2>4. z \in P[0]
    <3>1. z \in EvolutionOf(pf, EvolutionKinds) /\ z.alive
      BY <1>10, <1>11, <2>1, <2>2, <2>3 DEF EvolutionOf
    <3>2. 0 \in 0 .. n
      BY <1>6
    <3>3. QED
      BY <3>1, <3>2
  <2>5. ASSUME NEW i \in 1 .. n, NEW x \in P[i - 1] PROVE AfterQuestion(x, qs[i]) \in P[i]
    <3>1. /\ i \in 0 .. n /\ i - 1 \in 0 .. n /\ i \in 1 .. i /\ \A k \in 1 .. i : k < i \/ k \in {i}
          /\ 1 .. i - 1 \subseteq 1 .. i /\ \A k \in 1 .. i : k \in DOMAIN region.asked
      BY <1>6, <1>7
    <3>2. /\ x \in EvolutionOf(pf, EvolutionKinds) /\ x \in Results
          /\ (\A k \in 1 .. i - 1 : region.asked[k] = "SCEV") => x.alive
      BY <3>1 DEF EvolutionOf
    <3>3. CASE region.asked[i] = "SCEV"
      <4> DEFINE u == Ask(x, "SCEV", pf)
      <4>1. \A k \in 1 .. i : region.asked[k] = "SCEV"
        BY <1>14, <3>1, <3>3 DEF ReadsExpressionsFirst, region
      <4>2. x.alive
        BY <3>1, <3>2, <4>1
      <4>3. x.alive /\ AfterQuestion(x, qs[i]) = u
        BY <1>6, <3>3, <4>2 DEF Ask
      <4>4. u \in Results /\ u.current = x.current /\ u.stale = x.stale /\ u.alive
        BY <1>1, <3>2, <4>3, AskExpression
      <4> HIDE DEF u
      <4>5. QED
        BY <3>1, <3>2, <4>3, <4>4 DEF EvolutionOf
    <3>4. CASE region.asked[i] # "SCEV"
      <4>1. PICK kind \in TreeKinds : qs[i] = <<kind, f>>
        BY <1>6, <3>4
      <4>2. AfterQuestion(x, qs[i]) \in EvolutionOf(pf, EvolutionKinds)
        BY <1>1, <1>5, <3>2, <4>1, KeepsEvolution DEF Ask
      <4>3. QED
        BY <3>1, <3>4, <4>2
    <3>5. QED
      BY <3>3, <3>4
  <2>6. P \in [0 .. n -> SUBSET Results] /\ P[n] \subseteq EvolutionOf(pf, EvolutionKinds)
    BY <1>6 DEF EvolutionOf
  <2>7. v \in P[n]
    <3> HIDE DEF P
    <3>1. QED
      BY <1>6, <2>4, <2>5, <2>6, AfterQuestionsFollow DEF n
  <2>8. QED
    BY <1>5, <1>12, <2>6, <2>7
<1>15. QED
  BY <1>3, <1>5, <1>12, <1>13, <1>14 DEF pf

(* Scalar evolution was looked at in a region in vain.                     *)
InVain(q) == \E a \in Became("no_range") \cup Became("not_affine") : m.sends[a].region = q

NoneAgain == \A q \in DOMAIN m.regions : ~LookedAtAgain(q) /\ ReadsExpressionsFirst(q)

(* A partitioned region is another function from then on, so that the one  *)
(* scalar evolution was asked of last is a region as it is now only when   *)
(* that was in vain.                                                       *)
LastAskedInv ==
  step \in {"send", "fork"} =>
    \A q \in DOMAIN m.regions :
      results.current["SE"] = <<q, Len(forked[q].args)>> => InVain(q)

ScevInv ==
  NoneAgain => /\ results.stale \cap EvolutionKinds = {}
               /\ step = "insert" => results \in Fresh(parallel_function)

LEMMA InitEvolution == Init => LastAskedInv /\ ScevInv
<1> SUFFICES ASSUME Init PROVE LastAskedInv /\ ScevInv
  OBVIOUS
<1>1. /\ results.current["SE"] = NoFunction /\ results.stale = {} /\ step = "send"
  BY DEF Init, NewResults, Kinds
<1>2. \A q, n : NoFunction # <<q, n>>
  BY DEF NoFunction
<1>3. QED
  BY <1>1, <1>2 DEF LastAskedInv, ScevInv

(* So it is asked anew when addresses of a region are compared.            *)
LEMMA RegionAsksAgain ==
  ASSUME TypeInv, LastAskedInv, NoneAgain, step = "fork", Decision \in Compared
  PROVE  results.current["SE"] # parallel_function
<1>1. handled < Len(senders) /\ r # nullptr
  BY DEF TypeInv
<1>2. s \in DOMAIN m.sends /\ r \in DOMAIN m.regions
  BY <1>1, CurrentSend
<1> SUFFICES ASSUME results.current["SE"] = parallel_function PROVE FALSE
  OBVIOUS
<1>3. PICK a \in Became("no_range") \cup Became("not_affine") : m.sends[a].region = r
  BY <1>2 DEF LastAskedInv, InVain, parallel_function
<1>4. a # s /\ a \in DOMAIN m.sends
  BY <1>1, <1>3, NotHandledYet, BecameIsHandled
<1>5. m.sends[s].region = r
  BY DEF r, send
<1>6. LookedAtAgain(r)
  BY <1>2, <1>3, <1>4, <1>5 DEF LookedAtAgain
<1>7. QED
  BY <1>2, <1>6 DEF NoneAgain

LEMMA NextLastAsked == TypeInv /\ LastAskedInv /\ [Next \/ Returned]_vars => LastAskedInv'
<1> SUFFICES ASSUME TypeInv, LastAskedInv, [Next \/ Returned]_vars, step' \in {"send", "fork"},
                    NEW q \in DOMAIN m'.regions,
                    results'.current["SE"] = <<q, Len(forked'[q].args)>>
             PROVE  InVain(q)'
  BY DEF LastAskedInv
<1>1. m' = m
  BY DEF Next, Returned, vars, UnexpectedSend, FindModification, HandleForkCall,
         InsertPartitioning, ReadFreedMemory
<1>2. InVain(q) => InVain(q)'
  BY <1>1, BecameGrows DEF InVain
<1>3. ASSUME step \in {"send", "fork"}, results'.current["SE"] = results.current["SE"],
             forked' = forked
      PROVE  InVain(q)'
  BY <1>1, <1>2, <1>3 DEF LastAskedInv
<1>4. {} \in SUBSET EvolutionKinds /\ results \in EvolutionOf(results.current["SE"], {})
  BY DEF TypeInv, EvolutionOf
<1>5. ASSUME NEW found \in {nullptr} \cup DOMAIN m.regions, FindModification(found)
      PROVE  InVain(q)'
  <2>1. /\ handled < Len(senders) /\ step = "send" /\ forked' = forked
        /\ results' = AfterQuestions(results, AskedOfSend)
    BY <1>5 DEF FindModification, AskedOfSend
  <2>2. results' \in EvolutionOf(results.current["SE"], {})
    BY <1>4, <2>1, SendKeepsEvolution
  <2>3. QED
    BY <1>3, <2>1, <2>2 DEF EvolutionOf
<1>6. CASE HandleForkCall
  <2>1. /\ handled < Len(senders) /\ r # nullptr /\ step = "fork" /\ forked' = forked
        /\ results' = AfterRegion(results) /\ s \in DOMAIN m.sends
    BY <1>6, QuestionsAboutRegionType, CurrentSend DEF HandleForkCall, TypeInv
  <2>2. CASE Decision \notin Compared
    <3>1. results' \in EvolutionOf(results.current["SE"], {})
      BY <1>4, <2>1, <2>2, RegionKeepsEvolution
    <3>2. QED
      BY <1>3, <2>1, <3>1 DEF EvolutionOf
  <2>3. CASE Decision \in Compared
    <3>1. results' \in EvolutionOf(parallel_function, {})
      BY <1>4, <2>1, <2>3, RegionKeepsEvolution
    <3>2. q = r
      BY <3>1 DEF EvolutionOf, parallel_function
    <3>3. PICK d \in {"no_range", "not_affine"} : Decision = d
      BY <1>6, <2>3 DEF HandleForkCall, Compared
    <3>4. Decided(d) /\ d \in Outcomes
      BY <1>6, <3>3 DEF HandleForkCall, Outcomes
    <3>5. Became(d)' = Became(d) \cup {s}
      BY <1>1, <2>1, <3>4, BecameOneMore
    <3>6. s \in (Became("no_range") \cup Became("not_affine"))'
      BY <3>3, <3>5
    <3>7. m'.sends[s].region = q
      BY <1>1, <3>2 DEF r, send
    <3>8. QED
      BY <3>6, <3>7 DEF InVain
  <2>4. QED
    BY <2>2, <2>3
<1>7. CASE InsertPartitioning
  <2>1. /\ handled < Len(senders) /\ r # nullptr /\ r \in DOMAIN m.regions
        /\ results' = AfterInsertion(results)
        /\ forked' = [forked EXCEPT ![r] = [signoffs |-> new_parallel_function.signoffs,
                                            args |-> Append(forked[r].args, s)]]
    BY <1>7, QuestionsOfInsertionType, CurrentSend DEF InsertPartitioning, TypeInv
  <2>2. results' \in EvolutionOf(parallel_function, {})
    BY <2>1, InsertionKeepsEvolution
  <2>3. q = r /\ Len(forked'[q].args) = Len(forked[r].args)
    BY <2>2 DEF EvolutionOf, parallel_function
  <2>4. forked'[r].args = Append(forked[r].args, s)
    BY <2>1 DEF TypeInv
  <2>5. forked[r].args \in Seq(Nat) /\ s \in Nat
    BY <2>1, CurrentFunctions, CurrentSend
  <2>6. QED
    BY <2>3, <2>4, <2>5
<1>8. CASE UnexpectedSend \/ ReadFreedMemory
  BY <1>8 DEF UnexpectedSend, ReadFreedMemory
<1>9. CASE UNCHANGED vars
  BY <1>3, <1>9 DEF vars
<1>10. QED
  BY <1>5, <1>6, <1>7, <1>8, <1>9 DEF Next, Returned

LEMMA NextEvolution ==
  TypeInv /\ LastAskedInv /\ ScevInv /\ [Next \/ Returned]_vars => ScevInv'
<1> SUFFICES ASSUME TypeInv, LastAskedInv, ScevInv, [Next \/ Returned]_vars, NoneAgain'
             PROVE  /\ results'.stale \cap EvolutionKinds = {}
                    /\ step' = "insert" => results' \in Fresh(parallel_function')
  BY DEF ScevInv, Fresh, EvolutionOf
<1>1. m' = m
  BY DEF Next, Returned, vars, UnexpectedSend, FindModification, HandleForkCall,
         InsertPartitioning, ReadFreedMemory
<1>2. NoneAgain
  BY <1>1, BecameGrows DEF NoneAgain, LookedAtAgain, ReadsExpressionsFirst
<1>3. /\ results.stale \cap EvolutionKinds = {}
      /\ step = "insert" => results \in Fresh(parallel_function)
  BY <1>2 DEF ScevInv
<1> DEFINE c == results.current["SE"]
<1>4. results \in EvolutionOf(c, EvolutionKinds) /\ EvolutionKinds \in SUBSET EvolutionKinds
  BY <1>3 DEF TypeInv, EvolutionOf
<1> HIDE DEF c
<1>5. \A f : EvolutionOf(f, EvolutionKinds) \subseteq {x \in Results : x.stale \cap EvolutionKinds = {}}
  BY DEF EvolutionOf
<1>6. ASSUME handled < Len(senders), r # nullptr, step = "fork"
      PROVE  /\ AfterRegion(results).stale \cap EvolutionKinds = {}
             /\ Decision = "partitioned" => AfterRegion(results) \in Fresh(parallel_function)
  <2>1. CASE Decision \notin Compared
    <3>1. AfterRegion(results) \in EvolutionOf(c, EvolutionKinds) /\ Decision # "partitioned"
      BY <1>4, <1>6, <2>1, RegionKeepsEvolution DEF Compared
    <3>2. QED
      BY <1>5, <3>1
  <2>2. CASE Decision \in Compared
    <3>1. c # parallel_function
      BY <1>2, <1>6, <2>2, RegionAsksAgain DEF c
    <3>2. AfterRegion(results) \in Fresh(parallel_function)
      BY <1>4, <1>6, <2>2, <3>1, RegionKeepsEvolution
    <3>3. QED
      BY <1>5, <3>2 DEF Fresh
  <2>3. QED
    BY <2>1, <2>2
<1>7. ASSUME handled < Len(senders), r # nullptr, step = "insert"
      PROVE  AfterInsertion(results).stale \cap EvolutionKinds = {}
  <2>1. results \in Fresh(parallel_function) /\ r \in DOMAIN m.regions
    BY <1>3, <1>7, CurrentSend
  <2>2. ReadsExpressionsFirst(r)
    BY <1>2, <2>1 DEF NoneAgain
  <2>3. AfterInsertion(results) \in EvolutionOf(parallel_function, EvolutionKinds)
    BY <1>7, <2>1, <2>2, InsertionKeepsEvolution
  <2>4. QED
    BY <1>5, <2>3
<1>8. CASE UnexpectedSend
  BY <1>3, <1>8 DEF UnexpectedSend
<1>9. ASSUME NEW found \in {nullptr} \cup DOMAIN m.regions, FindModification(found)
      PROVE  results'.stale \cap EvolutionKinds = {} /\ step' # "insert"
  <2>1. /\ handled < Len(senders) /\ step' # "insert"
        /\ results' = AfterQuestions(results, AskedOfSend)
    BY <1>9 DEF FindModification, AskedOfSend
  <2>2. results' \in EvolutionOf(c, EvolutionKinds)
    BY <1>4, <2>1, SendKeepsEvolution
  <2>3. QED
    BY <1>5, <2>1, <2>2
<1>10. CASE HandleForkCall
  <2>1. /\ handled < Len(senders) /\ r # nullptr /\ step = "fork" /\ forked' = forked
        /\ results' = AfterRegion(results)
    BY <1>10, QuestionsAboutRegionType DEF HandleForkCall, TypeInv
  <2>2. step' = "insert" => Decision = "partitioned" /\ handled' = handled
    BY <1>10 DEF HandleForkCall
  <2>3. handled' = handled => parallel_function' = parallel_function
    BY <1>1, <2>1, SendersStay DEF parallel_function, r, send, s
  <2>4. QED
    BY <1>6, <2>1, <2>2, <2>3
<1>11. CASE InsertPartitioning
  BY <1>7, <1>11, QuestionsOfInsertionType DEF InsertPartitioning, TypeInv
<1>12. CASE ReadFreedMemory
  <2>1. handled < Len(senders) /\ r # nullptr /\ step \in {"fork", "insert"} /\ step' = "aborted"
    BY <1>12 DEF ReadFreedMemory, TypeInv
  <2>2. step = "fork" => results' = AfterRegion(results)
    BY <1>12, <2>1, QuestionsAboutRegionType DEF ReadFreedMemory
  <2>3. step = "insert" => results' = AfterInsertion(results)
    BY <1>12, <2>1, QuestionsOfInsertionType DEF ReadFreedMemory
  <2>4. QED
    BY <1>6, <1>7, <2>1, <2>2, <2>3
<1>13. CASE UNCHANGED vars
  <2>1. /\ m' = m /\ handled' = handled /\ forked' = forked /\ results' = results /\ step' = step
    BY <1>13 DEF vars
  <2>2. parallel_function' = parallel_function
    BY <2>1, SendersStay DEF send, s, r, parallel_function
  <2>3. QED
    BY <1>3, <2>1, <2>2
<1>14. QED
  BY <1>8, <1>9, <1>10, <1>11, <1>12, <1>13 DEF Next, Returned

(* Scalar evolution is not used after the pass manager freed it, unless    *)
(* two sends look at the same region in vain, or trees of the caller are   *)
(* asked for before the last expression is read.                           *)
THEOREM EvolutionStaysAlive == Spec => []ScevsAreAlive
<1>1. Init => TypeInv /\ LastAskedInv /\ ScevInv
  BY InitTypes, InitEvolution
<1>2. TypeInv /\ LastAskedInv /\ ScevInv /\ [Next \/ Returned]_vars
        => (TypeInv /\ LastAskedInv /\ ScevInv)'
  BY NextTypes, NextLastAsked, NextEvolution
<1>3. TypeInv /\ ScevInv => ScevsAreAlive
  BY DEF ScevInv, ScevsAreAlive, NoneAgain, EvolutionKinds
<1>4. QED
  BY <1>1, <1>2, <1>3, PTL DEF Spec
=============================================================================
