--------------------------- MODULE DrainBufferProofs ---------------------------
(***************************************************************************)
(* What back-pressure bounds: for any number of partitions and any sizes,  *)
(* OrderedDrain's buffer never holds more than its maximum and one poll per *)
(* partition.                                                              *)
(***************************************************************************)
EXTENDS OrderedDrainProofs

-----------------------------------------------------------------------------
(* Sums over the partitions *)

\* h sums up g from the first partition on.
SumsUp(h, g) ==
  /\ h \in [0 .. Partitions -> Int] /\ h[0] = 0
  /\ \A p \in Partition : h[p] = h[p - 1] + g[p]

\* The same recursion as Records, for any number a partition has.
Total(g) == LET upTo[p \in 0 .. Partitions] == IF p = 0 THEN 0 ELSE upTo[p - 1] + g[p]
            IN  upTo[Partitions]

\* What holds of 0, and of a partition whenever of the one before, holds of all.
LEMMA UpTo ==
  ASSUME NEW S, 0 \in S, \A p \in Partition : p - 1 \in S => p \in S
  PROVE  \A p \in 0 .. Partitions : p \in S
<1> SUFFICES ASSUME NEW b \in 0 .. Partitions, b \notin S PROVE FALSE
  OBVIOUS
<1> DEFINE F == {p \in 0 .. Partitions : p \notin S}
<1>1. F \subseteq Nat /\ F # {}
  BY OrderAssumption
<1>2. PICK n \in F : \A m \in F : n <= m
  <2> HIDE DEF F
  <2> QED BY <1>1, Least
<1>3. n \in Partition
  BY <1>2, OrderAssumption DEF Partition
<1>4. n - 1 \in 0 .. Partitions /\ n - 1 < n
  BY <1>3, OrderAssumption DEF Partition
<1>5. n - 1 \notin F
  <2> HIDE DEF F
  <2>1. ~(n <= n - 1)
    BY <1>3, OrderAssumption DEF Partition
  <2> QED BY <1>2, <2>1
<1>6. n - 1 \in S
  BY <1>4, <1>5
<1> QED BY <1>2, <1>3, <1>6

LEMMA SumExists ==
  ASSUME NEW g, \A p \in Partition : g[p] \in Int
  PROVE  \E h : SumsUp(h, g)
<1> DEFINE Upto(n, h) == /\ h \in [0 .. n -> Int] /\ h[0] = 0
                         /\ \A p \in 1 .. n : h[p] = h[p - 1] + g[p]
           S == {n \in 0 .. Partitions : \E h : Upto(n, h)}
<1>1. 0 \in S
  <2>1. PICK h : h = [p \in 0 .. 0 |-> 0]
    OBVIOUS
  <2>2. Upto(0, h)
    BY <2>1
  <2>3. 0 \in 0 .. Partitions
    BY OrderAssumption
  <2> HIDE DEF Upto
  <2> QED BY <2>2, <2>3
<1>2. ASSUME NEW n \in Partition, n - 1 \in S PROVE n \in S
  <2>1. PICK h : Upto(n - 1, h)
    BY <1>2
  <2>2. PICK k : k = [p \in 0 .. n |-> IF p = n THEN h[n - 1] + g[n] ELSE h[p]]
    OBVIOUS
  <2>3. n \in Nat /\ n >= 1 /\ n \in 0 .. Partitions /\ g[n] \in Int
    BY OrderAssumption DEF Partition
  <2>4. \A p \in 0 .. n - 1 : h[p] \in Int /\ k[p] = h[p]
    BY <2>1, <2>2, <2>3
  <2>5. n - 1 \in 0 .. n - 1 /\ k[n] = k[n - 1] + g[n]
    BY <2>2, <2>3, <2>4
  <2>6. k \in [0 .. n -> Int]
    <3>1. \A p \in 0 .. n : (IF p = n THEN h[n - 1] + g[n] ELSE h[p]) \in Int
      BY <2>3, <2>4, <2>5
    <3> QED BY <2>2, <3>1
  <2>7. \A p \in 1 .. n : k[p] = k[p - 1] + g[p]
    <3> TAKE p \in 1 .. n
    <3>1. CASE p = n
      BY <2>5, <3>1
    <3>2. CASE p # n
      <4>1. p \in 1 .. n - 1 /\ p \in 0 .. n - 1 /\ p - 1 \in 0 .. n - 1
        BY <2>3, <3>2
      <4>2. h[p] = h[p - 1] + g[p]
        BY <2>1, <4>1
      <4> QED BY <2>4, <4>1, <4>2
    <3> QED BY <3>1, <3>2
  <2>8. k[0] = 0
    BY <2>1, <2>3, <2>4
  <2> QED BY <2>3, <2>6, <2>7, <2>8
<1>3. Partitions \in S
  <2> HIDE DEF S
  <2>1. \A p \in 0 .. Partitions : p \in S
    BY <1>1, <1>2, UpTo, Zenon
  <2> QED BY <2>1, OrderAssumption
<1> QED BY <1>3 DEF SumsUp, Partition

\* What satisfies the recursion's equation sums up g.
LEMMA SumsUpIs ==
  ASSUME NEW g, NEW f, \A p \in Partition : g[p] \in Int,
         f = [p \in 0 .. Partitions |-> IF p = 0 THEN 0 ELSE f[p - 1] + g[p]]
  PROVE  SumsUp(f, g)
<1>1. f[0] = 0 /\ \A p \in Partition : f[p] = f[p - 1] + g[p]
  <2>1. \A p \in 0 .. Partitions : f[p] = IF p = 0 THEN 0 ELSE f[p - 1] + g[p]
    BY Zenon
  <2>2. 0 \in 0 .. Partitions /\ \A p \in Partition : p \in 0 .. Partitions /\ p # 0
    BY OrderAssumption DEF Partition
  <2> QED BY <2>1, <2>2
<1>2. \A p \in 0 .. Partitions : f[p] \in Int
  <2> DEFINE S == {p \in 0 .. Partitions : f[p] \in Int}
  <2>1. 0 \in S
    BY <1>1, OrderAssumption
  <2>2. ASSUME NEW p \in Partition, p - 1 \in S PROVE p \in S
    BY <1>1, <2>2, OrderAssumption DEF Partition
  <2>3. \A p \in 0 .. Partitions : p \in S
    <3> HIDE DEF S
    <3> QED BY <2>1, <2>2, UpTo, Zenon
  <2> QED BY <2>3
<1>3. f \in [0 .. Partitions -> Int]
  BY <1>2
<1> QED BY <1>1, <1>3 DEF SumsUp

\* A sum is the same whichever function sums it up.
LEMMA SumUnique ==
  ASSUME NEW g, NEW f, NEW h, \A p \in Partition : g[p] \in Int, SumsUp(f, g), SumsUp(h, g)
  PROVE  f[Partitions] = h[Partitions]
<1> DEFINE S == {p \in 0 .. Partitions : f[p] = h[p]}
<1>1. 0 \in S
  BY OrderAssumption DEF SumsUp
<1>2. ASSUME NEW p \in Partition, p - 1 \in S PROVE p \in S
  BY <1>2, OrderAssumption DEF SumsUp, Partition
<1>3. Partitions \in S
  <2> HIDE DEF S
  <2>1. \A p \in 0 .. Partitions : p \in S
    BY <1>1, <1>2, UpTo, Zenon
  <2> QED BY <2>1, OrderAssumption
<1> QED BY <1>3

LEMMA TotalIs ==
  ASSUME NEW g, \A p \in Partition : g[p] \in Int
  PROVE  \E f : SumsUp(f, g) /\ Total(g) = f[Partitions]
<1> DEFINE upTo[p \in 0 .. Partitions] == IF p = 0 THEN 0 ELSE upTo[p - 1] + g[p]
<1>1. Total(g) = upTo[Partitions]
  BY DEF Total
<1>2. PICK f : f = upTo
  OBVIOUS
<1>3. f = CHOOSE h : h = [p \in 0 .. Partitions |-> IF p = 0 THEN 0 ELSE h[p - 1] + g[p]]
  BY <1>2
<1> HIDE DEF upTo
<1>4. PICK h : SumsUp(h, g)
  BY SumExists
<1>5. h = [p \in 0 .. Partitions |-> IF p = 0 THEN 0 ELSE h[p - 1] + g[p]]
  BY <1>4, OrderAssumption DEF SumsUp, Partition
<1>6. f = [p \in 0 .. Partitions |-> IF p = 0 THEN 0 ELSE f[p - 1] + g[p]]
  BY <1>3, <1>5, Zenon
<1>7. SumsUp(f, g)
  BY <1>6, SumsUpIs
<1> QED BY <1>1, <1>2, <1>7

LEMMA TotalInt ==
  ASSUME NEW g, \A p \in Partition : g[p] \in Int
  PROVE  Total(g) \in Int
<1>1. PICK f : SumsUp(f, g) /\ Total(g) = f[Partitions]
  BY TotalIs
<1>2. Partitions \in 0 .. Partitions
  BY OrderAssumption
<1> QED BY <1>1, <1>2 DEF SumsUp

\* A sum is at most another if its numbers are, but for one that may be e more.
LEMMA SumCompare ==
  ASSUME NEW g, NEW f, NEW q \in Partition, NEW e \in Int,
         \A p \in Partition : g[p] \in Int /\ f[p] \in Int,
         g[q] <= f[q] + e,
         \A p \in Partition : p # q => g[p] <= f[p]
  PROVE  Total(g) <= Total(f) + e
<1>1. PICK h : SumsUp(h, g) /\ Total(g) = h[Partitions]
  BY TotalIs
<1>2. PICK k : SumsUp(k, f) /\ Total(f) = k[Partitions]
  BY TotalIs
<1>3. \A p \in 0 .. Partitions : h[p] \in Int /\ k[p] \in Int
  BY <1>1, <1>2 DEF SumsUp
<1> DEFINE S == {p \in 0 .. Partitions : h[p] <= k[p] + (IF p < q THEN 0 ELSE e)}
<1>4. 0 \in S
  BY <1>1, <1>2, OrderAssumption DEF SumsUp, Partition
<1>5. ASSUME NEW p \in Partition, p - 1 \in S PROVE p \in S
  <2>1. h[p] = h[p - 1] + g[p] /\ k[p] = k[p - 1] + f[p]
    BY <1>1, <1>2 DEF SumsUp
  <2>2. p \in Int /\ q \in Int /\ p \in 0 .. Partitions /\ p - 1 \in 0 .. Partitions
    BY OrderAssumption DEF Partition
  <2>3. h[p - 1] \in Int /\ k[p - 1] \in Int /\ g[p] \in Int /\ f[p] \in Int
    BY <1>3, <2>2
  <2>4. h[p - 1] <= k[p - 1] + (IF p - 1 < q THEN 0 ELSE e)
    BY <1>5
  <2>5. h[p] <= k[p] + (IF p < q THEN 0 ELSE e)
    <3>1. CASE p < q
      BY <2>1, <2>2, <2>3, <2>4, <3>1
    <3>2. CASE p = q
      BY <2>1, <2>2, <2>3, <2>4, <3>2
    <3>3. CASE p > q
      BY <2>1, <2>2, <2>3, <2>4, <3>3
    <3> QED BY <2>2, <3>1, <3>2, <3>3
  <2> QED BY <2>2, <2>5
<1>6. Partitions \in S
  <2> HIDE DEF S
  <2>1. \A p \in 0 .. Partitions : p \in S
    BY <1>4, <1>5, UpTo, Zenon
  <2> QED BY <2>1, OrderAssumption
<1> QED BY <1>1, <1>2, <1>6, OrderAssumption DEF Partition

\* A sum of numbers none of which is more than e above the other's.
LEMMA SumShifted ==
  ASSUME NEW g, NEW f, NEW e \in Int,
         \A p \in Partition : g[p] \in Int /\ f[p] \in Int,
         \A p \in Partition : g[p] <= f[p] + e
  PROVE  Total(g) <= Total(f) + Partitions * e
<1>1. PICK h : SumsUp(h, g) /\ Total(g) = h[Partitions]
  BY TotalIs
<1>2. PICK k : SumsUp(k, f) /\ Total(f) = k[Partitions]
  BY TotalIs
<1>3. \A p \in 0 .. Partitions : h[p] \in Int /\ k[p] \in Int
  BY <1>1, <1>2 DEF SumsUp
<1> DEFINE S == {p \in 0 .. Partitions : h[p] <= k[p] + p * e}
<1>4. 0 \in S
  BY <1>1, <1>2, OrderAssumption DEF SumsUp
<1>5. ASSUME NEW p \in Partition, p - 1 \in S PROVE p \in S
  <2>1. h[p] = h[p - 1] + g[p] /\ k[p] = k[p - 1] + f[p]
    BY <1>1, <1>2 DEF SumsUp
  <2>2. p \in Int /\ p \in 0 .. Partitions /\ p - 1 \in 0 .. Partitions
    BY OrderAssumption DEF Partition
  <2>3. h[p - 1] \in Int /\ k[p - 1] \in Int /\ g[p] \in Int /\ f[p] \in Int
    BY <1>3, <2>2
  <2>4. h[p - 1] <= k[p - 1] + (p - 1) * e
    BY <1>5
  <2>5. PICK x : x = (p - 1) * e /\ x \in Int /\ p * e = x + e
    BY <2>2
  <2>6. h[p - 1] + g[p] <= (k[p - 1] + f[p]) + (x + e)
    BY <2>3, <2>4, <2>5
  <2>7. h[p] <= k[p] + p * e
    BY <2>1, <2>5, <2>6
  <2> QED BY <2>2, <2>7
<1>6. Partitions \in S
  <2> HIDE DEF S
  <2>1. \A p \in 0 .. Partitions : p \in S
    BY <1>4, <1>5, UpTo, Zenon
  <2> QED BY <2>1, OrderAssumption
<1> QED BY <1>1, <1>2, <1>6

\* Nothing adds up to nothing.
LEMMA SumNothing ==
  ASSUME NEW g, \A p \in Partition : g[p] \in Int /\ g[p] <= 0
  PROVE  Total(g) <= 0
<1>1. PICK h : SumsUp(h, g) /\ Total(g) = h[Partitions]
  BY TotalIs
<1> DEFINE S == {p \in 0 .. Partitions : h[p] \in Int /\ h[p] <= 0}
<1>2. 0 \in S
  BY <1>1, OrderAssumption DEF SumsUp
<1>3. ASSUME NEW p \in Partition, p - 1 \in S PROVE p \in S
  <2>1. h[p] = h[p - 1] + g[p] /\ p \in 0 .. Partitions
    BY <1>1, OrderAssumption DEF SumsUp, Partition
  <2> QED BY <1>3, <2>1
<1>4. Partitions \in S
  <2> HIDE DEF S
  <2>1. \A p \in 0 .. Partitions : p \in S
    BY <1>2, <1>3, UpTo, Zenon
  <2> QED BY <2>1, OrderAssumption
<1> QED BY <1>1, <1>4

-----------------------------------------------------------------------------
(* What is buffered *)

\* Records, for any queues.
RecordsOf(s) == LET upTo[p \in 0 .. Partitions] == IF p = 0 THEN 0 ELSE upTo[p - 1] + Len(s[p])
                IN  upTo[Partitions]

Lengths(s) == [p \in Partition |-> Len(s[p])]

\* How many records of a partition go beyond one poll.
Excess(s) == [p \in Partition |-> Later(0, Len(s[p]) - EventsBatch)]

LEMMA RecordsAre == Records = RecordsOf(queue) /\ Records' = RecordsOf(queue')
BY DEF Records, RecordsOf

LEMMA RecordsTotal ==
  ASSUME NEW s \in [Partition -> Seq(Nat)]
  PROVE  RecordsOf(s) = Total(Lengths(s))
<1> DEFINE upTo[p \in 0 .. Partitions] == IF p = 0 THEN 0 ELSE upTo[p - 1] + Len(s[p])
           g == Lengths(s)
<1>1. RecordsOf(s) = upTo[Partitions]
  BY DEF RecordsOf
<1>2. PICK f : f = upTo
  OBVIOUS
<1>3. f = CHOOSE h : h = [p \in 0 .. Partitions |-> IF p = 0 THEN 0 ELSE h[p - 1] + Len(s[p])]
  BY <1>2
<1> HIDE DEF upTo
<1>4. \A p \in Partition : g[p] = Len(s[p]) /\ g[p] \in Int
  BY DEF Lengths
<1>5. \A p \in 0 .. Partitions : p # 0 => p \in Partition
  BY OrderAssumption DEF Partition
<1> HIDE DEF g
<1>6. PICK h : SumsUp(h, g)
  BY <1>4, SumExists
<1>7. h = [p \in 0 .. Partitions |-> IF p = 0 THEN 0 ELSE h[p - 1] + Len(s[p])]
  BY <1>4, <1>5, <1>6, OrderAssumption DEF SumsUp, Partition
<1>8. f = [p \in 0 .. Partitions |-> IF p = 0 THEN 0 ELSE f[p - 1] + Len(s[p])]
  BY <1>3, <1>7, Zenon
<1>9. f = [p \in 0 .. Partitions |-> IF p = 0 THEN 0 ELSE f[p - 1] + g[p]]
  <2>1. \A p \in 0 .. Partitions : (IF p = 0 THEN 0 ELSE f[p - 1] + Len(s[p])) = IF p = 0 THEN 0 ELSE f[p - 1] + g[p]
    BY <1>4, <1>5
  <2> QED BY <1>8, <2>1
<1>10. SumsUp(f, g)
  BY <1>4, <1>9, SumsUpIs
<1>11. PICK k : SumsUp(k, g) /\ Total(g) = k[Partitions]
  BY <1>4, TotalIs
<1>12. f[Partitions] = k[Partitions]
  BY <1>4, <1>10, <1>11, SumUnique
<1> QED BY <1>1, <1>2, <1>11, <1>12 DEF g

\* The numbers of a queue.
LEMMA LengthsAre ==
  ASSUME NEW s \in [Partition -> Seq(Nat)], NEW p \in Partition
  PROVE  /\ Len(s[p]) \in Nat /\ EventsBatch \in Nat /\ EventsBatch >= 1
         /\ Lengths(s)[p] = Len(s[p]) /\ Excess(s)[p] \in Int
         /\ Len(s[p]) <= EventsBatch => Excess(s)[p] = 0
         /\ Len(s[p]) > EventsBatch => Excess(s)[p] = Len(s[p]) - EventsBatch
BY OrderAssumption DEF Lengths, Excess, Later

\* With fewer records than the buffer takes and one poll, the excess is less than
\* the buffer takes: where it is not nothing, one poll is not in it.
LEMMA ExcessSmall ==
  ASSUME NEW s \in [Partition -> Seq(Nat)], NEW n \in 0 .. EventsBatch,
         RecordsOf(s) < BufferMax + n
  PROVE  Total(Excess(s)) < BufferMax
<1>1. BufferMax \in Nat /\ BufferMax >= 1 /\ EventsBatch \in Nat
  BY OrderAssumption
<1>2. \A p \in Partition : Excess(s)[p] \in Int /\ Lengths(s)[p] \in Int
  BY LengthsAre
<1>3. Total(Excess(s)) \in Int /\ Total(Lengths(s)) \in Int
  BY <1>2, TotalInt
<1>4. CASE \A p \in Partition : Len(s[p]) <= EventsBatch
  <2>1. \A p \in Partition : Excess(s)[p] \in Int /\ Excess(s)[p] <= 0
    BY <1>4, LengthsAre
  <2>2. Total(Excess(s)) <= 0
    BY <2>1, SumNothing
  <2> QED BY <1>1, <1>3, <2>2
<1>5. CASE ~ \A p \in Partition : Len(s[p]) <= EventsBatch
  <2>1. PICK q \in Partition : ~(Len(s[q]) <= EventsBatch)
    BY <1>5
  <2>2. Excess(s)[q] <= Lengths(s)[q] + (- EventsBatch)
    <3>1. Len(s[q]) \in Nat /\ EventsBatch \in Nat /\ Lengths(s)[q] = Len(s[q])
      BY LengthsAre
    <3>2. Len(s[q]) > EventsBatch
      BY <2>1, <3>1
    <3>3. Excess(s)[q] = Len(s[q]) - EventsBatch
      BY <3>2, LengthsAre
    <3>4. \A a, b \in Nat : a - b <= a + (- b)
      OBVIOUS
    <3> QED BY <3>1, <3>3, <3>4
  <2>3. \A p \in Partition : p # q => Excess(s)[p] <= Lengths(s)[p]
    <3> TAKE p \in Partition
    <3> QED BY LengthsAre
  <2>4. - EventsBatch \in Int
    BY <1>1
  <2>5. Total(Excess(s)) <= Total(Lengths(s)) + (- EventsBatch)
    BY <1>2, <2>2, <2>3, <2>4, SumCompare
  <2> QED BY <1>1, <1>3, <2>5, RecordsTotal
<1> QED BY <1>4, <1>5

LEMMA RecordsInt ==
  ASSUME NEW s \in [Partition -> Seq(Nat)]
  PROVE  RecordsOf(s) \in Int /\ Total(Excess(s)) \in Int
<1>1. \A p \in Partition : Excess(s)[p] \in Int /\ Lengths(s)[p] \in Int
  BY LengthsAre
<1> QED BY <1>1, TotalInt, RecordsTotal

\* An empty buffer.
LEMMA EmptyIs ==
  ASSUME NEW s \in [Partition -> Seq(Nat)], \A p \in Partition : Len(s[p]) = 0
  PROVE  RecordsOf(s) < BufferMax /\ Total(Excess(s)) < BufferMax
<1>1. BufferMax \in Nat /\ BufferMax >= 1 /\ EventsBatch \in Nat
  BY OrderAssumption
<1>2. RecordsOf(s) <= 0
  <2>1. \A p \in Partition : Lengths(s)[p] \in Int /\ Lengths(s)[p] <= 0
    BY LengthsAre
  <2> QED BY <2>1, RecordsTotal, SumNothing
<1>3. RecordsOf(s) \in Int
  BY RecordsInt
<1>4. RecordsOf(s) < BufferMax + 0 /\ 0 \in 0 .. EventsBatch
  BY <1>1, <1>2, <1>3
<1> QED BY <1>1, <1>3, <1>4, ExcessSmall

\* Queues no longer than others.
LEMMA ShorterIs ==
  ASSUME NEW s \in [Partition -> Seq(Nat)], NEW t \in [Partition -> Seq(Nat)],
         \A p \in Partition : Len(t[p]) <= Len(s[p])
  PROVE  RecordsOf(t) <= RecordsOf(s) /\ Total(Excess(t)) <= Total(Excess(s))
<1>1. \A p \in Partition : /\ Excess(s)[p] \in Int /\ Lengths(s)[p] \in Int
                           /\ Excess(t)[p] \in Int /\ Lengths(t)[p] \in Int
  <2> TAKE p \in Partition
  <2>1. Excess(s)[p] \in Int /\ Lengths(s)[p] = Len(s[p]) /\ Len(s[p]) \in Nat
    BY LengthsAre, Zenon
  <2>2. Excess(t)[p] \in Int /\ Lengths(t)[p] = Len(t[p]) /\ Len(t[p]) \in Nat
    BY LengthsAre, Zenon
  <2> QED BY <2>1, <2>2
<1>2. 1 \in Partition
  BY OrderAssumption DEF Partition
<1>3. \A p \in Partition : Lengths(t)[p] <= Lengths(s)[p]
  <2> TAKE p \in Partition
  <2>1. Lengths(t)[p] = Len(t[p]) /\ Lengths(s)[p] = Len(s[p])
    BY LengthsAre
  <2> QED BY <2>1
<1>4. \A p \in Partition : Excess(t)[p] <= Excess(s)[p]
  <2> TAKE p \in Partition
  <2>1. Len(t[p]) \in Nat /\ Len(s[p]) \in Nat /\ EventsBatch \in Nat /\ Len(t[p]) <= Len(s[p])
    BY LengthsAre
  <2> QED BY <2>1 DEF Excess, Later
<1>5. Total(Lengths(t)) <= Total(Lengths(s)) + 0
  <2>1. Lengths(t)[1] <= Lengths(s)[1] + 0 /\ 0 \in Int
    BY <1>1, <1>2, <1>3
  <2> QED BY <1>1, <1>2, <1>3, <2>1, SumCompare
<1>6. Total(Excess(t)) <= Total(Excess(s)) + 0
  <2>1. Excess(t)[1] <= Excess(s)[1] + 0 /\ 0 \in Int
    BY <1>1, <1>2, <1>4
  <2> QED BY <1>1, <1>2, <1>4, <2>1, SumCompare
<1> QED BY <1>1, <1>5, <1>6, RecordsTotal, TotalInt

-----------------------------------------------------------------------------
(* The inductive invariant *)

\* Records of the current poll, while it goes on.
Polled == IF phase = "fetch" THEN taken ELSE 0

\* Under pressure the partitions that are read have nothing but the current poll in
\* the buffer; without it the buffer is not full but for the current poll.  What
\* goes beyond one poll per partition is less than the buffer takes.
Filled ==
  /\ Total(Excess(queue)) < BufferMax
  /\ backpressure => \A p \in assigned \ paused : Len(queue[p]) <= Polled
  /\ ~backpressure => RecordsOf(queue) < BufferMax + Polled

LEMMA FilledInit == Init => Filled
<1> SUFFICES ASSUME Init PROVE Filled
  OBVIOUS
<1>1. queue \in [Partition -> Seq(Nat)] /\ \A p \in Partition : Len(queue[p]) = 0
  BY DEF Init
<1>2. RecordsOf(queue) < BufferMax /\ Total(Excess(queue)) < BufferMax
  BY <1>1, EmptyIs
<1>3. Polled = 0 /\ backpressure = FALSE
  BY DEF Init, Polled
<1>4. RecordsOf(queue) \in Int /\ BufferMax \in Int
  BY <1>1, RecordsInt, OrderAssumption
<1> QED BY <1>2, <1>3, <1>4 DEF Filled

\* A step of a fetch does not count records it does not touch, and may be the last of
\* its poll.
LEMMA FetchFills ==
  ASSUME OrderInv, Filled, NEW p \in Partition, Fetch(p), OrderInv'
  PROVE  Filled'
<1> USE DEF kafkaVars, producerVars, historyVars, bufferVars, pauseVars, rangeVars
<1>1. queue \in [Partition -> Seq(Nat)] /\ queue' \in [Partition -> Seq(Nat)] /\ taken \in Nat
  BY OrderAssumption DEF OrderInv, Typed
<1>2. Polled = taken /\ Polled' = taken + 1 /\ taken < EventsBatch /\ Polled' \in 0 .. EventsBatch
  <2>1. phase = "fetch" /\ phase' = "fetch" /\ taken < EventsBatch /\ taken' = taken + 1
    BY DEF Fetch
  <2> QED BY <1>1, <2>1, OrderAssumption DEF Polled
<1>3. \A q \in Partition : Len(queue'[q]) = IF q = p THEN Len(queue[p]) + 1 ELSE Len(queue[q])
  <2>1. PICK key : queue' = [queue EXCEPT ![p] = Append(queue[p], key)]
    BY DEF Fetch
  <2>2. queue'[p] = Append(queue[p], key) /\ \A q \in Partition : q # p => queue'[q] = queue[q]
    BY <1>1, <2>1
  <2>3. Len(queue'[p]) = Len(queue[p]) + 1
    BY <1>1, <2>2, LenProperties
  <2> QED BY <2>2, <2>3
<1>4. p \in assigned \ paused /\ assigned' = assigned /\ paused' = paused /\ backpressure' = backpressure
  BY DEF Fetch
<1>5. BufferMax \in Nat /\ EventsBatch \in Nat /\ RecordsOf(queue) \in Int /\ RecordsOf(queue') \in Int
  BY <1>1, RecordsInt, OrderAssumption
<1>6. CASE backpressure
  <2>1. \A q \in assigned \ paused : Len(queue'[q]) <= taken + 1
    <3> TAKE q \in assigned \ paused
    <3>1. q \in Partition
      BY DEF OrderInv, Typed
    <3>2. Len(queue[q]) <= taken /\ Len(queue[q]) \in Nat
      BY <1>1, <1>2, <1>6, <3>1, LengthsAre DEF Filled
    <3>3. Len(queue'[q]) = Len(queue[q]) \/ Len(queue'[q]) = Len(queue[q]) + 1
      BY <1>3, <3>1
    <3>4. taken \in Nat
      BY <1>1
    <3> QED BY <3>2, <3>3, <3>4
  <2>2. Excess(queue') = Excess(queue)
    <3>1. \A q \in Partition : Excess(queue')[q] = Excess(queue)[q]
      <4> TAKE q \in Partition
      <4>1. CASE q # p
        BY <1>3, <4>1 DEF Excess
      <4>2. CASE q = p
        <5>1. Len(queue[p]) <= taken /\ Len(queue[p]) \in Nat /\ Len(queue'[p]) \in Nat
          BY <1>1, <1>2, <1>4, <1>6, LengthsAre DEF Filled
        <5>2. Len(queue[p]) <= EventsBatch /\ Len(queue'[p]) <= EventsBatch
          BY <1>1, <1>2, <1>3, <1>5, <5>1
        <5>3. Excess(queue)[p] = 0
          BY <1>1, <5>2, LengthsAre
        <5>4. Excess(queue')[p] = 0
          BY <1>1, <5>2, LengthsAre
        <5> QED BY <4>2, <5>3, <5>4
      <4> QED BY <4>1, <4>2
    <3> QED BY <3>1 DEF Excess
  <2> QED BY <1>2, <1>4, <1>6, <2>1, <2>2 DEF Filled
<1>7. CASE ~backpressure
  <2>1. RecordsOf(queue') <= RecordsOf(queue) + 1
    <3>1. \A q \in Partition : /\ Lengths(queue)[q] = Len(queue[q]) /\ Lengths(queue)[q] \in Int
                               /\ Lengths(queue')[q] = Len(queue'[q]) /\ Lengths(queue')[q] \in Int
      <4> TAKE q \in Partition
      <4>1. Lengths(queue)[q] = Len(queue[q]) /\ Len(queue[q]) \in Nat
        BY <1>1, LengthsAre, Zenon
      <4>2. Lengths(queue')[q] = Len(queue'[q]) /\ Len(queue'[q]) \in Nat
        BY <1>1, LengthsAre, Zenon
      <4> QED BY <4>1, <4>2
    <3>2. Lengths(queue')[p] <= Lengths(queue)[p] + 1
      BY <1>3, <3>1
    <3>3. \A q \in Partition : q # p => Lengths(queue')[q] <= Lengths(queue)[q]
      BY <1>3, <3>1
    <3>4. Total(Lengths(queue')) <= Total(Lengths(queue)) + 1
      <4>1. PICK g : g = Lengths(queue')
        OBVIOUS
      <4>2. PICK f : f = Lengths(queue)
        OBVIOUS
      <4>3. \A q \in Partition : g[q] \in Int /\ f[q] \in Int
        BY <3>1, <4>1, <4>2
      <4>4. g[p] <= f[p] + 1 /\ 1 \in Int
        BY <3>2, <4>1, <4>2
      <4>5. \A q \in Partition : q # p => g[q] <= f[q]
        BY <3>3, <4>1, <4>2
      <4>6. Total(g) <= Total(f) + 1
        BY <4>3, <4>4, <4>5, SumCompare
      <4> QED BY <4>1, <4>2, <4>6
    <3> QED BY <1>1, <3>4, RecordsTotal
  <2>2. RecordsOf(queue) < BufferMax + taken
    BY <1>2, <1>7 DEF Filled
  <2>3. RecordsOf(queue') < BufferMax + Polled'
    BY <1>1, <1>2, <1>5, <2>1, <2>2
  <2>4. Total(Excess(queue')) < BufferMax
    BY <1>1, <1>2, <2>3, ExcessSmall
  <2> QED BY <1>4, <1>7, <2>3, <2>4 DEF Filled
<1> QED BY <1>6, <1>7

\* A step that adds nothing to a queue, and is over with the poll if it was one.
LEMMA DrainFills ==
  ASSUME OrderInv, Filled, OrderInv', Polled' = Polled,
         UNCHANGED <<assigned, paused, backpressure>>,
         \A p \in Partition : Len(queue'[p]) <= Len(queue[p])
  PROVE  Filled'
<1>1. queue \in [Partition -> Seq(Nat)] /\ queue' \in [Partition -> Seq(Nat)] /\ assigned \subseteq Partition
  BY DEF OrderInv, Typed
<1>2. RecordsOf(queue') <= RecordsOf(queue) /\ Total(Excess(queue')) <= Total(Excess(queue))
  BY <1>1, ShorterIs
<1>3. /\ RecordsOf(queue) \in Int /\ RecordsOf(queue') \in Int /\ BufferMax \in Int
      /\ Total(Excess(queue)) \in Int /\ Total(Excess(queue')) \in Int
  BY <1>1, RecordsInt, OrderAssumption
<1>4. Polled \in Int
  BY DEF OrderInv, Typed, Polled
<1>5. Total(Excess(queue')) < BufferMax
  BY <1>2, <1>3 DEF Filled
<1>6. ~backpressure => RecordsOf(queue') < BufferMax + Polled
  BY <1>2, <1>3, <1>4 DEF Filled
<1>7. backpressure => \A p \in assigned \ paused : Len(queue'[p]) <= Polled
  <2> SUFFICES ASSUME backpressure, NEW p \in assigned \ paused PROVE Len(queue'[p]) <= Polled
    OBVIOUS
  <2>1. Len(queue[p]) <= Polled /\ Len(queue'[p]) <= Len(queue[p])
    BY <1>1 DEF Filled
  <2>2. Len(queue[p]) \in Nat /\ Len(queue'[p]) \in Nat
    <3>1. p \in Partition
      BY <1>1
    <3>2. Len(queue[p]) \in Nat
      BY <1>1, <3>1, LengthsAre
    <3>3. Len(queue'[p]) \in Nat
      BY <1>1, <3>1, LengthsAre
    <3> QED BY <3>2, <3>3
  <2> QED BY <1>4, <2>1, <2>2
<1> QED BY <1>5, <1>6, <1>7 DEF Filled

\* A step that clears the buffer.
LEMMA ClearFills ==
  ASSUME OrderInv', Cleared PROVE Filled'
<1>1. queue' \in [Partition -> Seq(Nat)] /\ \A p \in Partition : Len(queue'[p]) = 0
  BY DEF Cleared, OrderInv, Typed
<1>2. RecordsOf(queue') < BufferMax /\ Total(Excess(queue')) < BufferMax
  BY <1>1, EmptyIs
<1>3. Polled' = 0 /\ backpressure' = FALSE
  BY DEF Cleared, Polled
<1>4. RecordsOf(queue') \in Int /\ BufferMax \in Int
  BY <1>1, RecordsInt, OrderAssumption
<1> QED BY <1>2, <1>3, <1>4 DEF Filled

LEMMA PausesFill ==
  ASSUME OrderInv, Filled, ApplyPauses, OrderInv' PROVE Filled'
<1> USE DEF kafkaVars, producerVars, historyVars, bufferVars, pauseVars, rangeVars
<1>1. queue' = queue /\ assigned' = assigned /\ backpressure' = Pressure /\ Polled' = 0
  BY DEF ApplyPauses, Polled
<1>2. queue \in [Partition -> Seq(Nat)] /\ RecordsOf(queue) \in Int /\ BufferMax \in Int
  BY RecordsInt, OrderAssumption DEF OrderInv, Typed
<1>3. CASE Pressure
  <2>1. \A p \in assigned \ paused' : Len(queue[p]) = 0
    <3>1. Buffered \subseteq paused'
      BY <1>3 DEF ApplyPauses, Ahead
    <3> QED BY <3>1 DEF Buffered, Dry
  <2> QED BY <1>1, <1>3, <2>1 DEF Filled
<1>4. CASE ~Pressure
  <2>1. ~(RecordsOf(queue) >= BufferMax)
    BY <1>4, RecordsAre DEF Pressure
  <2>2. RecordsOf(queue) < BufferMax + 0
    BY <1>2, <2>1
  <2> QED BY <1>1, <1>4, <2>2 DEF Filled
<1> QED BY <1>3, <1>4

LEMMA ReleaseFills ==
  ASSUME OrderInv, Filled, NEW p \in Partition, Release(p), OrderInv' PROVE Filled'
<1> USE DEF kafkaVars, producerVars, historyVars, bufferVars, pauseVars, rangeVars
<1>1. Polled' = Polled /\ UNCHANGED <<assigned, paused, backpressure>>
  BY DEF Release, Polled
<1>2. queue[p] # <<>>
  BY DEF Release, MayRelease, IsFirst, Buffered, Dry
<1>3. \A q \in Partition : Len(queue'[q]) <= Len(queue[q])
  <2> TAKE q \in Partition
  <2>1. queue \in [Partition -> Seq(Nat)] /\ queue' = [queue EXCEPT ![p] = Tail(queue[p])]
    BY DEF Release, OrderInv, Typed
  <2>2. queue[p] \in Seq(Nat) /\ queue[q] \in Seq(Nat)
    BY <2>1
  <2>3. Len(Tail(queue[p])) <= Len(queue[p])
    BY <1>2, <2>2
  <2> QED BY <2>1, <2>2, <2>3
<1> QED BY <1>1, <1>3, DrainFills

LEMMA FilledStep == OrderInv /\ OrderInv' /\ Filled /\ [Next]_vars => Filled'
<1> SUFFICES ASSUME OrderInv, OrderInv', Filled, [Next]_vars PROVE Filled'
  OBVIOUS
<1> USE DEF kafkaVars, producerVars, historyVars, bufferVars, pauseVars, rangeVars
<1>1. \A p \in Partition : Len(queue[p]) \in Nat
  BY OfPartition DEF OrderInv
<1>2. ASSUME UNCHANGED <<queue, assigned, paused, backpressure>>, Polled' = Polled PROVE Filled'
  BY <1>1, <1>2, DrainFills
<1>3. CASE Tick
  BY <1>2, <1>3 DEF Tick, Polled
<1>4. ASSUME NEW p \in Partition, Send(p) PROVE Filled'
  BY <1>2, <1>4 DEF Send, Polled
<1>5. ASSUME NEW p \in Partition, Fetch(p) PROVE Filled'
  BY <1>5, FetchFills
<1>6. ASSUME NEW p \in Partition, Release(p) PROVE Filled'
  BY <1>6, ReleaseFills
<1>7. ASSUME NEW p \in Partition, NEW n \in 1 .. Len(flying[p]), Arrive(p, n) PROVE Filled'
  BY <1>2, <1>7 DEF Arrive, Polled
<1>8. CASE StartCycle
  BY <1>8, ClearFills DEF StartCycle
<1>9. CASE ApplyPauses
  BY <1>9, PausesFill
<1>10. ASSUME Leave PROVE Filled'
  BY <1>10, ClearFills DEF Leave
<1>11. ASSUME phase # "fetch", Again PROVE Filled'
  BY <1>2, <1>11 DEF Again, Polled
<1>12. CASE Released
  BY <1>2, <1>10, <1>11, <1>12 DEF Released, Polled
<1>13. CASE Process
  BY <1>10, <1>11, <1>13 DEF Process
<1>14. CASE Abort \/ GiveUp
  BY <1>10, <1>14 DEF Abort, GiveUp
<1>15. CASE UNCHANGED vars
  BY <1>2, <1>15 DEF vars, Polled
<1> QED BY <1>3, <1>4, <1>5, <1>6, <1>7, <1>8, <1>9, <1>12, <1>13, <1>14, <1>15 DEF Next

-----------------------------------------------------------------------------
(* Theorem *)

\* However many partitions there are and however they are filled, pausing those that
\* are ahead keeps the buffer within its size and one poll per partition
\* (IntentIngestor._apply_pauses, OrderingBuffer).
THEOREM BufferAlwaysBounded == Spec => []BufferBounded
<1>1. OrderInv /\ Filled => BufferBounded
  <2> SUFFICES ASSUME OrderInv, Filled PROVE BufferBounded
    OBVIOUS
  <2>1. queue \in [Partition -> Seq(Nat)]
    BY DEF OrderInv, Typed
  <2>2. PICK g : g = Lengths(queue)
    OBVIOUS
  <2>3. PICK f : f = Excess(queue)
    OBVIOUS
  <2>4. \A p \in Partition : /\ g[p] \in Int /\ f[p] \in Int /\ g[p] <= f[p] + EventsBatch
    <3> TAKE p \in Partition
    <3>1. /\ Len(queue[p]) \in Nat /\ EventsBatch \in Nat /\ g[p] = Len(queue[p])
          /\ f[p] \in Int
      BY <2>1, <2>2, <2>3, LengthsAre
    <3>2. f[p] = Later(0, Len(queue[p]) - EventsBatch)
      BY <2>3 DEF Excess
    <3> QED BY <3>1, <3>2 DEF Later
  <2>5. EventsBatch \in Int
    BY OrderAssumption
  <2>6. Total(g) <= Total(f) + Partitions * EventsBatch
    BY <2>4, <2>5, SumShifted
  <2>7. Total(f) < BufferMax
    BY <2>3 DEF Filled
  <2>8. Records = Total(g)
    BY <2>1, <2>2, RecordsAre, RecordsTotal
  <2>9. Total(g) \in Int /\ Total(f) \in Int /\ BufferMax \in Int
    BY <2>4, TotalInt, OrderAssumption
  <2>10. PICK x : x = Partitions * EventsBatch
    OBVIOUS
  <2>11. x \in Int
    BY <2>10, OrderAssumption
  <2> QED BY <2>6, <2>7, <2>8, <2>9, <2>10, <2>11 DEF BufferBounded
<1> QED BY <1>1, FilledInit, FilledStep, OrderAlways, PTL DEF Spec

=============================================================================
