-------------------------- MODULE OrderedDrainProofs --------------------------
(***************************************************************************)
(* Theorems about OrderedDrain, for any number of partitions, any traffic,  *)
(* delay, slack, margin and sizes that satisfy OrderAssumption: the merge    *)
(* keeps the order of sending as far as delivery allows.                    *)
(***************************************************************************)
EXTENDS OrderedDrain, TLAPS, SequenceTheorems, WellFoundedInduction

-----------------------------------------------------------------------------
(* Numbers and sequences *)

LEMMA Chain ==
  \A a, b, c, d, e \in Int : a <= b /\ b <= c /\ c <= d /\ d <= e => a <= e
OBVIOUS

\* A set of natural numbers has a least element; with it, what holds of a number
\* whenever it holds of all smaller ones holds of every number.
LEMMA Least ==
  ASSUME NEW S, S \subseteq Nat, S # {}
  PROVE  \E n \in S : \A m \in S : n <= m
<1> DEFINE R == OpToRel(<, Nat)
<1>1. IsWellFoundedOn(R, Nat)
  BY NatLessThanWellFounded, Zenon
<1>2. PICK n \in S : \A m \in S : ~(<<m, n>> \in R)
  <2> HIDE DEF R
  <2> QED BY <1>1, WFMin, Zenon
<1>3. \A m \in S : ~(m < n)
  BY <1>2 DEF OpToRel
<1> QED BY <1>3

\* A set of integers with an upper bound has a greatest element.
LEMMA HighestIs ==
  ASSUME NEW S, S \subseteq Int, S # {}, NEW b \in Int, \A t \in S : t <= b
  PROVE  Highest(S) \in S /\ \A t \in S : t <= Highest(S)
<1> DEFINE D == {b - t : t \in S}
<1>1. D \subseteq Nat /\ D # {}
  <2>1. \A t \in S : b - t \in Nat
    OBVIOUS
  <2>2. PICK t \in S : TRUE
    OBVIOUS
  <2>3. b - t \in D
    OBVIOUS
  <2> QED BY <2>1, <2>3
<1>2. PICK d \in D : \A e \in D : d <= e
  <2> HIDE DEF D
  <2> QED BY <1>1, Least
<1>3. PICK t \in S : d = b - t
  OBVIOUS
<1>4. \A u \in S : u <= t
  <2> TAKE u \in S
  <2>1. b - u \in D
    OBVIOUS
  <2> QED BY <1>2, <1>3, <2>1
<1>5. \E u \in S : \A v \in S : v <= u
  BY <1>4
<1> QED BY <1>5, Zenon DEF Highest

\* What is left of a sequence without its n-th element.
LEMMA WithoutIs ==
  ASSUME NEW s \in Seq(Nat), NEW n \in 1 .. Len(s)
  PROVE  /\ Without(s, n) \in Seq(Nat)
         /\ Len(Without(s, n)) = Len(s) - 1
         /\ \A k \in 1 .. Len(s) - 1 : \E j \in 1 .. Len(s) : Without(s, n)[k] = s[j]
<1>1. PICK a : a = SubSeq(s, 1, n - 1)
  OBVIOUS
<1>2. PICK b : b = SubSeq(s, n + 1, Len(s))
  OBVIOUS
<1>3. Len(s) \in Nat /\ n \in Nat /\ n <= Len(s) /\ n >= 1
  OBVIOUS
<1>4. a \in Seq(Nat) /\ Len(a) = n - 1 /\ \A k \in 1 .. n - 1 : a[k] = s[k]
  BY <1>1
<1>5. b \in Seq(Nat) /\ Len(b) = Len(s) - n /\ \A k \in 1 .. Len(s) - n : b[k] = s[n + k]
  BY <1>2
<1>6. Without(s, n) = a \o b
  BY <1>1, <1>2 DEF Without
<1>7. /\ a \o b \in Seq(Nat) /\ Len(a \o b) = Len(a) + Len(b)
      /\ \A k \in 1 .. Len(a) + Len(b) : (a \o b)[k] = IF k <= Len(a) THEN a[k] ELSE b[k - Len(a)]
  BY <1>4, <1>5, ConcatProperties
<1>8. \A k \in 1 .. Len(s) - 1 : \E j \in 1 .. Len(s) : (a \o b)[k] = s[j]
  <2> TAKE k \in 1 .. Len(s) - 1
  <2>1. CASE k <= n - 1
    <3>1. (a \o b)[k] = s[k] /\ k \in 1 .. Len(s)
      BY <1>3, <1>4, <1>5, <1>7, <2>1
    <3> QED BY <3>1
  <2>2. CASE ~(k <= n - 1)
    <3>1. PICK m \in 1 .. Len(s) - n : m = k - (n - 1)
      BY <1>3, <2>2
    <3>2. k \in 1 .. Len(a) + Len(b) /\ ~(k <= Len(a)) /\ k - Len(a) = m
      BY <1>3, <1>4, <1>5, <2>2, <3>1
    <3>3. (a \o b)[k] = b[m]
      BY <1>7, <3>2, Zenon
    <3>4. b[m] = s[n + m] /\ n + m \in 1 .. Len(s)
      BY <1>3, <1>5, <3>1
    <3> QED BY <3>3, <3>4
  <2> QED BY <2>1, <2>2
<1>9. Len(a \o b) = Len(s) - 1
  BY <1>3, <1>4, <1>5, <1>7
<1> QED BY <1>6, <1>7, <1>8, <1>9

-----------------------------------------------------------------------------
(* The types of the variables *)

\* Every variable has its type.
Typed ==
  /\ now \in 0 .. MaxTime /\ slow \in BOOLEAN /\ worst \in Int
  /\ flying \in [Partition -> Seq(Nat)] /\ log \in [Partition -> Seq(Nat)]
  /\ committed \in [Partition -> Nat] /\ end \in [Partition -> Nat] /\ pos \in [Partition -> Nat]
  /\ applied \subseteq Record /\ reported \subseteq Record /\ batch \in Seq(Record)
  /\ phase \in {"idle", "fetch", "release", "apply"}
  /\ assigned \subseteq Partition /\ exhausted \subseteq Partition /\ paused \subseteq Partition
  /\ queue \in [Partition -> Seq(Nat)]
  /\ lastTs \in [Partition -> Nat \cup {NoTime}] /\ releasedHigh \in Nat \cup {NoTime}
  /\ backpressure \in BOOLEAN /\ taken \in 0 .. EventsBatch

\* The records of a partition up to this one have left the buffer.
Gone(p) == pos[p] - Len(queue[p])

\* Where the records of a partition are: under way, in the log, fetched, released,
\* committed.
Placed ==
  \A p \in Partition :
    /\ Len(flying[p]) + Len(log[p]) <= MaxLen
    /\ committed[p] <= Gone(p) /\ pos[p] <= end[p] /\ end[p] <= Len(log[p])
    /\ p \in exhausted \cup (Partition \ assigned) => pos[p] = end[p]
    /\ p \notin assigned => queue[p] = <<>>
    /\ \A k \in 1 .. Len(batch) : batch[k][1] = p => batch[k][2] <= Gone(p)

LEMMA CycleEndIs ==
  ASSUME Typed, NEW p \in Partition, committed[p] <= Len(log[p])
  PROVE  /\ CycleEnd(p) \in Nat /\ committed[p] <= CycleEnd(p) /\ CycleEnd(p) <= Len(log[p])
         /\ \A n \in committed[p] + 1 .. CycleEnd(p) : log[p][n] < now - Slack - Margin
         /\ CycleEnd(p) < Len(log[p]) =>
              \E n \in 1 .. CycleEnd(p) + 1 : log[p][n] >= now - Slack - Margin
<1> DEFINE young == {n \in 1 .. Len(log[p]) : log[p][n] >= now - Slack - Margin}
           first == CHOOSE n \in young : \A k \in young : n <= k
<1>1. /\ log[p] \in Seq(Nat) /\ Len(log[p]) \in Nat /\ committed[p] \in Nat
      /\ now \in Nat /\ Slack \in Nat /\ Margin \in Nat
      /\ \A n \in 1 .. Len(log[p]) : log[p][n] \in Nat
  BY OrderAssumption DEF Typed
<1>2. CASE young = {}
  <2>1. CycleEnd(p) = Len(log[p])
    BY <1>2 DEF CycleEnd
  <2>2. \A n \in 1 .. Len(log[p]) : ~(log[p][n] >= now - Slack - Margin)
    BY <1>2
  <2>3. \A n \in committed[p] + 1 .. Len(log[p]) : n \in 1 .. Len(log[p])
    BY <1>1
  <2>4. \A n \in 1 .. Len(log[p]) : log[p][n] < now - Slack - Margin
    BY <1>1, <2>2
  <2> QED BY <1>1, <2>1, <2>3, <2>4
<1>3. CASE young # {}
  <2>1. first \in young /\ \A k \in young : first <= k
    <3>1. young \subseteq Nat
      BY <1>1
    <3>2. \E n \in young : \A k \in young : n <= k
      <4> HIDE DEF young
      <4> QED BY <1>3, <3>1, Least
    <3> HIDE DEF young
    <3> QED BY <3>2
  <2>2. CycleEnd(p) = Later(committed[p], first - 1)
    BY <1>3 DEF CycleEnd
  <2>3. first \in 1 .. Len(log[p]) /\ log[p][first] >= now - Slack - Margin
    BY <2>1
  <2>5. \A n \in 1 .. first - 1 : log[p][n] < now - Slack - Margin
    <3> TAKE n \in 1 .. first - 1
    <3> HIDE DEF first
    <3>1. n \in 1 .. Len(log[p]) /\ ~(first <= n)
      BY <1>1, <2>3
    <3>2. n \notin young
      <4> HIDE DEF young
      <4> QED BY <2>1, <3>1
    <3> QED BY <1>1, <3>1, <3>2
  <2> HIDE DEF first, young
  <2>6. CASE first - 1 <= committed[p]
    BY <1>1, <2>2, <2>3, <2>6 DEF Later
  <2>7. CASE ~(first - 1 <= committed[p])
    BY <1>1, <2>2, <2>3, <2>5, <2>7 DEF Later
  <2> QED BY <2>6, <2>7
<1> QED BY <1>2, <1>3

-----------------------------------------------------------------------------
(* The inductive invariant *)

\* A partition that is not in the order its records were sent.
Disordered == \E p \in Partition : \E m, n \in 1 .. Len(log[p]) : m < n /\ log[p][n] < log[p][m]

\* How much older than an earlier record a later one may be, as things are.
Gap == IF slow \/ Disordered THEN Delay ELSE 0

Handled == applied \cup InBatch
InLog == {r \in Record : r[2] <= Len(log[r[1]])}

\* Deliveries take no longer than the delay, so what comes later to a log is no
\* older than the delay.
Delivered ==
  \A p \in Partition :
    /\ \A n \in 1 .. Len(flying[p]) : flying[p][n] <= now /\ now <= flying[p][n] + Delay
    /\ \A n \in 1 .. Len(log[p]) : log[p][n] <= now
    /\ \A m, n \in 1 .. Len(log[p]) : m < n => log[p][m] <= log[p][n] + Delay

\* A buffered record is sorted by a time no earlier than its own, and no later than
\* the gap allows; so would be all records the partition has yet to fetch.
Keyed ==
  \A p \in Partition :
    /\ lastTs[p] # NoTime => lastTs[p] + Slack < now
    /\ \A n \in pos[p] + 1 .. Len(log[p]) : lastTs[p] <= log[p][n] + Gap
    /\ \A k \in 1 .. Len(queue[p]) :
         /\ log[p][Gone(p) + k] <= queue[p][k] /\ queue[p][k] <= log[p][Gone(p) + k] + Gap
         /\ queue[p][k] <= lastTs[p]
         /\ \A j \in 1 .. k : queue[p][j] <= queue[p][k]

\* What the cycle has yet to release was sent before the cutoff, and records beyond
\* a partition's range are not older.
InRange ==
  \A p \in Partition : \A m \in Gone(p) + 1 .. end[p] :
    /\ log[p][m] + Slack < now
    /\ \A q \in Partition : \A n \in end[q] + 1 .. Len(log[q]) : log[p][m] <= log[q][n] + Gap

\* What has left the buffer is applied or in the batch, what is committed is applied.
Settled ==
  \A p \in Partition :
    /\ \A n \in 1 .. Gone(p) : <<p, n>> \in Handled
    /\ \A n \in 1 .. committed[p] : <<p, n>> \in applied

\* No record that is applied, or in the batch, is younger by more than the gap than
\* one that comes after it.
Merged ==
  /\ \A r \in Handled : r \in InLog /\ SentAt(r) + Slack < now
  /\ \A q \in Handled, r \in InLog \ Handled : SentAt(q) <= SentAt(r) + Gap
  /\ \A k \in 1 .. Len(batch) : batch[k] \notin applied =>
       /\ \A q \in applied : SentAt(q) <= SentAt(batch[k]) + Gap
       /\ \A j \in 1 .. k - 1 : SentAt(batch[j]) <= SentAt(batch[k]) + Gap
  /\ 0 <= worst /\ worst <= Gap

OrderInv == Typed /\ Placed /\ Delivered /\ Keyed /\ InRange /\ Settled /\ Merged

LEMMA Numbers ==
  ASSUME Typed
  PROVE  /\ now \in Nat /\ Delay \in Nat /\ Slack \in Nat /\ Margin \in Nat /\ MaxLen \in Nat
         /\ Gap \in Nat /\ (Gap = Delay \/ Gap = 0)
BY OrderAssumption DEF Gap, Typed

LEMMA OfPartition ==
  ASSUME Typed, NEW p \in Partition
  PROVE  /\ log[p] \in Seq(Nat) /\ Len(log[p]) \in Nat /\ \A n \in 1 .. Len(log[p]) : log[p][n] \in Nat
         /\ flying[p] \in Seq(Nat) /\ Len(flying[p]) \in Nat
         /\ \A n \in 1 .. Len(flying[p]) : flying[p][n] \in Nat
         /\ queue[p] \in Seq(Nat) /\ Len(queue[p]) \in Nat
         /\ \A n \in 1 .. Len(queue[p]) : queue[p][n] \in Nat
         /\ committed[p] \in Nat /\ end[p] \in Nat /\ pos[p] \in Nat /\ Gone(p) \in Int
         /\ lastTs[p] \in Int /\ (lastTs[p] = NoTime \/ lastTs[p] \in Nat)
<1>1. log[p] \in Seq(Nat) /\ flying[p] \in Seq(Nat) /\ queue[p] \in Seq(Nat)
  BY DEF Typed
<1>2. committed[p] \in Nat /\ end[p] \in Nat /\ pos[p] \in Nat /\ lastTs[p] \in Nat \cup {NoTime}
  BY DEF Typed
<1>3. /\ Len(log[p]) \in Nat /\ \A n \in 1 .. Len(log[p]) : log[p][n] \in Nat
      /\ Len(flying[p]) \in Nat /\ \A n \in 1 .. Len(flying[p]) : flying[p][n] \in Nat
      /\ Len(queue[p]) \in Nat /\ \A n \in 1 .. Len(queue[p]) : queue[p][n] \in Nat
  BY <1>1
<1>4. Gone(p) \in Int
  BY <1>2, <1>3 DEF Gone
<1>5. lastTs[p] \in Int /\ (lastTs[p] = NoTime \/ lastTs[p] \in Nat)
  BY <1>2 DEF NoTime
<1> QED BY <1>1, <1>2, <1>3, <1>4, <1>5

\* Records of a partition are in order but for the gap.
LEMMA SameOrder ==
  ASSUME Typed, Delivered, NEW p \in Partition,
         NEW m \in 1 .. Len(log[p]), NEW n \in 1 .. Len(log[p]), m < n
  PROVE  log[p][m] <= log[p][n] + Gap
<1>1. CASE slow \/ Disordered
  BY <1>1 DEF Delivered, Gap
<1>2. CASE ~(slow \/ Disordered)
  <2>1. Gap = 0 /\ ~(log[p][n] < log[p][m])
    BY <1>2 DEF Gap, Disordered
  <2>2. log[p][m] \in Nat /\ log[p][n] \in Nat
    BY OfPartition
  <2> QED BY <2>1, <2>2
<1> QED BY <1>1, <1>2

\* How far a partition is read, released and committed.
LEMMA Places ==
  ASSUME Typed, Placed, NEW q \in Partition
  PROVE  /\ committed[q] <= Gone(q) /\ Gone(q) <= pos[q] /\ pos[q] <= end[q] /\ end[q] <= Len(log[q])
         /\ 0 <= Gone(q) /\ Gone(q) + Len(queue[q]) = pos[q]
         /\ pos[q] \in Nat /\ end[q] \in Nat /\ Gone(q) \in Nat /\ Len(queue[q]) \in Nat
         /\ Len(log[q]) \in Nat /\ committed[q] \in Nat
<1>1. committed[q] <= Gone(q) /\ pos[q] <= end[q] /\ end[q] <= Len(log[q])
  BY DEF Placed
<1>2. /\ committed[q] \in Nat /\ pos[q] \in Nat /\ end[q] \in Nat /\ Len(queue[q]) \in Nat
      /\ Len(log[q]) \in Nat /\ Gone(q) \in Int
  BY OfPartition
<1>3. Gone(q) + Len(queue[q]) = pos[q]
  BY <1>2 DEF Gone
<1> QED BY <1>1, <1>2, <1>3

LEMMA SameGap == UNCHANGED <<log, slow>> => Gap' = Gap
BY DEF Gap, Disordered

LEMMA OrderInit == Init => OrderInv
<1> SUFFICES ASSUME Init PROVE OrderInv
  OBVIOUS
<1>1. Typed
  <2>1. /\ now \in 0 .. MaxTime /\ slow \in BOOLEAN /\ worst \in Int /\ taken \in 0 .. EventsBatch
        /\ phase \in {"idle", "fetch", "release", "apply"} /\ backpressure \in BOOLEAN
    <3>1. now = 0 /\ slow = FALSE /\ worst = 0 /\ taken = 0 /\ phase = "idle" /\ backpressure = FALSE
      BY DEF Init
    <3>2. MaxTime \in Nat /\ EventsBatch \in Nat
      BY OrderAssumption
    <3>3. now \in 0 .. MaxTime /\ taken \in 0 .. EventsBatch /\ worst \in Int
      BY <3>1, <3>2
    <3>4. phase \in {"idle", "fetch", "release", "apply"}
      BY <3>1
    <3> QED BY <3>1, <3>3, <3>4, Zenon
  <2>2. /\ applied \subseteq Record /\ reported \subseteq Record /\ batch \in Seq(Record)
        /\ assigned \subseteq Partition /\ exhausted \subseteq Partition /\ paused \subseteq Partition
        /\ releasedHigh \in Nat \cup {NoTime}
    BY DEF Init
  <2>3. /\ flying \in [Partition -> Seq(Nat)] /\ log \in [Partition -> Seq(Nat)]
        /\ queue \in [Partition -> Seq(Nat)]
    BY DEF Init
  <2>4. /\ committed \in [Partition -> Nat] /\ end \in [Partition -> Nat] /\ pos \in [Partition -> Nat]
        /\ lastTs \in [Partition -> Nat \cup {NoTime}]
    BY DEF Init
  <2> QED BY <2>1, <2>2, <2>3, <2>4 DEF Typed
<1>2. \A p \in Partition : /\ Len(log[p]) = 0 /\ Len(flying[p]) = 0 /\ Len(queue[p]) = 0 /\ queue[p] = <<>>
                           /\ pos[p] = 0 /\ end[p] = 0 /\ committed[p] = 0 /\ Gone(p) = 0 /\ lastTs[p] = NoTime
  BY DEF Init, Gone
<1>3. Len(batch) = 0 /\ InBatch = {} /\ applied = {} /\ worst = 0
  BY DEF Init, InBatch
<1>4. Placed
  <2> SUFFICES ASSUME NEW p \in Partition
               PROVE  /\ Len(flying[p]) + Len(log[p]) <= MaxLen
                      /\ committed[p] <= Gone(p) /\ pos[p] <= end[p] /\ end[p] <= Len(log[p])
                      /\ pos[p] = end[p] /\ queue[p] = <<>>
                      /\ \A k \in 1 .. Len(batch) : FALSE
    BY DEF Placed
  <2>1. /\ Len(log[p]) = 0 /\ Len(flying[p]) = 0 /\ queue[p] = <<>> /\ pos[p] = 0 /\ end[p] = 0
        /\ committed[p] = 0 /\ Gone(p) = 0
    BY <1>2, Zenon
  <2>2. MaxLen \in Nat
    BY OrderAssumption
  <2>3. Len(flying[p]) + Len(log[p]) <= MaxLen
    BY <2>1, <2>2
  <2>4. committed[p] <= Gone(p) /\ pos[p] <= end[p] /\ end[p] <= Len(log[p]) /\ pos[p] = end[p]
    BY <2>1
  <2>5. \A k \in 1 .. Len(batch) : FALSE
    BY <1>3
  <2> QED BY <2>1, <2>3, <2>4, <2>5, Zenon
<1>5. Delivered /\ Keyed /\ InRange /\ Settled
  BY <1>2 DEF Delivered, Keyed, InRange, Settled
<1>6. Merged
  BY <1>1, <1>3, Numbers DEF Merged, Handled
<1> QED BY <1>1, <1>4, <1>5, <1>6 DEF OrderInv

\* A step that lets time pass at most, and leaves logs, ranges, buffers and batch as
\* they are.
LEMMA Quiet ==
  ASSUME OrderInv, Typed', Placed', Delivered', now <= now',
         UNCHANGED <<log, slow, committed, applied, worst, end, pos, queue, lastTs, batch>>
  PROVE  OrderInv'
<1>1. Gap' = Gap
  BY SameGap
<1>2. \A p \in Partition : Gone(p)' = Gone(p)
  BY DEF Gone
<1>3. now \in Nat /\ now' \in Nat /\ Typed /\ Slack \in Nat
  BY OrderAssumption DEF OrderInv, Typed
<1>4. Keyed'
  <2> SUFFICES ASSUME NEW p \in Partition, lastTs[p] # NoTime PROVE lastTs[p] + Slack < now'
    BY <1>1, <1>2 DEF OrderInv, Keyed
  <2>1. lastTs[p] + Slack < now
    BY DEF OrderInv, Keyed
  <2>2. lastTs[p] \in Int
    BY <1>3, OfPartition
  <2> QED BY <1>3, <2>1, <2>2
<1>5. InRange'
  <2> SUFFICES ASSUME NEW p \in Partition, NEW m \in Gone(p) + 1 .. end[p]
               PROVE  log[p][m] + Slack < now'
    BY <1>1, <1>2 DEF OrderInv, InRange
  <2>1. m \in 1 .. Len(log[p])
    <3>1. committed[p] <= Gone(p) /\ end[p] <= Len(log[p])
      BY DEF OrderInv, Placed
    <3> QED BY <1>3, <3>1, OfPartition
  <2>2. log[p][m] + Slack < now
    BY DEF OrderInv, InRange
  <2>3. log[p][m] \in Nat
    BY <1>3, <2>1, OfPartition
  <2> QED BY <1>3, <2>2, <2>3
<1>6. Settled'
  BY <1>2 DEF OrderInv, Settled, Handled, InBatch
<1>7. Merged'
  <2>1. Handled' = Handled /\ InLog' = InLog
    BY DEF Handled, InBatch, InLog
  <2>2. ASSUME NEW r \in Handled PROVE SentAt(r) + Slack < now'
    <3>1. r \in InLog /\ SentAt(r) + Slack < now
      BY <2>2 DEF OrderInv, Merged
    <3>2. SentAt(r) \in Nat
      BY <1>3, <3>1, OfPartition DEF InLog, Record, SentAt
    <3> QED BY <1>3, <3>1, <3>2
  <2> QED BY <1>1, <2>1, <2>2 DEF OrderInv, Merged, SentAt
<1> QED BY <1>4, <1>5, <1>6, <1>7 DEF OrderInv

-----------------------------------------------------------------------------
(* /track and Kafka *)

LEMMA TickKeeps == ASSUME OrderInv, Tick PROVE OrderInv'
<1> USE DEF kafkaVars, producerVars, historyVars, bufferVars, pauseVars, rangeVars
<1>1. Typed /\ Placed /\ Delivered
  BY DEF OrderInv
<1>2. now' = now + 1 /\ now \in Nat /\ now' \in 0 .. MaxTime
  BY <1>1, OrderAssumption DEF Tick, Typed
<1>3. Typed'
  BY <1>1, <1>2 DEF Tick, Typed
<1>4. Placed'
  BY <1>1 DEF Tick, Placed, Gone
<1>5. Delivered'
  <2>1. Delay \in Nat
    BY OrderAssumption
  <2> SUFFICES ASSUME NEW p \in Partition
               PROVE  /\ \A n \in 1 .. Len(flying[p]) : flying[p][n] <= now' /\ now' <= flying[p][n] + Delay
                      /\ \A n \in 1 .. Len(log[p]) : log[p][n] <= now'
    BY <1>1 DEF Tick, Delivered
  <2>2. ASSUME NEW n \in 1 .. Len(flying[p]) PROVE flying[p][n] <= now' /\ now' <= flying[p][n] + Delay
    <3>1. flying[p][n] \in Nat
      BY <1>1, OfPartition
    <3>2. flying[p][n] <= now /\ now < flying[p][n] + Delay
      BY <1>1 DEF Tick, Delivered
    <3> QED BY <1>2, <2>1, <3>1, <3>2
  <2>3. ASSUME NEW n \in 1 .. Len(log[p]) PROVE log[p][n] <= now'
    <3>1. log[p][n] \in Nat /\ log[p][n] <= now
      BY <1>1, OfPartition DEF Delivered
    <3> QED BY <1>2, <3>1
  <2> QED BY <2>2, <2>3
<1>6. now <= now'
  BY <1>2
<1> QED BY <1>3, <1>4, <1>5, <1>6, Quiet DEF Tick

LEMMA SendKeeps == ASSUME OrderInv, NEW p \in Partition, Send(p) PROVE OrderInv'
<1> USE DEF kafkaVars, producerVars, historyVars, bufferVars, pauseVars, rangeVars
<1>1. Typed /\ Placed /\ Delivered /\ now \in Nat
  BY OrderAssumption DEF OrderInv, Typed
<1>2. flying[p] \in Seq(Nat) /\ flying' = [flying EXCEPT ![p] = Append(flying[p], now)]
  BY <1>1, OfPartition DEF Send
<1>3. \A q \in Partition : flying'[q] = IF q = p THEN Append(flying[p], now) ELSE flying[q]
  BY <1>1, <1>2 DEF Typed
<1>4. Typed'
  <2>1. flying' \in [Partition -> Seq(Nat)]
    BY <1>1, <1>2 DEF Typed
  <2> QED BY <1>1, <2>1 DEF Send, Typed
<1>5. Placed'
  <2>1. Len(flying'[p]) = Len(flying[p]) + 1 /\ Len(flying[p]) \in Nat
    <3>1. flying'[p] = Append(flying[p], now)
      BY <1>3
    <3> QED BY <1>1, <1>2, <3>1
  <2>2. Len(flying'[p]) + Len(log[p]) <= MaxLen
    <3>1. Len(log[p]) + Len(flying[p]) < MaxLen
      BY DEF Send
    <3>2. Len(log[p]) \in Nat /\ MaxLen \in Nat
      BY <1>1, OfPartition, OrderAssumption
    <3>3. \A a, b, c \in Nat : a + b < c => (b + 1) + a <= c
      OBVIOUS
    <3>4. (Len(flying[p]) + 1) + Len(log[p]) <= MaxLen
      BY <2>1, <3>1, <3>2, <3>3, Zenon
    <3> QED BY <2>1, <3>4
  <2>3. \A q \in Partition : Len(flying'[q]) + Len(log[q]) <= MaxLen
    BY <1>1, <1>3, <2>2 DEF Placed
  <2> QED BY <1>1, <2>3 DEF Send, Placed, Gone
<1>6. Delivered'
  <2>1. Delay \in Nat
    BY OrderAssumption
  <2>2. ASSUME NEW q \in Partition, NEW n \in 1 .. Len(flying'[q])
        PROVE  flying'[q][n] <= now /\ now <= flying'[q][n] + Delay
    <3>1. \/ flying'[q][n] = now
          \/ n \in 1 .. Len(flying[q]) /\ flying'[q][n] = flying[q][n]
      BY <1>2, <1>3, <2>2
    <3> QED BY <1>1, <2>1, <3>1 DEF Delivered
  <2> QED BY <1>1, <2>2 DEF Send, Delivered
<1> QED BY <1>1, <1>4, <1>5, <1>6, Quiet DEF Send

\* The log grows, and with it the gap at most; what was sent so long ago that it is
\* in a log no later than the slack is not younger, but for the gap.
LEMMA Grown ==
  ASSUME OrderInv, NEW p \in Partition, NEW m \in 1 .. Len(flying[p]), Arrive(p, m)
  PROVE  /\ \A q \in Partition :
              /\ Len(log'[q]) = IF q = p THEN Len(log[q]) + 1 ELSE Len(log[q])
              /\ \A n \in 1 .. Len(log[q]) : log'[q][n] = log[q][n]
         /\ log'[p][Len(log[p]) + 1] = flying[p][m]
         /\ log' \in [Partition -> Seq(Nat)]
         /\ Gap <= Gap' /\ Gap \in Nat /\ Gap' \in Nat
         /\ \A t \in Int : t + Slack < now => t <= flying[p][m] + Gap'
<1>1. Typed /\ Placed /\ Delivered
  BY DEF OrderInv
<1>2. log[p] \in Seq(Nat) /\ flying[p][m] \in Nat /\ now \in Nat /\ Slack \in Nat /\ Delay \in Nat
  BY <1>1, OfPartition, Numbers
<1>3. log' = [log EXCEPT ![p] = Append(log[p], flying[p][m])]
  BY DEF Arrive
<1>4. \A q \in Partition : log'[q] = IF q = p THEN Append(log[p], flying[p][m]) ELSE log[q]
  BY <1>1, <1>3 DEF Typed
<1>5. log' \in [Partition -> Seq(Nat)]
  BY <1>1, <1>2, <1>3 DEF Typed
<1>6. \A q \in Partition : /\ Len(log'[q]) = IF q = p THEN Len(log[q]) + 1 ELSE Len(log[q])
                           /\ \A n \in 1 .. Len(log[q]) : log'[q][n] = log[q][n]
  <2> TAKE q \in Partition
  <2>1. CASE q = p
    <3>1. log'[q] = Append(log[p], flying[p][m])
      BY <1>4, <2>1
    <3> QED BY <1>2, <2>1, <3>1
  <2>2. CASE q # p
    BY <1>4, <2>2
  <2> QED BY <2>1, <2>2
<1>7. log'[p][Len(log[p]) + 1] = flying[p][m]
  <2>1. log'[p] = Append(log[p], flying[p][m])
    BY <1>4
  <2> QED BY <1>2, <2>1
<1>8. slow \/ Disordered => slow' \/ Disordered'
  <2>1. slow => slow'
    BY DEF Arrive
  <2>2. ASSUME Disordered PROVE Disordered'
    <3>1. PICK q \in Partition : \E k, n \in 1 .. Len(log[q]) : k < n /\ log[q][n] < log[q][k]
      BY <2>2 DEF Disordered
    <3>2. PICK k \in 1 .. Len(log[q]), n \in 1 .. Len(log[q]) : k < n /\ log[q][n] < log[q][k]
      BY <3>1
    <3>3. log'[q][n] < log'[q][k]
      BY <1>6, <3>2
    <3>4. k \in 1 .. Len(log'[q]) /\ n \in 1 .. Len(log'[q])
      <4>1. Len(log[q]) \in Nat
        BY <1>1, OfPartition
      <4>2. Len(log'[q]) = Len(log[q]) + 1 \/ Len(log'[q]) = Len(log[q])
        BY <1>6
      <4> QED BY <4>1, <4>2
    <3> QED BY <3>2, <3>3, <3>4 DEF Disordered
  <2> QED BY <2>1, <2>2
<1>9. Gap <= Gap' /\ Gap \in Nat /\ Gap' \in Nat
  BY <1>2, <1>8 DEF Gap
<1>10. ASSUME NEW t \in Int, t + Slack < now PROVE t <= flying[p][m] + Gap'
  <2>1. CASE slow' \/ Disordered'
    <3>1. now <= flying[p][m] + Delay
      BY <1>1 DEF Delivered
    <3>2. Gap' = Delay
      BY <2>1 DEF Gap
    <3> QED BY <1>2, <1>10, <3>1, <3>2
  <2>2. CASE ~(slow' \/ Disordered')
    <3>1. ~(now > flying[p][m] + Slack)
      BY <2>2 DEF Arrive
    <3> QED BY <1>2, <1>9, <1>10, <3>1
  <2> QED BY <2>1, <2>2
<1> QED BY <1>5, <1>6, <1>7, <1>9, <1>10

LEMMA ArriveKeeps ==
  ASSUME OrderInv, NEW p \in Partition, NEW m \in 1 .. Len(flying[p]), Arrive(p, m)
  PROVE  OrderInv'
<1> USE DEF kafkaVars, producerVars, historyVars, bufferVars, pauseVars, rangeVars
<1> DEFINE f == flying[p][m]
<1>1. Typed /\ Placed /\ Delivered /\ Keyed /\ InRange /\ Settled /\ Merged
  BY DEF OrderInv
<1>2. /\ f \in Nat /\ Len(log[p]) \in Nat /\ now \in Nat /\ Slack \in Nat /\ Delay \in Nat /\ NoTime \in Int
      /\ Len(flying[p]) \in Nat
  BY <1>1, OfPartition, Numbers DEF NoTime
<1>3. \A q \in Partition :
        /\ Len(log'[q]) = IF q = p THEN Len(log[q]) + 1 ELSE Len(log[q])
        /\ \A n \in 1 .. Len(log[q]) : log'[q][n] = log[q][n]
  BY Grown
<1>4. log'[p][Len(log[p]) + 1] = f
  BY Grown
<1>5. Gap <= Gap' /\ Gap \in Nat /\ Gap' \in Nat
  BY Grown
<1>6. \A t \in Int : t + Slack < now => t <= f + Gap'
  BY Grown
<1>7. /\ \A q \in Partition : Gone(q)' = Gone(q)
      /\ Handled' = Handled
  BY DEF Arrive, Gone, Handled, InBatch
<1>8. \A q \in Partition : \A n \in 1 .. Len(log'[q]) :
        \/ n \in 1 .. Len(log[q]) /\ log'[q][n] = log[q][n]
        \/ q = p /\ n = Len(log[p]) + 1 /\ log'[q][n] = f
  <2> TAKE q \in Partition
  <2> TAKE n \in 1 .. Len(log'[q])
  <2> HIDE DEF f
  <2>1. CASE q # p
    BY <1>3, <2>1
  <2>2. CASE q = p
    <3>1. n \in 1 .. Len(log[p]) + 1
      BY <1>3, <2>2
    <3>2. n \in 1 .. Len(log[p]) \/ n = Len(log[p]) + 1
      BY <1>2, <3>1
    <3> QED BY <1>3, <1>4, <2>2, <3>2
  <2> QED BY <2>1, <2>2
<1>9. /\ flying'[p] \in Seq(Nat) /\ Len(flying'[p]) = Len(flying[p]) - 1
      /\ \A n \in 1 .. Len(flying'[p]) : \E j \in 1 .. Len(flying[p]) : flying'[p][n] = flying[p][j]
      /\ \A q \in Partition \ {p} : flying'[q] = flying[q]
      /\ flying' \in [Partition -> Seq(Nat)]
  <2>1. flying' = [flying EXCEPT ![p] = Without(flying[p], m)] /\ flying[p] \in Seq(Nat)
    BY <1>1, OfPartition DEF Arrive
  <2>2. /\ Without(flying[p], m) \in Seq(Nat)
        /\ Len(Without(flying[p], m)) = Len(flying[p]) - 1
        /\ \A k \in 1 .. Len(flying[p]) - 1 : \E j \in 1 .. Len(flying[p]) : Without(flying[p], m)[k] = flying[p][j]
    BY <2>1, WithoutIs
  <2>3. flying'[p] = Without(flying[p], m)
    BY <1>1, <2>1 DEF Typed
  <2>4. \A q \in Partition \ {p} : flying'[q] = flying[q]
    BY <1>1, <2>1 DEF Typed
  <2>5. flying' \in [Partition -> Seq(Nat)]
    BY <1>1, <2>1, <2>2 DEF Typed
  <2> QED BY <2>2, <2>3, <2>4, <2>5
<1> HIDE DEF f
<1>10. Typed'
  <2>1. slow' \in BOOLEAN /\ log' \in [Partition -> Seq(Nat)]
    BY <1>1, Grown DEF Arrive, Typed
  <2> QED BY <1>1, <1>9, <2>1 DEF Arrive, Typed
<1>11. Placed'
  <2>1. ASSUME NEW q \in Partition
        PROVE  Len(flying'[q]) + Len(log'[q]) <= MaxLen /\ end[q] <= Len(log'[q])
    <3>1. Len(flying[q]) + Len(log[q]) <= MaxLen /\ end[q] <= Len(log[q])
      BY <1>1 DEF Placed
    <3>2. CASE q # p
      BY <1>3, <1>9, <3>1, <3>2
    <3>3. CASE q = p
      <4>1. Len(log'[p]) = Len(log[p]) + 1 /\ Len(flying'[p]) = Len(flying[p]) - 1
        BY <1>3, <1>9
      <4>2. \A a, b, c \in Int : a + b <= c => (a - 1) + (b + 1) <= c
        OBVIOUS
      <4>3. (Len(flying[p]) - 1) + (Len(log[p]) + 1) <= MaxLen
        <5>1. MaxLen \in Int /\ Len(flying[p]) \in Int /\ Len(log[p]) \in Int
          BY <1>2, OrderAssumption
        <5> QED BY <3>1, <3>3, <4>2, <5>1, Zenon
      <4>4. end[q] <= Len(log[p]) + 1
        <5>1. end[q] \in Nat
          BY <1>1, OfPartition
        <5> QED BY <1>2, <3>1, <3>3, <5>1
      <4> QED BY <3>3, <4>1, <4>3, <4>4
    <3> QED BY <3>2, <3>3
  <2> QED BY <1>1, <1>7, <2>1 DEF Arrive, Placed
<1>12. Delivered'
  <2> SUFFICES ASSUME NEW q \in Partition
               PROVE  /\ \A n \in 1 .. Len(flying'[q]) : flying'[q][n] <= now /\ now <= flying'[q][n] + Delay
                      /\ \A n \in 1 .. Len(log'[q]) : log'[q][n] <= now
                      /\ \A k, n \in 1 .. Len(log'[q]) : k < n => log'[q][k] <= log'[q][n] + Delay
    BY DEF Arrive, Delivered
  <2>1. f <= now /\ now <= f + Delay
    BY <1>1 DEF Delivered, f
  <2>2. ASSUME NEW n \in 1 .. Len(flying'[q]) PROVE flying'[q][n] <= now /\ now <= flying'[q][n] + Delay
    BY <1>1, <1>9 DEF Delivered
  <2>3. ASSUME NEW n \in 1 .. Len(log'[q]) PROVE log'[q][n] <= now
    BY <1>1, <1>8, <2>1 DEF Delivered
  <2>4. ASSUME NEW k \in 1 .. Len(log'[q]), NEW n \in 1 .. Len(log'[q]), k < n
        PROVE  log'[q][k] <= log'[q][n] + Delay
    <3>1. k \in 1 .. Len(log[q]) /\ log'[q][k] = log[q][k]
      <4>1. CASE q = p /\ k = Len(log[p]) + 1
        <5>1. Len(log'[q]) = Len(log[p]) + 1
          BY <1>3, <4>1
        <5> QED BY <1>2, <2>4, <4>1, <5>1
      <4> QED BY <1>8, <4>1
    <3>2. CASE n \in 1 .. Len(log[q]) /\ log'[q][n] = log[q][n]
      BY <1>1, <2>4, <3>1, <3>2 DEF Delivered
    <3>3. CASE log'[q][n] = f
      <4>1. log[q][k] <= now /\ log[q][k] \in Nat
        BY <1>1, <3>1, OfPartition DEF Delivered
      <4> QED BY <1>2, <2>1, <3>1, <3>3, <4>1
    <3> QED BY <1>8, <3>2, <3>3
  <2> QED BY <2>2, <2>3, <2>4
<1>13. \A q \in Partition :
         /\ pos[q] <= end[q] /\ end[q] <= Len(log[q]) /\ 0 <= Gone(q) /\ Gone(q) + Len(queue[q]) = pos[q]
         /\ pos[q] \in Nat /\ end[q] \in Nat /\ Gone(q) \in Nat /\ Len(queue[q]) \in Nat /\ Len(log[q]) \in Nat
  BY <1>1, Places
<1>14. Keyed'
  <2> SUFFICES ASSUME NEW q \in Partition
               PROVE  /\ lastTs[q] # NoTime => lastTs[q] + Slack < now
                      /\ \A n \in pos[q] + 1 .. Len(log'[q]) : lastTs[q] <= log'[q][n] + Gap'
                      /\ \A k \in 1 .. Len(queue[q]) :
                           /\ log'[q][Gone(q) + k] <= queue[q][k]
                           /\ queue[q][k] <= log'[q][Gone(q) + k] + Gap'
                           /\ queue[q][k] <= lastTs[q]
                           /\ \A j \in 1 .. k : queue[q][j] <= queue[q][k]
    BY <1>7 DEF Arrive, Keyed
  <2>1. ASSUME NEW n \in pos[q] + 1 .. Len(log'[q]) PROVE lastTs[q] <= log'[q][n] + Gap'
    <3>1. n \in 1 .. Len(log'[q])
      <4>1. Len(log'[q]) \in Int
        BY <1>3, <1>13
      <4> QED BY <1>13, <4>1
    <3>2. lastTs[q] \in Int /\ (lastTs[q] = NoTime \/ lastTs[q] + Slack < now)
      BY <1>1, OfPartition DEF Keyed
    <3>3. CASE n \in 1 .. Len(log[q]) /\ log'[q][n] = log[q][n]
      <4>1. lastTs[q] <= log[q][n] + Gap /\ log[q][n] \in Nat
        BY <1>1, <1>13, <2>1, <3>3, OfPartition DEF Keyed
      <4> QED BY <1>5, <3>2, <3>3, <4>1
    <3>4. CASE log'[q][n] = f
      BY <1>2, <1>5, <1>6, <3>2, <3>4 DEF NoTime
    <3> QED BY <1>8, <3>1, <3>3, <3>4
  <2>2. ASSUME NEW k \in 1 .. Len(queue[q])
        PROVE  log'[q][Gone(q) + k] <= queue[q][k] /\ queue[q][k] <= log'[q][Gone(q) + k] + Gap'
    <3>1. PICK n : n = Gone(q) + k
      OBVIOUS
    <3>2. n \in 1 .. Len(log[q])
      BY <1>13, <3>1
    <3>3. log'[q][n] = log[q][n] /\ log[q][n] \in Nat /\ queue[q][k] \in Nat
      BY <1>1, <1>3, <3>2, OfPartition
    <3>4. log[q][n] <= queue[q][k] /\ queue[q][k] <= log[q][n] + Gap
      BY <1>1, <3>1 DEF Keyed
    <3> QED BY <1>5, <3>1, <3>3, <3>4
  <2> QED BY <1>1, <2>1, <2>2 DEF Keyed
<1>15. InRange'
  <2> SUFFICES ASSUME NEW q \in Partition, NEW k \in Gone(q) + 1 .. end[q]
               PROVE  /\ log'[q][k] + Slack < now
                      /\ \A r \in Partition : \A n \in end[r] + 1 .. Len(log'[r]) : log'[q][k] <= log'[r][n] + Gap'
    BY <1>7 DEF Arrive, InRange
  <2>1. k \in 1 .. Len(log[q])
    BY <1>13
  <2>2. log'[q][k] = log[q][k] /\ log[q][k] \in Nat /\ log[q][k] + Slack < now
    BY <1>1, <1>3, <2>1, OfPartition DEF InRange
  <2>3. ASSUME NEW r \in Partition, NEW n \in end[r] + 1 .. Len(log'[r]) PROVE log[q][k] <= log'[r][n] + Gap'
    <3>1. n \in 1 .. Len(log'[r])
      <4>1. Len(log'[r]) \in Int
        BY <1>3, <1>13
      <4> QED BY <1>13, <4>1
    <3>2. CASE n \in 1 .. Len(log[r]) /\ log'[r][n] = log[r][n]
      <4>1. n \in end[r] + 1 .. Len(log[r])
        BY <1>13, <2>3, <3>2
      <4>2. log[q][k] <= log[r][n] + Gap /\ log[r][n] \in Nat
        BY <1>1, <3>2, <4>1, OfPartition DEF InRange
      <4> QED BY <1>5, <2>2, <3>2, <4>2
    <3>3. CASE log'[r][n] = f
      BY <1>2, <1>5, <1>6, <2>2, <3>3
    <3> QED BY <1>8, <3>1, <3>2, <3>3
  <2> QED BY <2>2, <2>3
<1>16. Settled'
  BY <1>1, <1>7 DEF Arrive, Settled
<1>17. \A r \in InLog : r \in InLog' /\ SentAt(r)' = SentAt(r) /\ SentAt(r) \in Nat
  <2> TAKE r \in InLog
  <2>1. r \in Record /\ r[1] \in Partition /\ r[2] \in 1 .. Len(log[r[1]])
    BY DEF InLog, Record
  <2>2. log'[r[1]][r[2]] = log[r[1]][r[2]] /\ log[r[1]][r[2]] \in Nat
    BY <1>1, <1>3, <2>1, OfPartition
  <2>3. r[2] <= Len(log'[r[1]])
    BY <1>3, <1>13, <2>1
  <2> QED BY <2>1, <2>2, <2>3 DEF InLog, SentAt
<1>18. Merged'
  <2>1. ASSUME NEW r \in Handled PROVE r \in InLog' /\ SentAt(r)' + Slack < now
    BY <1>1, <1>17, <2>1 DEF Merged
  <2>2. ASSUME NEW q \in Handled, NEW r \in InLog' \ Handled PROVE SentAt(q)' <= SentAt(r)' + Gap'
    <3>1. q \in InLog /\ SentAt(q)' = SentAt(q) /\ SentAt(q) \in Nat /\ SentAt(q) + Slack < now
      BY <1>1, <1>17 DEF Merged
    <3>2. r \in Record /\ r[1] \in Partition /\ r[2] \in 1 .. Len(log'[r[1]])
      <4>1. r \in Record /\ r[2] <= Len(log'[r[1]])
        BY DEF InLog
      <4>2. r[1] \in Partition /\ r[2] \in Nat /\ r[2] >= 1
        BY <4>1 DEF Record
      <4>3. Len(log'[r[1]]) \in Int
        BY <1>3, <1>13, <4>2
      <4> QED BY <4>1, <4>2, <4>3
    <3>3. CASE r[2] \in 1 .. Len(log[r[1]])
      <4>1. r \in InLog \ Handled
        BY <3>2, <3>3 DEF InLog
      <4>2. SentAt(q) <= SentAt(r) + Gap /\ SentAt(r)' = SentAt(r) /\ SentAt(r) \in Nat
        BY <1>1, <1>17, <4>1 DEF Merged
      <4> QED BY <1>5, <3>1, <4>2
    <3>4. CASE log'[r[1]][r[2]] = f
      <4>1. SentAt(r)' = f
        BY <3>4 DEF SentAt
      <4>2. SentAt(q) <= f + Gap'
        <5>1. SentAt(q) \in Int
          BY <3>1
        <5> QED BY <1>6, <3>1, <5>1, Zenon
      <4> QED BY <3>1, <4>1, <4>2
    <3> QED BY <1>8, <3>2, <3>3, <3>4
  <2>3. batch' = batch /\ applied' = applied /\ worst' = worst /\ now' = now
    BY DEF Arrive
  <2>4. ASSUME NEW k \in 1 .. Len(batch), batch[k] \notin applied
        PROVE  /\ \A q \in applied : SentAt(q)' <= SentAt(batch[k])' + Gap'
               /\ \A j \in 1 .. k - 1 : SentAt(batch[j])' <= SentAt(batch[k])' + Gap'
    <3>1. PICK r : r = batch[k]
      OBVIOUS
    <3>2. r \in InLog
      BY <1>1, <3>1 DEF Merged, Handled, InBatch
    <3>3. /\ \A q \in applied : SentAt(q) <= SentAt(r) + Gap
          /\ \A j \in 1 .. k - 1 : SentAt(batch[j]) <= SentAt(r) + Gap
      BY <1>1, <2>4, <3>1 DEF Merged
    <3>4. \A s \in InLog : SentAt(s) <= SentAt(r) + Gap => SentAt(s)' <= SentAt(r)' + Gap'
      <4> TAKE s \in InLog
      <4>1. /\ SentAt(s)' = SentAt(s) /\ SentAt(s) \in Nat
            /\ SentAt(r)' = SentAt(r) /\ SentAt(r) \in Nat
        BY <1>17, <3>2
      <4> QED BY <1>5, <4>1
    <3>5. \A q \in applied : SentAt(q)' <= SentAt(r)' + Gap'
      <4>1. \A q \in applied : q \in InLog
        BY <1>1 DEF Merged, Handled
      <4> QED BY <3>3, <3>4, <4>1
    <3>6. ASSUME NEW j \in 1 .. k - 1 PROVE SentAt(batch[j])' <= SentAt(r)' + Gap'
      <4>1. PICK s : s = batch[j]
        OBVIOUS
      <4>2. s \in InLog
        <5>1. j \in 1 .. Len(batch)
          BY <1>1 DEF Typed
        <5> QED BY <1>1, <4>1, <5>1 DEF Merged, Handled, InBatch
      <4>3. SentAt(s)' <= SentAt(r)' + Gap'
        BY <3>3, <3>4, <4>1, <4>2
      <4> QED BY <2>3, <4>1, <4>3 DEF SentAt
    <3> QED BY <2>3, <3>1, <3>5, <3>6 DEF SentAt
  <2>5. 0 <= worst /\ worst <= Gap'
    BY <1>1, <1>5 DEF Merged, Typed
  <2> QED BY <1>7, <2>1, <2>2, <2>3, <2>4, <2>5 DEF Merged
<1> QED BY <1>10, <1>11, <1>12, <1>14, <1>15, <1>16, <1>18 DEF OrderInv

-----------------------------------------------------------------------------
(* The cycle *)

LEMMA StartCycleKeeps == ASSUME OrderInv, StartCycle PROVE OrderInv'
<1> USE DEF kafkaVars, producerVars, historyVars, bufferVars, pauseVars, rangeVars
<1>1. Typed /\ Placed /\ Delivered /\ Settled /\ Merged
  BY DEF OrderInv
<1>2. /\ now \in Nat /\ Slack \in Nat /\ Margin \in Nat /\ Gap \in Nat
      /\ Gap' = Gap
  BY <1>1, Numbers, SameGap DEF StartCycle
<1>3. \A p \in Partition :
        /\ CycleEnd(p) \in Nat /\ committed[p] <= CycleEnd(p) /\ CycleEnd(p) <= Len(log[p])
        /\ \A n \in committed[p] + 1 .. CycleEnd(p) : log[p][n] < now - Slack - Margin
        /\ CycleEnd(p) < Len(log[p]) =>
             \E n \in 1 .. CycleEnd(p) + 1 : log[p][n] >= now - Slack - Margin
  <2> TAKE p \in Partition
  <2>1. committed[p] <= Len(log[p])
    BY <1>1, Places
  <2> QED BY <1>1, <2>1, CycleEndIs
<1>4. /\ \A p \in Partition : /\ end'[p] = CycleEnd(p) /\ pos'[p] = committed[p] /\ queue'[p] = <<>>
                              /\ lastTs'[p] = NoTime
      /\ exhausted' = {} /\ batch' = <<>> /\ InBatch' = {}
  BY DEF StartCycle, Cleared, InBatch
<1>5. \A p \in Partition : Gone(p)' = committed[p] /\ Len(queue'[p]) = 0
  <2> TAKE p \in Partition
  <2>1. pos'[p] = committed[p] /\ Len(queue'[p]) = 0 /\ committed[p] \in Nat
    BY <1>1, <1>4, Places
  <2> QED BY <2>1 DEF Gone
<1>6. Typed'
  <2>1. /\ end' \in [Partition -> Nat] /\ pos' \in [Partition -> Nat]
        /\ queue' \in [Partition -> Seq(Nat)] /\ lastTs' \in [Partition -> Nat \cup {NoTime}]
    BY <1>1, <1>3 DEF StartCycle, Cleared, Typed
  <2>2. assigned' \subseteq Partition /\ exhausted' \subseteq Partition /\ paused' \subseteq Partition
    BY DEF StartCycle, Cleared
  <2>3. taken' \in 0 .. EventsBatch
    BY OrderAssumption DEF StartCycle, Cleared
  <2>4. batch' \in Seq(Record) /\ phase' \in {"idle", "fetch", "release", "apply"} /\ backpressure' \in BOOLEAN
    <3>1. batch' = <<>> /\ phase' = "fetch" /\ backpressure' = FALSE
      BY DEF StartCycle, Cleared
    <3>2. batch' \in Seq(Record) /\ phase' \in {"idle", "fetch", "release", "apply"}
      BY <3>1
    <3> QED BY <3>1, <3>2, Zenon
  <2> QED BY <1>1, <2>1, <2>2, <2>3, <2>4 DEF StartCycle, Typed
<1>7. Placed'
  <2> SUFFICES ASSUME NEW p \in Partition
               PROVE  /\ Len(flying[p]) + Len(log[p]) <= MaxLen
                      /\ committed[p] <= Gone(p)' /\ pos'[p] <= end'[p] /\ end'[p] <= Len(log[p])
                      /\ p \notin assigned' => pos'[p] = end'[p]
                      /\ queue'[p] = <<>> /\ Len(batch') = 0
    <3>1. /\ exhausted' = {} /\ committed' = committed /\ flying' = flying /\ log' = log
      BY <1>4 DEF StartCycle
    <3>2. Len(batch') = 0 => \A k \in 1 .. Len(batch') : FALSE
      OBVIOUS
    <3> QED BY <3>1, <3>2, Zenon DEF Placed
  <2>1. Len(flying[p]) + Len(log[p]) <= MaxLen /\ committed[p] \in Nat
    BY <1>1, Places DEF Placed
  <2>2. p \notin assigned' => committed[p] = CycleEnd(p)
    <3>1. p \notin assigned' => ~(CycleEnd(p) > committed[p])
      BY DEF StartCycle
    <3> QED BY <1>3, <2>1, <3>1
  <2>3. /\ end'[p] = CycleEnd(p) /\ pos'[p] = committed[p] /\ queue'[p] = <<>> /\ Gone(p)' = committed[p]
        /\ Len(batch') = 0
    BY <1>4, <1>5
  <2>4. CycleEnd(p) \in Nat /\ committed[p] <= CycleEnd(p) /\ CycleEnd(p) <= Len(log[p])
    BY <1>3
  <2>5. committed[p] <= Gone(p)' /\ pos'[p] <= end'[p] /\ end'[p] <= Len(log[p])
    BY <2>1, <2>3, <2>4
  <2> QED BY <2>1, <2>2, <2>3, <2>5, Zenon
<1>8. Delivered'
  BY <1>1 DEF StartCycle, Delivered
<1>9. Keyed'
  <2> SUFFICES ASSUME NEW p \in Partition
               PROVE  \A n \in pos'[p] + 1 .. Len(log[p]) : NoTime <= log[p][n] + Gap
    BY <1>2, <1>4, <1>5 DEF StartCycle, Keyed
  <2>1. \A n \in committed[p] + 1 .. Len(log[p]) : log[p][n] \in Nat
    BY <1>1, Places, OfPartition
  <2> QED BY <1>2, <1>4, <2>1 DEF NoTime
<1>10. InRange'
  <2> SUFFICES ASSUME NEW p \in Partition, NEW m \in committed[p] + 1 .. CycleEnd(p)
               PROVE  /\ log[p][m] + Slack < now
                      /\ \A q \in Partition : \A n \in CycleEnd(q) + 1 .. Len(log[q]) : log[p][m] <= log[q][n] + Gap
    BY <1>2, <1>4, <1>5 DEF StartCycle, InRange
  <2>1. log[p][m] < now - Slack - Margin
    BY <1>3
  <2>2. m \in 1 .. Len(log[p]) /\ log[p][m] \in Nat
    BY <1>1, <1>3, Places, OfPartition
  <2>3. log[p][m] + Slack < now
    BY <1>2, <2>1, <2>2
  <2>4. ASSUME NEW q \in Partition, NEW n \in CycleEnd(q) + 1 .. Len(log[q])
        PROVE  log[p][m] <= log[q][n] + Gap
    <3>1. Len(log[q]) \in Nat /\ CycleEnd(q) \in Nat
      BY <1>1, <1>3, Places
    <3>2. CycleEnd(q) < Len(log[q]) /\ n \in 1 .. Len(log[q])
      BY <3>1
    <3>3. PICK j \in 1 .. CycleEnd(q) + 1 : log[q][j] >= now - Slack - Margin
      BY <1>3, <3>2
    <3>4. j \in 1 .. Len(log[q]) /\ j <= n
      BY <3>1, <3>2
    <3>5. log[q][j] \in Nat /\ log[q][n] \in Nat
      BY <1>1, <3>2, <3>4, OfPartition
    <3>6. log[q][j] <= log[q][n] + Gap
      <4>1. CASE j = n
        BY <1>2, <3>5, <4>1
      <4>2. CASE j < n
        BY <1>1, <3>2, <3>4, <4>2, SameOrder
      <4> QED BY <3>4, <4>1, <4>2
    <3>7. log[p][m] <= log[q][j]
      BY <1>2, <2>1, <2>2, <3>3, <3>5
    <3>8. \A a, b, c, d \in Int : a <= b /\ b <= c + d => a <= c + d
      OBVIOUS
    <3>9. log[p][m] \in Int /\ log[q][j] \in Int /\ log[q][n] \in Int /\ Gap \in Int
      BY <1>2, <2>2, <3>5
    <3> QED BY <3>6, <3>7, <3>8, <3>9, Zenon
  <2> QED BY <2>3, <2>4
<1>11. Settled'
  <2>1. applied \subseteq Handled'
    BY DEF StartCycle, Handled
  <2> QED BY <1>1, <1>5, <2>1 DEF StartCycle, Settled
<1>12. Merged'
  <2>1. Handled' = applied /\ InLog' = InLog
    BY <1>4 DEF StartCycle, Handled, InLog
  <2>2. \A q \in applied, r \in InLog \ applied : SentAt(q) <= SentAt(r) + Gap
    <3> TAKE q \in applied, r \in InLog \ applied
    <3>1. CASE r \in InBatch
      <4>1. PICK k \in 1 .. Len(batch) : r = batch[k]
        BY <3>1 DEF InBatch
      <4> QED BY <1>1, <4>1 DEF Merged
    <3>2. CASE r \notin InBatch
      BY <1>1, <3>2 DEF Merged, Handled
    <3> QED BY <3>1, <3>2
  <2>3. Len(batch') = 0
    BY <1>4
  <2> QED BY <1>1, <1>2, <2>1, <2>2, <2>3 DEF StartCycle, Merged, Handled, SentAt
<1> QED BY <1>6, <1>7, <1>8, <1>9, <1>10, <1>11, <1>12 DEF OrderInv

LEMMA FetchKeeps == ASSUME OrderInv, NEW p \in Partition, Fetch(p) PROVE OrderInv'
<1> USE DEF kafkaVars, producerVars, historyVars, bufferVars, pauseVars, rangeVars
<1> DEFINE ts == log[p][pos[p] + 1]
           key == SortedBy(p, ts)
<1>1. Typed /\ Placed /\ Delivered /\ Keyed /\ InRange /\ Settled /\ Merged
  BY DEF OrderInv
<1>2. /\ now \in Nat /\ Slack \in Nat /\ Gap \in Nat /\ Gap' = Gap
  BY <1>1, Numbers, SameGap DEF Fetch
<1>3. /\ pos[p] \in Nat /\ end[p] \in Nat /\ Gone(p) \in Nat /\ Len(queue[p]) \in Nat /\ Len(log[p]) \in Nat
      /\ Gone(p) + Len(queue[p]) = pos[p] /\ Gone(p) <= pos[p] /\ pos[p] < end[p] /\ end[p] <= Len(log[p])
  BY <1>1, Places DEF Fetch
<1>4. /\ pos[p] + 1 \in 1 .. Len(log[p]) /\ pos[p] + 1 \in Gone(p) + 1 .. end[p]
      /\ pos[p] + 1 \in pos[p] + 1 .. Len(log[p])
  BY <1>3
<1>5. ts \in Nat /\ lastTs[p] \in Int /\ (lastTs[p] = NoTime \/ lastTs[p] \in Nat)
  BY <1>1, <1>4, OfPartition
<1> HIDE DEF ts
<1>6. key \in Nat /\ lastTs[p] <= key /\ ts <= key /\ (key = ts \/ key = lastTs[p])
  BY <1>5 DEF SortedBy, Later, NoTime
<1>7. /\ pos' = [pos EXCEPT ![p] = pos[p] + 1]
      /\ lastTs' = [lastTs EXCEPT ![p] = key]
      /\ queue' = [queue EXCEPT ![p] = Append(queue[p], key)]
  <2>1. lastTs' = [lastTs EXCEPT ![p] = key]
    BY DEF Fetch, ts
  <2>2. lastTs'[p] = key
    BY <1>1, <2>1 DEF Typed
  <2> QED BY <2>1, <2>2 DEF Fetch
<1> HIDE DEF key
<1>8. /\ \A q \in Partition : pos'[q] = IF q = p THEN pos[p] + 1 ELSE pos[q]
      /\ \A q \in Partition : lastTs'[q] = IF q = p THEN key ELSE lastTs[q]
      /\ \A q \in Partition : queue'[q] = IF q = p THEN Append(queue[p], key) ELSE queue[q]
  BY <1>1, <1>7 DEF Typed
<1>9. /\ queue[p] \in Seq(Nat) /\ queue'[p] \in Seq(Nat) /\ Len(queue'[p]) = Len(queue[p]) + 1
      /\ queue'[p][Len(queue[p]) + 1] = key
      /\ \A k \in 1 .. Len(queue[p]) : queue'[p][k] = queue[p][k]
  <2>1. queue[p] \in Seq(Nat) /\ queue'[p] = Append(queue[p], key)
    BY <1>1, <1>8, OfPartition
  <2> QED BY <1>6, <2>1
<1>10. \A q \in Partition : Gone(q)' = Gone(q)
  <2>1. Gone(p)' = Gone(p)
    <3>1. pos'[p] = pos[p] + 1 /\ Len(queue'[p]) = Len(queue[p]) + 1
      BY <1>8, <1>9
    <3>2. \A a, b \in Int : (a + 1) - (b + 1) = a - b
      OBVIOUS
    <3>3. (pos[p] + 1) - (Len(queue[p]) + 1) = Gone(p)
      <4>1. pos[p] \in Int /\ Len(queue[p]) \in Int
        BY <1>3
      <4> QED BY <3>2, <4>1, Zenon DEF Gone
    <3> QED BY <3>1, <3>3 DEF Gone
  <2>2. \A q \in Partition : q # p => Gone(q)' = Gone(q)
    BY <1>8 DEF Gone
  <2> QED BY <2>1, <2>2
<1>11. p \in assigned /\ taken' \in 0 .. EventsBatch
  <2>1. taken < EventsBatch /\ taken' = taken + 1 /\ p \in assigned
    BY DEF Fetch
  <2> QED BY <1>1, <2>1, OrderAssumption DEF Typed
<1>12. Typed'
  <2>1. /\ pos' \in [Partition -> Nat] /\ queue' \in [Partition -> Seq(Nat)]
        /\ lastTs' \in [Partition -> Nat \cup {NoTime}]
    <3>1. Append(queue[p], key) \in Seq(Nat) /\ pos[p] + 1 \in Nat
      BY <1>3, <1>6, <1>9
    <3> QED BY <1>1, <1>6, <1>7, <3>1 DEF Typed
  <2>2. exhausted' \subseteq Partition
    BY <1>1 DEF Fetch, Typed
  <2>3. reported' \subseteq Record
    <3>1. <<p, pos[p] + 1>> \in Record
      <4>1. Len(flying[p]) + Len(log[p]) <= MaxLen /\ Len(flying[p]) \in Nat /\ MaxLen \in Nat
        BY <1>1, OfPartition, OrderAssumption DEF Placed
      <4>2. \A a, b, c \in Nat : a + b <= c => b <= c
        OBVIOUS
      <4>3. pos[p] + 1 <= MaxLen
        <5>1. Len(log[p]) <= MaxLen
          BY <1>3, <4>1, <4>2, Zenon
        <5> QED BY <1>3, <4>1, <5>1
      <4>4. pos[p] + 1 \in 1 .. MaxLen
        BY <1>3, <4>1, <4>3
      <4> QED BY <4>4 DEF Record
    <3> QED BY <1>1, <3>1 DEF Fetch, Typed
  <2> QED BY <1>1, <1>11, <2>1, <2>2, <2>3 DEF Fetch, Typed
<1>13. Placed'
  <2>1. \A q \in exhausted' \cup (Partition \ assigned) : q \in Partition => pos'[q] = end[q]
    <3>1. \A q \in exhausted \cup (Partition \ assigned) : q \in Partition => pos[q] = end[q]
      BY <1>1 DEF Placed
    <3>2. p \notin exhausted
      BY <1>3, <3>1
    <3>3. p \in exhausted' => pos[p] + 1 = end[p]
      <4>1. p \in exhausted' => pos[p] + 1 >= end[p]
        BY <3>2 DEF Fetch
      <4> QED BY <1>3, <4>1
    <3>4. exhausted' \subseteq exhausted \cup {p}
      BY DEF Fetch
    <3> QED BY <1>8, <1>11, <3>1, <3>3, <3>4
  <2>2. \A q \in Partition : pos'[q] <= end[q]
    <3> TAKE q \in Partition
    <3>1. pos[q] <= end[q]
      BY <1>1 DEF Placed
    <3> QED BY <1>3, <1>8, <3>1
  <2>3. \A q \in Partition : q \notin assigned => queue'[q] = <<>>
    BY <1>1, <1>8, <1>11 DEF Placed
  <2> QED BY <1>1, <1>10, <2>1, <2>2, <2>3 DEF Fetch, Placed
<1>14. Delivered'
  BY <1>1 DEF Fetch, Delivered
<1>15. Keyed'
  <2>1. lastTs[p] <= ts + Gap
    BY <1>1, <1>4 DEF Keyed, ts
  <2>2. ts + Slack < now
    BY <1>1, <1>4 DEF InRange, ts
  <2>3. key + Slack < now /\ key <= ts + Gap
    <3>1. lastTs[p] # NoTime => lastTs[p] + Slack < now
      BY <1>1 DEF Keyed
    <3>2. key = lastTs[p] => lastTs[p] # NoTime
      BY <1>6 DEF NoTime
    <3> QED BY <1>2, <1>5, <1>6, <2>1, <2>2, <3>1, <3>2
  <2>4. \A n \in pos[p] + 2 .. Len(log[p]) : key <= log[p][n] + Gap
    <3> TAKE n \in pos[p] + 2 .. Len(log[p])
    <3>1. n \in 1 .. Len(log[p]) /\ pos[p] + 1 < n /\ n \in pos[p] + 1 .. Len(log[p])
      BY <1>3
    <3>2. ts <= log[p][n] + Gap
      BY <1>1, <1>4, <3>1, SameOrder DEF ts
    <3>3. lastTs[p] <= log[p][n] + Gap
      BY <1>1, <3>1 DEF Keyed
    <3> QED BY <1>6, <3>2, <3>3
  <2>5. \A k \in 1 .. Len(queue'[p]) :
          /\ log[p][Gone(p) + k] <= queue'[p][k] /\ queue'[p][k] <= log[p][Gone(p) + k] + Gap
          /\ queue'[p][k] <= key
          /\ \A j \in 1 .. k : queue'[p][j] <= queue'[p][k]
    <3> TAKE k \in 1 .. Len(queue'[p])
    <3>1. CASE k \in 1 .. Len(queue[p])
      <4>1. /\ log[p][Gone(p) + k] <= queue[p][k] /\ queue[p][k] <= log[p][Gone(p) + k] + Gap
            /\ queue[p][k] <= lastTs[p] /\ queue[p][k] \in Nat
            /\ \A j \in 1 .. k : queue[p][j] <= queue[p][k]
        BY <1>1, <3>1, OfPartition DEF Keyed
      <4>2. \A j \in 1 .. k : queue'[p][j] = queue[p][j]
        <5>1. \A j \in 1 .. k : j \in 1 .. Len(queue[p])
          BY <3>1
        <5> QED BY <1>9, <5>1
      <4>3. queue'[p][k] = queue[p][k]
        BY <1>9, <3>1
      <4>4. queue[p][k] <= key
        BY <1>5, <1>6, <4>1
      <4> QED BY <4>1, <4>2, <4>3, <4>4
    <3>2. CASE k = Len(queue[p]) + 1
      <4>1. Gone(p) + k = pos[p] + 1 /\ queue'[p][k] = key
        BY <1>3, <1>9, <3>2
      <4>2. log[p][Gone(p) + k] = ts
        BY <4>1 DEF ts
      <4>3. \A j \in 1 .. k : queue'[p][j] <= key
        <5> TAKE j \in 1 .. k
        <5>1. CASE j = k
          BY <1>6, <4>1, <5>1
        <5>2. CASE j # k
          <6>1. j \in 1 .. Len(queue[p])
            BY <1>3, <3>2, <5>2
          <6>2. queue'[p][j] = queue[p][j] /\ queue[p][j] <= lastTs[p] /\ queue[p][j] \in Nat
            BY <1>1, <1>9, <6>1, OfPartition DEF Keyed
          <6> QED BY <1>5, <1>6, <6>2
        <5> QED BY <5>1, <5>2
      <4> QED BY <1>6, <2>3, <4>1, <4>2, <4>3
    <3> QED BY <1>3, <1>9, <3>1, <3>2
  <2>6. ASSUME NEW q \in Partition
        PROVE  /\ lastTs'[q] # NoTime => lastTs'[q] + Slack < now
               /\ \A n \in pos'[q] + 1 .. Len(log[q]) : lastTs'[q] <= log[q][n] + Gap
               /\ \A k \in 1 .. Len(queue'[q]) :
                    /\ log[q][Gone(q) + k] <= queue'[q][k] /\ queue'[q][k] <= log[q][Gone(q) + k] + Gap
                    /\ queue'[q][k] <= lastTs'[q]
                    /\ \A j \in 1 .. k : queue'[q][j] <= queue'[q][k]
    <3>1. CASE q # p
      <4>1. lastTs'[q] = lastTs[q] /\ pos'[q] = pos[q] /\ queue'[q] = queue[q]
        BY <1>8, <3>1
      <4> QED BY <1>1, <4>1, Zenon DEF Keyed
    <3>2. CASE q = p
      <4>1. lastTs'[q] = key /\ pos'[q] + 1 = pos[p] + 2
        BY <1>3, <1>8, <3>2
      <4> QED BY <2>3, <2>4, <2>5, <3>2, <4>1, Zenon
    <3> QED BY <3>1, <3>2, Zenon
  <2> QED BY <1>2, <1>10, <2>6 DEF Fetch, Keyed
<1>16. InRange'
  BY <1>1, <1>2, <1>10 DEF Fetch, InRange
<1>17. Handled' = Handled
  BY DEF Fetch, Handled, InBatch
<1>18. Settled'
  BY <1>1, <1>10, <1>17 DEF Fetch, Settled
<1>19. Merged'
  BY <1>1, <1>2, <1>17 DEF Fetch, Merged, SentAt, InLog
<1> QED BY <1>12, <1>13, <1>14, <1>15, <1>16, <1>18, <1>19 DEF OrderInv

LEMMA ApplyPausesKeeps == ASSUME OrderInv, ApplyPauses PROVE OrderInv'
<1> USE DEF kafkaVars, producerVars, historyVars, bufferVars, pauseVars, rangeVars
<1>1. Typed /\ Placed /\ Delivered
  BY DEF OrderInv
<1>2. Typed'
  <2>1. paused' \subseteq Partition
    BY <1>1 DEF ApplyPauses, Ahead, Buffered, Typed
  <2>2. backpressure' \in BOOLEAN
    <3>1. backpressure' = Pressure
      BY DEF ApplyPauses
    <3>2. Pressure \in BOOLEAN
      BY Zenon DEF Pressure
    <3> QED BY <3>1, <3>2, Zenon
  <2> QED BY <1>1, <2>1, <2>2 DEF ApplyPauses, Typed
<1>3. Placed' /\ Delivered'
  BY <1>1 DEF ApplyPauses, Placed, Delivered, Gone
<1>4. now <= now'
  BY <1>1 DEF ApplyPauses, Typed
<1> QED BY <1>2, <1>3, <1>4, Quiet DEF ApplyPauses

\* What is released is older than everything that may come after it, but for the
\* gap: the partitions with a buffered record have a younger one first, and the dry
\* ones have nothing left before the cutoff.
LEMMA FirstIs ==
  ASSUME OrderInv, NEW p \in Partition, IsFirst(p), Safe(p),
         NEW r \in InLog \ Handled
  PROVE  SentAt(<<p, Gone(p) + 1>>) <= SentAt(r) + Gap
<1> DEFINE h == Head(queue[p])
           g == r[1]
           n == r[2]
<1>1. Typed /\ Placed /\ Delivered /\ Keyed /\ InRange /\ Settled /\ Merged
  BY DEF OrderInv
<1>2. Gap \in Nat
  BY <1>1, Numbers
<1>3. /\ r = <<g, n>> /\ g \in Partition /\ n \in 1 .. Len(log[g]) /\ SentAt(r) = log[g][n] /\ log[g][n] \in Nat
  <2>1. r \in Record /\ n <= Len(log[g])
    BY DEF InLog
  <2>2. r = <<g, n>> /\ g \in Partition /\ n \in Nat /\ n >= 1
    BY <2>1 DEF Record
  <2>3. n \in 1 .. Len(log[g])
    BY <1>1, <2>1, <2>2, Places
  <2> QED BY <1>1, <2>2, <2>3, OfPartition DEF SentAt
<1>4. Gone(g) < n
  <2>1. ~(n \in 1 .. Gone(g))
    BY <1>1, <1>3 DEF Settled
  <2> QED BY <1>1, <1>3, <2>1, Places
<1> HIDE DEF g, n
<1>5. queue[p] # <<>> /\ p \in assigned
  BY DEF IsFirst, Buffered, Dry
<1>6. /\ Len(queue[p]) \in Nat /\ Len(queue[p]) >= 1 /\ h = queue[p][1] /\ h \in Nat
  <2>1. queue[p] \in Seq(Nat)
    BY <1>1, OfPartition
  <2> QED BY <1>5, <2>1
<1>7. /\ Gone(p) + 1 \in 1 .. Len(log[p]) /\ Gone(p) + 1 \in Gone(p) + 1 .. end[p]
  BY <1>1, <1>6, Places
<1>8. SentAt(<<p, Gone(p) + 1>>) = log[p][Gone(p) + 1] /\ log[p][Gone(p) + 1] \in Nat
  BY <1>1, <1>7, OfPartition DEF SentAt
<1>9. log[p][Gone(p) + 1] <= h
  <2>1. 1 \in 1 .. Len(queue[p])
    BY <1>6
  <2> QED BY <1>1, <1>6, <2>1 DEF Keyed
<1> HIDE DEF h
<1>10. ASSUME queue[g] # <<>>, g \in assigned
       PROVE  /\ Len(queue[g]) \in Nat /\ Len(queue[g]) >= 1
              /\ queue[g][1] \in Nat /\ h <= queue[g][1]
  <2>1. queue[g] \in Seq(Nat)
    BY <1>1, <1>3, OfPartition
  <2>2. Len(queue[g]) \in Nat /\ Len(queue[g]) >= 1 /\ Head(queue[g]) = queue[g][1] /\ queue[g][1] \in Nat
    BY <1>10, <2>1
  <2>3. g \in Buffered
    BY <1>3, <1>10 DEF Buffered, Dry
  <2>4. h < Head(queue[g]) \/ h = Head(queue[g])
    BY <2>3 DEF IsFirst, h
  <2> QED BY <1>6, <2>2, <2>4
<1>11. CASE end[g] < n
  <2>1. n \in end[g] + 1 .. Len(log[g])
    BY <1>1, <1>3, <1>11, Places
  <2> QED BY <1>1, <1>3, <1>7, <1>8, <2>1 DEF InRange
<1>12. CASE pos[g] < n /\ n <= end[g]
  <2>1. g \notin exhausted /\ g \in assigned
    <3>1. pos[g] # end[g]
      BY <1>1, <1>3, <1>12, Places
    <3>2. g \in exhausted \cup (Partition \ assigned) => pos[g] = end[g]
      BY <1>1, <1>3 DEF Placed
    <3> QED BY <1>3, <3>1, <3>2
  <2>2. queue[g] # <<>>
    BY <2>1 DEF Safe, Dry
  <2>3. h <= queue[g][1] /\ queue[g][1] \in Nat /\ 1 \in 1 .. Len(queue[g])
    BY <1>10, <2>1, <2>2
  <2>4. queue[g][1] <= lastTs[g] /\ lastTs[g] \in Int
    BY <1>1, <1>3, <2>3, OfPartition DEF Keyed
  <2>5. n \in pos[g] + 1 .. Len(log[g])
    BY <1>1, <1>3, <1>12, Places
  <2>6. lastTs[g] <= log[g][n] + Gap
    BY <1>1, <1>3, <2>5 DEF Keyed
  <2>7. /\ log[p][Gone(p) + 1] \in Int /\ h \in Int /\ queue[g][1] \in Int /\ lastTs[g] \in Int
        /\ log[g][n] + Gap \in Int
    BY <1>2, <1>3, <1>6, <1>8, <2>3, <2>4
  <2>8. log[p][Gone(p) + 1] <= log[g][n] + Gap
    BY <1>9, <2>3, <2>4, <2>6, <2>7, Chain, Zenon
  <2> QED BY <1>3, <1>8, <2>8
<1>13. CASE n <= pos[g]
  <2>1. PICK k : k = n - Gone(g)
    OBVIOUS
  <2>2. k \in 1 .. Len(queue[g]) /\ Gone(g) + k = n
    BY <1>1, <1>3, <1>4, <1>13, <2>1, Places
  <2>3. queue[g] # <<>> /\ g \in assigned
    <3>1. queue[g] # <<>>
      BY <2>2
    <3> QED BY <1>1, <1>3, <3>1 DEF Placed
  <2>4. h <= queue[g][1] /\ queue[g][1] \in Nat
    BY <1>10, <2>3
  <2>5. queue[g][1] <= queue[g][k] /\ queue[g][k] <= log[g][n] + Gap /\ queue[g][k] \in Nat
    <3>1. 1 \in 1 .. k
      BY <2>2
    <3> QED BY <1>1, <1>3, <2>2, <3>1, OfPartition DEF Keyed
  <2>6. /\ log[p][Gone(p) + 1] \in Int /\ h \in Int /\ queue[g][1] \in Int /\ queue[g][k] \in Int
        /\ log[g][n] + Gap \in Int
    <3>1. log[g][n] + Gap \in Int
      BY <1>2, <1>3
    <3>2. queue[g][1] \in Int /\ queue[g][k] \in Int
      BY <2>4, <2>5
    <3> QED BY <1>6, <1>8, <3>1, <3>2
  <2>7. log[p][Gone(p) + 1] <= log[g][n] + Gap
    BY <1>9, <2>4, <2>5, <2>6, Chain, Zenon
  <2> QED BY <1>3, <1>8, <2>7
<1>14. end[g] < n \/ (pos[g] < n /\ n <= end[g]) \/ n <= pos[g]
  BY <1>1, <1>3, Places
<1> QED BY <1>11, <1>12, <1>13, <1>14

LEMMA ReleaseKeeps == ASSUME OrderInv, NEW p \in Partition, Release(p) PROVE OrderInv'
<1> USE DEF kafkaVars, producerVars, historyVars, bufferVars, pauseVars, rangeVars
<1> DEFINE x == <<p, Gone(p) + 1>>
<1>1. Typed /\ Placed /\ Delivered /\ Keyed /\ InRange /\ Settled /\ Merged
  BY DEF OrderInv
<1>2. /\ now \in Nat /\ Slack \in Nat /\ Gap \in Nat /\ Gap' = Gap
  BY <1>1, Numbers, SameGap DEF Release
<1>3. IsFirst(p) /\ Safe(p) /\ queue[p] # <<>> /\ p \in assigned
  BY DEF Release, MayRelease, IsFirst, Buffered, Dry
<1>4. /\ queue[p] \in Seq(Nat) /\ Len(queue[p]) \in Nat /\ Len(queue[p]) >= 1
      /\ queue[p][1] \in Nat /\ Head(queue[p]) = queue[p][1]
  <2>1. queue[p] \in Seq(Nat)
    BY <1>1, OfPartition
  <2> QED BY <1>3, <2>1
<1>5. /\ pos[p] \in Nat /\ end[p] \in Nat /\ Gone(p) \in Nat /\ Len(log[p]) \in Nat
      /\ Gone(p) + Len(queue[p]) = pos[p] /\ pos[p] <= end[p] /\ end[p] <= Len(log[p])
      /\ committed[p] <= Gone(p) /\ committed[p] \in Nat
  BY <1>1, Places
<1>6. \A q \in Partition : queue'[q] = IF q = p THEN Tail(queue[p]) ELSE queue[q]
  BY <1>1 DEF Release, Typed
<1>7. /\ queue'[p] \in Seq(Nat) /\ Len(queue'[p]) = Len(queue[p]) - 1
      /\ \A k \in 1 .. Len(queue'[p]) : queue'[p][k] = queue[p][k + 1]
  <2>1. queue'[p] = Tail(queue[p])
    BY <1>6
  <2> QED BY <1>3, <1>4, <2>1
<1>8. Gone(p)' = Gone(p) + 1 /\ \A q \in Partition : q # p => Gone(q)' = Gone(q)
  <2>1. pos' = pos
    BY DEF Release
  <2>2. \A a, b \in Int : a - (b - 1) = (a - b) + 1
    OBVIOUS
  <2>3. pos[p] \in Int /\ Len(queue[p]) \in Int
    BY <1>4, <1>5
  <2>4. pos[p] - (Len(queue[p]) - 1) = Gone(p) + 1
    BY <2>2, <2>3, Zenon DEF Gone
  <2>5. Gone(p)' = Gone(p) + 1
    BY <1>7, <2>1, <2>4 DEF Gone
  <2> QED BY <1>6, <2>1, <2>5 DEF Gone
<1>9. /\ Gone(p) + 1 \in 1 .. Len(log[p]) /\ Gone(p) + 1 \in Gone(p) + 1 .. end[p]
  BY <1>4, <1>5
<1>10. x \in Record /\ x \in InLog
  <2>1. Len(flying[p]) + Len(log[p]) <= MaxLen /\ Len(flying[p]) \in Nat /\ MaxLen \in Nat
    BY <1>1, OfPartition, OrderAssumption DEF Placed
  <2>2. \A a, b, c \in Nat : a + b <= c => b <= c
    OBVIOUS
  <2>3. Len(log[p]) <= MaxLen
    BY <1>5, <2>1, <2>2, Zenon
  <2>4. Gone(p) + 1 \in 1 .. MaxLen /\ Gone(p) + 1 <= Len(log[p])
    BY <1>5, <1>9, <2>1, <2>3
  <2> QED BY <2>4 DEF Record, InLog
<1>11. SentAt(x) = log[p][Gone(p) + 1] /\ SentAt(x) \in Nat /\ SentAt(x) + Slack < now
  BY <1>1, <1>9, OfPartition DEF SentAt, InRange
<1>12. batch' = Append(batch, x) /\ batch \in Seq(Record)
  <2>1. pos[p] - Len(queue[p]) + 1 = Gone(p) + 1
    BY DEF Gone
  <2> QED BY <1>1, <2>1 DEF Release, Typed
<1> HIDE DEF x
<1>13. /\ batch' \in Seq(Record) /\ Len(batch') = Len(batch) + 1 /\ Len(batch) \in Nat
       /\ batch'[Len(batch) + 1] = x /\ \A k \in 1 .. Len(batch) : batch'[k] = batch[k]
  BY <1>10, <1>12
<1>14. \A k \in 1 .. Len(batch') : k \in 1 .. Len(batch) \/ k = Len(batch) + 1
  BY <1>13
<1>15. InBatch' = InBatch \cup {x} /\ Handled' = Handled \cup {x}
  <2>1. InBatch' \subseteq InBatch \cup {x}
    BY <1>13, <1>14 DEF InBatch
  <2>2. InBatch \subseteq InBatch'
    <3>1. \A k \in 1 .. Len(batch) : k \in 1 .. Len(batch')
      BY <1>13
    <3> QED BY <1>13, <3>1 DEF InBatch
  <2>3. x \in InBatch'
    <3>1. Len(batch) + 1 \in 1 .. Len(batch')
      BY <1>13
    <3> QED BY <1>13, <3>1 DEF InBatch
  <2>4. InBatch' = InBatch \cup {x}
    BY <2>1, <2>2, <2>3
  <2> QED BY <2>4 DEF Handled, Release
<1>16. Typed'
  <2>1. queue' \in [Partition -> Seq(Nat)]
    <3>1. queue' = [queue EXCEPT ![p] = Tail(queue[p])] /\ Tail(queue[p]) \in Seq(Nat)
      BY <1>3, <1>4 DEF Release
    <3> QED BY <1>1, <3>1 DEF Typed
  <2>2. releasedHigh' \in Nat \cup {NoTime}
    BY <1>1, <1>4 DEF Release, Later, Typed
  <2> QED BY <1>1, <1>13, <2>1, <2>2 DEF Release, Typed
<1>17. Placed'
  <2>1. \A q \in Partition : committed[q] <= Gone(q)'
    <3> TAKE q \in Partition
    <3>1. committed[q] <= Gone(q)
      BY <1>1 DEF Placed
    <3> QED BY <1>5, <1>8, <3>1
  <2>2. \A q \in Partition : q \notin assigned => queue'[q] = <<>>
    BY <1>1, <1>3, <1>6 DEF Placed
  <2>3. \A q \in Partition : \A k \in 1 .. Len(batch') : batch'[k][1] = q => batch'[k][2] <= Gone(q)'
    <3> TAKE q \in Partition
    <3> TAKE k \in 1 .. Len(batch')
    <3>1. CASE k \in 1 .. Len(batch)
      <4>1. batch'[k] = batch[k] /\ batch[k] \in Record
        BY <1>12, <1>13, <3>1
      <4>2. batch[k][1] = q => batch[k][2] <= Gone(q)
        BY <1>1, <3>1 DEF Placed
      <4>3. batch[k][2] \in Nat
        BY <4>1 DEF Record
      <4> QED BY <1>5, <1>8, <4>1, <4>2, <4>3
    <3>2. CASE k = Len(batch) + 1
      BY <1>5, <1>8, <1>13, <3>2 DEF x
    <3> QED BY <1>14, <3>1, <3>2
  <2> QED BY <1>1, <2>1, <2>2, <2>3 DEF Release, Placed
<1>18. Delivered'
  BY <1>1 DEF Release, Delivered

<1>19. Keyed'
  <2>1. ASSUME NEW q \in Partition, NEW k \in 1 .. Len(queue'[q])
        PROVE  /\ log[q][Gone(q)' + k] <= queue'[q][k] /\ queue'[q][k] <= log[q][Gone(q)' + k] + Gap
               /\ queue'[q][k] <= lastTs[q]
               /\ \A j \in 1 .. k : queue'[q][j] <= queue'[q][k]
    <3>1. CASE q # p
      <4>1. queue'[q] = queue[q] /\ Gone(q)' = Gone(q)
        BY <1>6, <1>8, <3>1
      <4> QED BY <1>1, <2>1, <4>1, Zenon DEF Keyed
    <3>2. CASE q = p
      <4>1. PICK m : m = k + 1
        OBVIOUS
      <4>2. m \in 1 .. Len(queue[p]) /\ queue'[p][k] = queue[p][m] /\ Gone(p)' + k = Gone(p) + m
        <5>1. k \in 1 .. Len(queue'[p]) /\ Len(queue'[p]) = Len(queue[p]) - 1
          BY <1>7, <2>1, <3>2
        <5>2. m \in 1 .. Len(queue[p])
          BY <1>4, <4>1, <5>1
        <5>3. queue'[p][k] = queue[p][m]
          BY <1>7, <4>1, <5>1
        <5>4. (Gone(p) + 1) + k = Gone(p) + m
          BY <1>5, <4>1, <5>1
        <5> QED BY <1>8, <5>2, <5>3, <5>4
      <4>3. /\ log[p][Gone(p) + m] <= queue[p][m] /\ queue[p][m] <= log[p][Gone(p) + m] + Gap
            /\ queue[p][m] <= lastTs[p]
            /\ \A j \in 1 .. m : queue[p][j] <= queue[p][m]
        BY <1>1, <4>2 DEF Keyed
      <4>4. \A j \in 1 .. k : queue'[p][j] = queue[p][j + 1] /\ j + 1 \in 1 .. m
        <5>1. k \in 1 .. Len(queue'[p]) /\ Len(queue'[p]) \in Nat
          BY <1>4, <1>7, <2>1, <3>2
        <5> TAKE j \in 1 .. k
        <5>2. j \in 1 .. Len(queue'[p])
          BY <5>1
        <5>3. queue'[p][j] = queue[p][j + 1]
          BY <1>7, <5>2
        <5>4. j + 1 \in 1 .. m
          BY <4>1, <5>1
        <5> QED BY <5>3, <5>4
      <4>5. \A j \in 1 .. k : queue'[p][j] <= queue[p][m]
        BY <4>3, <4>4
      <4> QED BY <3>2, <4>2, <4>3, <4>5
    <3> QED BY <3>1, <3>2
  <2> QED BY <1>1, <1>2, <2>1 DEF Release, Keyed
<1>20. InRange'
  <2>1. \A q \in Partition : \A m \in Gone(q)' + 1 .. end[q] : m \in Gone(q) + 1 .. end[q]
    <3> TAKE q \in Partition
    <3>1. Gone(q) \in Nat /\ end[q] \in Nat /\ (Gone(q)' = Gone(q) \/ Gone(q)' = Gone(q) + 1)
      BY <1>1, <1>8, Places
    <3> QED BY <3>1
  <2> QED BY <1>1, <1>2, <2>1 DEF Release, InRange
<1>21. Settled'
  <2>1. \A q \in Partition : \A n \in 1 .. Gone(q)' : <<q, n>> \in Handled'
    <3> TAKE q \in Partition
    <3> TAKE n \in 1 .. Gone(q)'
    <3>1. CASE n \in 1 .. Gone(q)
      BY <1>1, <1>15, <3>1 DEF Settled
    <3>2. CASE q = p /\ n = Gone(p) + 1
      BY <1>15, <3>2 DEF x
    <3> QED BY <1>5, <1>8, <3>1, <3>2
  <2> QED BY <1>1, <2>1 DEF Release, Settled
<1>22. Merged'
  <2>1. x \notin InBatch
    <3>1. \A k \in 1 .. Len(batch) : batch[k][1] = p => batch[k][2] <= Gone(p)
      BY <1>1 DEF Placed
    <3>2. ~(Gone(p) + 1 <= Gone(p))
      BY <1>5
    <3> QED BY <3>1, <3>2 DEF InBatch, x
  <2>2. \A r \in InLog \ Handled : SentAt(x) <= SentAt(r) + Gap
    BY <1>3, FirstIs DEF x
  <2>3. \A q \in Handled', r \in InLog \ Handled' : SentAt(q) <= SentAt(r) + Gap
    BY <1>1, <1>15, <2>2 DEF Merged
  <2>4. \A r \in Handled' : r \in InLog /\ SentAt(r) + Slack < now
    BY <1>1, <1>10, <1>11, <1>15 DEF Merged
  <2>5. ASSUME NEW k \in 1 .. Len(batch'), batch'[k] \notin applied
        PROVE  /\ \A q \in applied : SentAt(q) <= SentAt(batch'[k]) + Gap
               /\ \A j \in 1 .. k - 1 : SentAt(batch'[j]) <= SentAt(batch'[k]) + Gap
    <3>1. \A j \in 1 .. k - 1 : j \in 1 .. Len(batch)
      BY <1>13
    <3>2. CASE k \in 1 .. Len(batch)
      <4>1. batch'[k] = batch[k]
        BY <1>13, <3>2
      <4>2. /\ \A q \in applied : SentAt(q) <= SentAt(batch[k]) + Gap
            /\ \A j \in 1 .. k - 1 : SentAt(batch[j]) <= SentAt(batch[k]) + Gap
        BY <1>1, <2>5, <3>2, <4>1 DEF Merged
      <4> QED BY <1>13, <3>1, <4>1, <4>2
    <3>3. CASE k = Len(batch) + 1
      <4>1. batch'[k] = x
        BY <1>13, <3>3
      <4>2. x \in InLog \ Handled
        BY <1>10, <2>1, <2>5, <4>1 DEF Handled
      <4>3. \A q \in Handled : SentAt(q) <= SentAt(x) + Gap
        BY <1>1, <4>2 DEF Merged
      <4>4. \A j \in 1 .. k - 1 : batch'[j] \in Handled
        BY <1>13, <3>1 DEF Handled, InBatch
      <4> QED BY <4>1, <4>3, <4>4 DEF Handled
    <3> QED BY <1>14, <3>2, <3>3
  <2>6. InLog' = InLog
    BY DEF Release, InLog
  <2> QED BY <1>1, <1>2, <2>3, <2>4, <2>5, <2>6 DEF Release, Merged, SentAt
<1> QED BY <1>16, <1>17, <1>18, <1>19, <1>20, <1>21, <1>22 DEF OrderInv

\* Applying the batch breaks the order by no more than the gap.
LEMMA AppliedIs ==
  ASSUME OrderInv, Applied
  PROVE  applied' = Handled /\ worst' \in Int /\ 0 <= worst' /\ worst' <= Gap
<1>1. Typed /\ Merged /\ Gap \in Nat /\ worst \in Int
  <2>1. Typed
    BY DEF OrderInv
  <2> QED BY <2>1, Numbers DEF OrderInv, Typed
<1>2. \A r \in Handled : SentAt(r) \in Int
  <2> TAKE r \in Handled
  <2>1. r \in Record /\ r[2] <= Len(log[r[1]])
    BY <1>1 DEF Merged, InLog
  <2>2. r[1] \in Partition /\ r[2] \in Nat /\ r[2] >= 1
    BY <2>1 DEF Record
  <2>3. Len(log[r[1]]) \in Nat
    BY <1>1, <2>2, OfPartition
  <2>4. r[2] \in 1 .. Len(log[r[1]])
    BY <2>1, <2>2, <2>3
  <2> QED BY <1>1, <2>2, <2>4, OfPartition DEF SentAt
<1>3. \A t \in Lateness : t \in Int /\ t <= Gap
  <2> TAKE t \in Lateness
  <2>1. PICK n \in 1 .. Len(batch) : batch[n] \notin applied /\ \E q \in Before(n) : t = SentAt(q) - SentAt(batch[n])
    BY DEF Lateness
  <2>2. PICK q \in Before(n) : t = SentAt(q) - SentAt(batch[n])
    BY <2>1
  <2>3. SentAt(q) <= SentAt(batch[n]) + Gap
    BY <1>1, <2>1, <2>2 DEF Merged, Before
  <2>4. \A k \in 1 .. n - 1 : k \in 1 .. Len(batch)
    BY <1>1 DEF Typed
  <2>5. q \in Handled /\ batch[n] \in Handled
    BY <2>4 DEF Before, Handled, InBatch
  <2> QED BY <1>1, <1>2, <2>2, <2>3, <2>5
<1>4. {worst} \cup Lateness \subseteq Int /\ \A t \in {worst} \cup Lateness : t <= Gap
  BY <1>1, <1>3 DEF Merged
<1>5. /\ Highest({worst} \cup Lateness) \in {worst} \cup Lateness
      /\ worst <= Highest({worst} \cup Lateness)
  BY <1>1, <1>4, HighestIs
<1>6. worst' = Highest({worst} \cup Lateness) /\ applied' = Handled
  BY DEF Applied, Handled
<1>7. worst' \in Int /\ worst' <= Gap /\ worst <= worst'
  BY <1>4, <1>5, <1>6
<1> QED BY <1>1, <1>6, <1>7 DEF Merged

\* The offsets committed for a batch are those of records that have left the buffer.
LEMMA CommitIs ==
  ASSUME OrderInv, Process, NEW p \in Partition
  PROVE  committed'[p] \in Nat /\ committed[p] <= committed'[p] /\ committed'[p] <= Gone(p)
<1> DEFINE S == {committed[p]} \cup {r[2] : r \in {b \in InBatch : b[1] = p}}
<1>1. Typed /\ Placed
  BY DEF OrderInv
<1>2. committed[p] \in Nat /\ Gone(p) \in Nat /\ committed[p] <= Gone(p)
  BY <1>1, Places
<1>3. \A t \in S : t \in Nat /\ t <= Gone(p)
  <2> TAKE t \in S
  <2>1. CASE t = committed[p]
    BY <1>2, <2>1
  <2>2. CASE t # committed[p]
    <3>1. PICK b \in InBatch : b[1] = p /\ t = b[2]
      BY <2>2
    <3>2. PICK k \in 1 .. Len(batch) : b = batch[k]
      BY DEF InBatch
    <3>3. b \in Record
      BY <1>1, <3>2 DEF Typed
    <3>4. b[2] \in Nat
      BY <3>3 DEF Record
    <3>5. b[2] <= Gone(p)
      BY <1>1, <3>1, <3>2 DEF Placed
    <3> QED BY <3>1, <3>4, <3>5
  <2> QED BY <2>1, <2>2
<1>4. S \subseteq Int /\ S # {} /\ committed[p] \in S
  BY <1>3
<1>5. committed'[p] = Highest(S)
  BY DEF Process
<1> HIDE DEF S
<1>6. Highest(S) \in S /\ committed[p] <= Highest(S)
  <2>1. Gone(p) \in Int /\ \A t \in S : t <= Gone(p)
    BY <1>2, <1>3
  <2>2. Highest(S) \in S /\ \A t \in S : t <= Highest(S)
    BY <1>4, <2>1, HighestIs
  <2> QED BY <1>4, <2>2
<1> QED BY <1>3, <1>5, <1>6

\* A batch has been applied, or nothing has.
Progress ==
  /\ \/ applied' = applied /\ worst' = worst /\ committed' = committed
     \/ applied' = Handled /\ worst' \in Int /\ 0 <= worst' /\ worst' <= Gap
  /\ committed' \in [Partition -> Nat]
  /\ \A p \in Partition : committed[p] <= committed'[p] /\ committed'[p] <= Gone(p)
  /\ \A p \in Partition : \A n \in 1 .. committed'[p] : <<p, n>> \in applied'

\* With the batch settled or given up, what is not applied is still no older, but
\* for the gap.
LEMMA SettledKeeps ==
  ASSUME OrderInv, Progress, UNCHANGED <<now, slow, log>>, batch' = <<>>,
         applied' = Handled \/ \A p \in Partition : Gone(p)' = committed'[p],
         \A p \in Partition : Gone(p)' = Gone(p) \/ Gone(p)' = committed'[p]
  PROVE  Settled' /\ Merged'
<1>1. Typed /\ Placed /\ Settled /\ Merged
  BY DEF OrderInv
<1>2. Handled' = applied' /\ Len(batch') = 0 /\ InLog' = InLog /\ Gap' = Gap
  BY SameGap DEF Handled, InBatch, InLog
<1>3. applied' \subseteq Handled /\ (applied' = applied \/ applied' = Handled)
  BY DEF Progress, Handled
<1>4. Settled'
  <2>1. ASSUME NEW p \in Partition, NEW n \in 1 .. Gone(p)' PROVE <<p, n>> \in applied'
    <3>1. CASE Gone(p)' = committed'[p]
      BY <2>1, <3>1 DEF Progress
    <3>2. CASE Gone(p)' = Gone(p) /\ applied' = Handled
      BY <1>1, <2>1, <3>2 DEF Settled
    <3> QED BY <3>1, <3>2
  <2> QED BY <1>2, <2>1 DEF Settled, Progress
<1>5. Merged'
  <2>1. \A r \in applied' : r \in InLog /\ SentAt(r) + Slack < now
    BY <1>1, <1>3 DEF Merged
  <2>2. \A q \in applied', r \in InLog \ applied' : SentAt(q) <= SentAt(r) + Gap
    <3> TAKE q \in applied', r \in InLog \ applied'
    <3>1. CASE r \in Handled
      <4>1. applied' = applied /\ r \in InBatch
        BY <1>3, <3>1 DEF Handled
      <4>2. PICK k \in 1 .. Len(batch) : r = batch[k]
        BY <4>1 DEF InBatch
      <4> QED BY <1>1, <4>1, <4>2 DEF Merged
    <3>2. CASE r \notin Handled
      BY <1>1, <1>3, <3>2 DEF Merged
    <3> QED BY <3>1, <3>2
  <2>3. 0 <= worst' /\ worst' <= Gap
    BY <1>1 DEF Progress, Merged
  <2> QED BY <1>2, <2>1, <2>2, <2>3 DEF Merged, SentAt
<1> QED BY <1>4, <1>5

\* The loop goes round, with the batch settled or empty.
LEMMA AgainKeeps ==
  ASSUME OrderInv, Progress, applied' = Handled \/ batch = <<>>, Again, UNCHANGED producerVars,
         releasedHigh' = releasedHigh
  PROVE  OrderInv'
<1> USE DEF kafkaVars, producerVars, historyVars, bufferVars, pauseVars, rangeVars
<1>1. Typed /\ Placed /\ Delivered /\ Keyed /\ InRange
  BY DEF OrderInv
<1>2. Gap' = Gap /\ (\A p \in Partition : Gone(p)' = Gone(p)) /\ batch' = <<>>
  BY SameGap DEF Again, Gone
<1>3. batch = <<>> => Handled = applied
  BY DEF Handled, InBatch
<1>4. applied' = Handled
  BY <1>3 DEF Progress
<1>5. Typed'
  <2>1. Handled \subseteq Record /\ worst \in Int
    BY <1>1 DEF Handled, InBatch, Typed
  <2>2. worst' \in Int
    BY <2>1 DEF Progress
  <2>3. taken' \in 0 .. EventsBatch /\ phase' \in {"idle", "fetch", "release", "apply"} /\ batch' \in Seq(Record)
    BY <1>2, OrderAssumption DEF Again
  <2>4. committed' \in [Partition -> Nat]
    BY DEF Progress
  <2> QED BY <1>1, <1>4, <2>1, <2>2, <2>3, <2>4 DEF Again, Typed
<1>6. Placed'
  <2>1. \A k \in 1 .. Len(batch') : FALSE
    BY <1>2
  <2>2. \A p \in Partition : committed'[p] <= Gone(p)
    BY DEF Progress
  <2> QED BY <1>1, <1>2, <2>1, <2>2 DEF Again, Placed
<1>7. Delivered' /\ Keyed' /\ InRange'
  BY <1>1, <1>2 DEF Again, Delivered, Keyed, InRange
<1>8. Settled' /\ Merged'
  BY <1>1, <1>2, <1>4, SettledKeeps DEF Again
<1> QED BY <1>5, <1>6, <1>7, <1>8 DEF OrderInv

\* The cycle ends; what its buffer still holds, later cycles read again.
LEMMA LeaveKeeps ==
  ASSUME OrderInv, Progress, Leave, releasedHigh' = releasedHigh
  PROVE  OrderInv'
<1> USE DEF kafkaVars, producerVars, historyVars, bufferVars, pauseVars, rangeVars
<1>1. Typed /\ Placed /\ Delivered
  BY DEF OrderInv
<1>2. Gap' = Gap /\ batch' = <<>> /\ exhausted' = {} /\ assigned' = {} /\ Gap \in Nat
  BY <1>1, SameGap, Numbers DEF Leave, Cleared
<1>3. \A p \in Partition : /\ end'[p] = committed'[p] /\ pos'[p] = committed'[p] /\ queue'[p] = <<>>
                           /\ Len(queue'[p]) = 0 /\ lastTs'[p] = NoTime
  BY DEF Leave, Cleared
<1>4. \A p \in Partition : committed'[p] \in Nat /\ committed'[p] <= Len(log[p]) /\ Len(log[p]) \in Nat
  <2> TAKE p \in Partition
  <2>1. committed'[p] \in Nat /\ committed'[p] <= Gone(p)
    BY DEF Progress
  <2> QED BY <1>1, <2>1, Places
<1>5. \A p \in Partition : Gone(p)' = committed'[p]
  BY <1>3, <1>4 DEF Gone
<1>6. Typed'
  <2>1. applied' \subseteq Record /\ worst' \in Int
    <3>1. Handled \subseteq Record /\ applied \subseteq Record /\ worst \in Int
      BY <1>1 DEF Handled, InBatch, Typed
    <3> QED BY <3>1 DEF Progress
  <2>2. /\ committed' \in [Partition -> Nat] /\ end' \in [Partition -> Nat] /\ pos' \in [Partition -> Nat]
        /\ queue' \in [Partition -> Seq(Nat)] /\ lastTs' \in [Partition -> Nat \cup {NoTime}]
    BY DEF Leave, Cleared, Progress
  <2>3. assigned' \subseteq Partition /\ exhausted' \subseteq Partition /\ paused' \subseteq Partition
    BY DEF Leave, Cleared
  <2>4. taken' \in 0 .. EventsBatch
    BY OrderAssumption DEF Leave, Cleared
  <2>5. batch' \in Seq(Record) /\ phase' \in {"idle", "fetch", "release", "apply"} /\ backpressure' \in BOOLEAN
    <3>1. batch' = <<>> /\ phase' = "idle" /\ backpressure' = FALSE
      BY DEF Leave, Cleared
    <3>2. batch' \in Seq(Record) /\ phase' \in {"idle", "fetch", "release", "apply"}
      BY <3>1
    <3> QED BY <3>1, <3>2, Zenon
  <2> QED BY <1>1, <2>1, <2>2, <2>3, <2>4, <2>5 DEF Leave, Typed
<1>7. Placed'
  <2> SUFFICES ASSUME NEW p \in Partition
               PROVE  /\ Len(flying[p]) + Len(log[p]) <= MaxLen
                      /\ committed'[p] <= Gone(p)' /\ pos'[p] <= end'[p] /\ end'[p] <= Len(log[p])
                      /\ pos'[p] = end'[p]
                      /\ queue'[p] = <<>> /\ Len(batch') = 0
    <3>1. flying' = flying /\ log' = log
      BY DEF Leave
    <3>2. Len(batch') = 0 => \A k \in 1 .. Len(batch') : FALSE
      OBVIOUS
    <3> QED BY <3>1, <3>2, Zenon DEF Placed
  <2>1. Len(flying[p]) + Len(log[p]) <= MaxLen
    BY <1>1 DEF Placed
  <2>2. Len(batch') = 0 /\ pos'[p] = end'[p] /\ queue'[p] = <<>>
    BY <1>2, <1>3
  <2>3. committed'[p] <= Gone(p)' /\ pos'[p] <= end'[p] /\ end'[p] <= Len(log[p])
    BY <1>3, <1>4, <1>5
  <2> QED BY <2>1, <2>2, <2>3
<1>8. Delivered'
  BY <1>1 DEF Leave, Delivered
<1>9. Keyed'
  <2> SUFFICES ASSUME NEW p \in Partition, NEW n \in committed'[p] + 1 .. Len(log[p])
               PROVE  NoTime <= log[p][n] + Gap
    BY <1>2, <1>3 DEF Leave, Keyed
  <2>1. n \in 1 .. Len(log[p])
    BY <1>4
  <2>2. log[p][n] \in Nat
    BY <1>1, <2>1, OfPartition
  <2> QED BY <1>2, <2>2 DEF NoTime
<1>10. InRange'
  <2>1. \A p \in Partition : \A m \in committed'[p] + 1 .. committed'[p] : FALSE
    BY <1>4
  <2> QED BY <1>3, <1>5, <2>1 DEF InRange
<1>11. Settled' /\ Merged'
  BY <1>2, <1>5, SettledKeeps DEF Leave
<1> QED BY <1>6, <1>7, <1>8, <1>9, <1>10, <1>11 DEF OrderInv

\* A step that applies nothing.
LEMMA NoProgress ==
  ASSUME OrderInv, UNCHANGED <<applied, worst, committed>>
  PROVE  Progress
<1>1. Typed /\ Placed /\ Settled
  BY DEF OrderInv
<1> QED BY <1>1, Places DEF Progress, Settled, Typed

LEMMA ProcessProgress ==
  ASSUME OrderInv, Process
  PROVE  Progress /\ applied' = Handled
<1>1. applied' = Handled /\ worst' \in Int /\ 0 <= worst' /\ worst' <= Gap
  BY AppliedIs DEF Process
<1>2. committed' \in [Partition -> Nat]
  <2>1. \A p \in Partition : committed'[p] \in Nat
    BY CommitIs
  <2> QED BY <2>1 DEF Process
<1>3. \A p \in Partition : committed[p] <= committed'[p] /\ committed'[p] <= Gone(p)
  BY CommitIs
<1>4. ASSUME NEW p \in Partition, NEW n \in 1 .. committed'[p] PROVE <<p, n>> \in applied'
  <2>1. Typed /\ Placed /\ Settled
    BY DEF OrderInv
  <2>2. Gone(p) \in Nat /\ committed'[p] \in Nat /\ committed'[p] <= Gone(p)
    BY <1>2, <1>3, <2>1, Places
  <2>3. n \in 1 .. Gone(p)
    BY <2>2
  <2> QED BY <1>1, <2>1, <2>3 DEF Settled
<1> QED BY <1>1, <1>2, <1>3, <1>4 DEF Progress

LEMMA ProcessKeeps == ASSUME OrderInv, Process PROVE OrderInv'
<1>1. Progress /\ applied' = Handled /\ releasedHigh' = releasedHigh
  BY ProcessProgress DEF Process
<1>2. CASE Done
  BY <1>1, <1>2, LeaveKeeps DEF Process
<1>3. CASE ~Done
  BY <1>1, <1>3, AgainKeeps DEF Process
<1> QED BY <1>2, <1>3

LEMMA ReleasedKeeps == ASSUME OrderInv, Released PROVE OrderInv'
<1> USE DEF kafkaVars, producerVars, historyVars, bufferVars, pauseVars, rangeVars
<1>1. CASE batch # <<>>
  <2>1. Typed /\ Placed /\ Delivered
    BY DEF OrderInv
  <2>2. Typed' /\ Placed' /\ Delivered' /\ now <= now'
    BY <1>1, <2>1 DEF Released, Typed, Placed, Delivered, Gone
  <2> QED BY <1>1, <2>2, Quiet DEF Released
<1>2. CASE batch = <<>> /\ Done
  <2>1. Leave /\ UNCHANGED <<applied, worst, committed, releasedHigh>>
    BY <1>2 DEF Released
  <2> QED BY <2>1, NoProgress, LeaveKeeps
<1>3. CASE batch = <<>> /\ ~Done
  <2>1. Again /\ UNCHANGED producerVars /\ UNCHANGED <<applied, worst, committed, releasedHigh>>
    BY <1>3 DEF Released
  <2> QED BY <1>3, <2>1, NoProgress, AgainKeeps
<1> QED BY <1>1, <1>2, <1>3

LEMMA AbortKeeps == ASSUME OrderInv, Abort PROVE OrderInv'
<1>1. Leave /\ committed' = committed /\ releasedHigh' = releasedHigh
  BY DEF Abort
<1>2. CASE UNCHANGED historyVars
  BY <1>1, <1>2, NoProgress, LeaveKeeps DEF historyVars
<1>3. CASE Applied
  <2>1. applied' = Handled /\ worst' \in Int /\ 0 <= worst' /\ worst' <= Gap
    BY <1>3, AppliedIs
  <2>2. Typed /\ Placed /\ Settled
    BY DEF OrderInv
  <2>3. Progress
    BY <1>1, <2>1, <2>2, Places DEF Progress, Settled, Typed, Handled
  <2> QED BY <1>1, <2>3, LeaveKeeps
<1> QED BY <1>2, <1>3 DEF Abort

LEMMA GiveUpKeeps == ASSUME OrderInv, GiveUp PROVE OrderInv'
BY NoProgress, LeaveKeeps DEF GiveUp, historyVars

LEMMA OrderStep == OrderInv /\ [Next]_vars => OrderInv'
<1> SUFFICES ASSUME OrderInv, [Next]_vars PROVE OrderInv'
  OBVIOUS
<1>1. CASE Tick
  BY <1>1, TickKeeps
<1>2. ASSUME NEW p \in Partition, Send(p) PROVE OrderInv'
  BY <1>2, SendKeeps
<1>3. ASSUME NEW p \in Partition, Fetch(p) PROVE OrderInv'
  BY <1>3, FetchKeeps
<1>4. ASSUME NEW p \in Partition, Release(p) PROVE OrderInv'
  BY <1>4, ReleaseKeeps
<1>5. ASSUME NEW p \in Partition, NEW n \in 1 .. Len(flying[p]), Arrive(p, n) PROVE OrderInv'
  BY <1>5, ArriveKeeps
<1>6. CASE StartCycle
  BY <1>6, StartCycleKeeps
<1>7. CASE ApplyPauses
  BY <1>7, ApplyPausesKeeps
<1>8. CASE Released
  BY <1>8, ReleasedKeeps
<1>9. CASE Process
  BY <1>9, ProcessKeeps
<1>10. CASE Abort
  BY <1>10, AbortKeeps
<1>11. CASE GiveUp
  BY <1>11, GiveUpKeeps
<1>12. CASE UNCHANGED vars
  <2>1. Typed /\ Placed /\ Delivered
    BY DEF OrderInv
  <2>2. Typed' /\ now <= now'
    BY <1>12, <2>1 DEF vars, kafkaVars, producerVars, historyVars, bufferVars, pauseVars, rangeVars, Typed
  <2>3. Placed' /\ Delivered'
    BY <1>12, <2>1 DEF vars, kafkaVars, producerVars, historyVars, bufferVars, pauseVars, rangeVars,
                       Placed, Delivered, Gone
  <2> QED BY <1>12, <2>2, <2>3, Quiet
          DEF vars, kafkaVars, producerVars, historyVars, bufferVars, pauseVars, rangeVars
<1> QED BY <1>1, <1>2, <1>3, <1>4, <1>5, <1>6, <1>7, <1>8, <1>9, <1>10, <1>11, <1>12 DEF Next

LEMMA OrderAlways == Spec => []OrderInv
BY OrderInit, OrderStep, PTL DEF Spec

-----------------------------------------------------------------------------
(* Theorems *)

\* In every behaviour the drain's state is well typed: no record is read past the
\* range of the cycle, committed before it has left the buffer, or counted twice on
\* its way, and what a partition has buffered is sorted (OrderingBuffer.add,
\* IntentIngestor._drain).
THEOREM DrainTyped == Spec => []TypeOK
<1>1. OrderInv => TypeOK
  <2> SUFFICES ASSUME OrderInv PROVE TypeOK
    OBVIOUS
  <2>1. Typed /\ Placed /\ Keyed
    BY DEF OrderInv
  <2>2. \A p \in Partition : \A m, n \in 1 .. Len(queue[p]) : m <= n => queue[p][m] <= queue[p][n]
    <3> TAKE p \in Partition
    <3> TAKE m, n \in 1 .. Len(queue[p])
    <3>1. m <= n => m \in 1 .. n
      BY <2>1, OfPartition
    <3> QED BY <2>1, <3>1 DEF Keyed
  <2> QED BY <2>1, <2>2 DEF Typed, Placed, TypeOK, Gone
<1> QED BY <1>1, OrderAlways, PTL

\* However the partitions are filled and the cycles end, a record is applied after
\* one younger than itself by no more than the longest delivery (OrderingBuffer.release
\* with the cutoff of _offset_bounds).
THEOREM LatenessAlwaysBounded == Spec => []LatenessBounded
<1>1. OrderInv => LatenessBounded
  <2> SUFFICES ASSUME OrderInv PROVE LatenessBounded
    OBVIOUS
  <2>1. Typed /\ worst <= Gap /\ worst \in Int
    BY DEF OrderInv, Merged, Typed
  <2>2. Gap \in Nat /\ Delay \in Nat /\ (Gap = Delay \/ Gap = 0)
    BY <2>1, Numbers
  <2> QED BY <2>1, <2>2 DEF LatenessBounded
<1> QED BY <1>1, OrderAlways, PTL

\* Where every record is in its log within the slack and each partition is in send
\* order, the merge applies all records in send order, across partitions, batches
\* and cycles (OrderingBuffer.release, _offset_bounds).
THEOREM SendOrderKept == Spec => []SendOrder
<1>1. OrderInv => SendOrder
  <2> SUFFICES ASSUME OrderInv, ~slow, ~Disordered PROVE worst = 0
    BY DEF SendOrder, Disordered
  <2>1. 0 <= worst /\ worst <= Gap /\ worst \in Int /\ Gap = 0
    BY DEF OrderInv, Merged, Typed, Gap
  <2> QED BY <2>1
<1> QED BY <1>1, OrderAlways, PTL

=============================================================================
