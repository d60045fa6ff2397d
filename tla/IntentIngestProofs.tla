------------------------- MODULE IntentIngestProofs -------------------------
(***************************************************************************)
(* Proofs about the ingestion cycle: the offset rule, the run lock, the    *)
(* retry loop, the quarantine and the refinement of OffsetLedger, for any  *)
(* workers, partitions, log and bounds.                                    *)
(***************************************************************************)
EXTENDS IntentIngest, TLAPS

-----------------------------------------------------------------------------
(* The inductive invariant *)

\* Retention and the consumer stay behind the end of the log.
LogInOrder == \A p \in Partition : low[p] <= high[p] /\ committed[p] <= high[p]

\* What the worker calls resolved is durable.
ResolvedIsDurable(w) == resolved[w] \subseteq settled \cup dlq

\* Between two batches there is no batch; an idle worker holds nothing.
HandMatchesPhase(w) ==
  /\ phase[w] \in {"idle", "drain"} => batch[w] = {}
  /\ phase[w] = "idle" => buf[w] = {}

\* Every offset the consumer has passed is in its hands or at rest.
NothingSkipped(w) ==
  \A p \in Partition, o \in Offset :
    o < pos[w][p] => <<p, o>> \in buf[w] \cup batch[w] \/ AtRest(<<p, o>>)

\* What is in hand lies behind the fetch position, and the batch before what
\* is still buffered.
HandInOrder(w) ==
  /\ \A r \in buf[w] \cup batch[w] : r[2] < pos[w][r[1]]
  /\ \A r \in batch[w], q \in buf[w] : r[1] = q[1] => r[2] < q[2]

\* Everything a worker looks at has been published.
WithinLog(w) == \A p \in Partition : end[w][p] <= high[p] /\ pos[w][p] <= high[p]

HandInv(w) ==
  /\ ResolvedIsDurable(w)
  /\ HandMatchesPhase(w)
  /\ NothingSkipped(w)
  /\ HandInOrder(w)
  /\ WithinLog(w)

IngestInv ==
  /\ TypeOK
  /\ LogInOrder
  /\ OffsetsCovered
  /\ \A w \in Worker : HandInv(w)

\* An active worker holds the run lock.
ActiveHoldsLock == \A w \in Worker : phase[w] # "idle" => lock = w

\* The committed offset is behind everything an active worker has in hand,
\* except that within a batch it may stand at the end of the leading run.
OffsetBehindHand(w) ==
  phase[w] # "idle" =>
    \A p \in Partition :
      /\ committed[p] <= pos[w][p]
      /\ \A q \in buf[w] : q[1] = p => committed[p] <= q[2]
      /\ \/ \A r \in batch[w] : r[1] = p => committed[p] <= r[2]
         \/ \E o \in Leading(w, p) : committed[p] = o + 1

\* What one cycle at a time adds to IngestInv.
OrderedInv ==
  /\ IngestInv
  /\ ~LockMayDrop => ActiveHoldsLock /\ \A w \in Worker : OffsetBehindHand(w)

-----------------------------------------------------------------------------
(* Facts about the data *)

\* A record is a pair of a partition and an offset.
LEMMA RecordPair ==
  ASSUME NEW r \in Record
  PROVE  r[1] \in Partition /\ r[2] \in Offset /\ r = <<r[1], r[2]>>
BY DEF Record

LEMMA PairRecord ==
  ASSUME NEW p \in Partition, NEW o \in Offset
  PROVE  <<p, o>> \in Record /\ <<p, o>>[1] = p /\ <<p, o>>[2] = o
BY DEF Record

\* Offsets of a partition are natural numbers below MaxLen.
LEMMA OffsetRange == \A o \in Offset : o \in Nat /\ o < MaxLen /\ o + 1 \in 0 .. MaxLen
BY ConstantsAssumption DEF Offset

-----------------------------------------------------------------------------
(* Type correctness *)

LEMMA LeaveTypes ==
  ASSUME TypeOK, NEW w \in Worker, Leave(w)
  PROVE  /\ phase' \in [Worker -> Phase]
         /\ lock' \in Worker \cup {NoWorker}
         /\ end' \in [Worker -> [Partition -> 0 .. MaxLen]]
         /\ pos' \in [Worker -> [Partition -> 0 .. MaxLen]]
         /\ buf' \in [Worker -> SUBSET Record]
         /\ batch' \in [Worker -> SUBSET Record]
         /\ todo' \in [Worker -> SUBSET Brand]
         /\ resolved' \in [Worker -> SUBSET Record]
         /\ spent' \in [Worker -> SUBSET Record]
         /\ faulty' \in [Worker -> BOOLEAN]
         /\ passes' \in [Worker -> 0 .. MaxAttempts]
<1>1. 0 \in 0 .. MaxLen /\ 0 \in 0 .. MaxAttempts /\ "idle" \in Phase
  BY ConstantsAssumption DEF Phase
<1>2. [p \in Partition |-> 0] \in [Partition -> 0 .. MaxLen]
  BY <1>1
<1>3. phase' \in [Worker -> Phase] /\ lock' \in Worker \cup {NoWorker}
  BY <1>1 DEF Leave, TypeOK
<1>4. /\ end' \in [Worker -> [Partition -> 0 .. MaxLen]]
      /\ pos' \in [Worker -> [Partition -> 0 .. MaxLen]]
  BY <1>2 DEF Leave, TypeOK
<1>5. /\ buf' \in [Worker -> SUBSET Record]
      /\ batch' \in [Worker -> SUBSET Record]
      /\ resolved' \in [Worker -> SUBSET Record]
      /\ spent' \in [Worker -> SUBSET Record]
  BY DEF Leave, TypeOK
<1>6. /\ todo' \in [Worker -> SUBSET Brand]
      /\ faulty' \in [Worker -> BOOLEAN]
      /\ passes' \in [Worker -> 0 .. MaxAttempts]
  BY <1>1 DEF Leave, TypeOK
<1> QED BY <1>3, <1>4, <1>5, <1>6

\* Initial states are well typed.
LEMMA InitTypes == Init => TypeOK
<1> SUFFICES ASSUME Init PROVE TypeOK
  OBVIOUS
<1>1. /\ 0 \in 0 .. MaxLen /\ 0 \in 0 .. MaxAttempts /\ 0 \in 0 .. MaxCrashes
      /\ "idle" \in Phase
  BY ConstantsAssumption DEF Phase
<1>2. [p \in Partition |-> 0] \in [Partition -> 0 .. MaxLen]
  BY <1>1
<1>3. [r \in Record |-> 0] \in [Record -> 0 .. MaxAttempts]
  BY <1>1
<1> QED BY <1>1, <1>2, <1>3 DEF Init, TypeOK

\* Every step preserves the types.
LEMMA StepTypes == TypeOK /\ [Next]_vars => TypeOK'
<1> SUFFICES ASSUME TypeOK, [Next]_vars PROVE TypeOK'
  OBVIOUS
<1> USE DEF kafkaVars, mysqlVars, rangeVars, batchVars, memory
<1>1. ASSUME NEW p \in Partition, Produce(p) PROVE TypeOK'
  <2>1. high[p] \in 0 .. MaxLen /\ high[p] < MaxLen
    BY <1>1 DEF Produce, TypeOK
  <2>2. high[p] + 1 \in 0 .. MaxLen
    BY <2>1, ConstantsAssumption
  <2>3. high' \in [Partition -> 0 .. MaxLen]
    BY <1>1, <2>2 DEF Produce, TypeOK
  <2> QED BY <1>1, <2>3 DEF Produce, TypeOK
<1>2. ASSUME NEW p \in Partition, Expire(p) PROVE TypeOK'
  <2>1. low[p] \in 0 .. MaxLen /\ high[p] \in 0 .. MaxLen /\ low[p] < high[p]
    BY <1>2 DEF Expire, TypeOK
  <2>2. low[p] + 1 \in 0 .. MaxLen
    BY <2>1, ConstantsAssumption
  <2>3. low' \in [Partition -> 0 .. MaxLen]
    BY <1>2, <2>2 DEF Expire, TypeOK
  <2> QED BY <1>2, <2>3 DEF Expire, TypeOK
<1>3. CASE DropLock
  BY <1>3 DEF DropLock, TypeOK
<1>4. ASSUME NEW w \in Worker, StartCycle(w) PROVE TypeOK'
  <2>1. [p \in Partition |-> StartOffset(p)] \in [Partition -> 0 .. MaxLen]
    BY DEF StartOffset, TypeOK
  <2>2. PICK stop \in [Partition -> 0 .. MaxLen] : end' = [end EXCEPT ![w] = stop]
    BY <1>4 DEF StartCycle
  <2>3. end' \in [Worker -> [Partition -> 0 .. MaxLen]]
    BY <2>2 DEF TypeOK
  <2>4. pos' \in [Worker -> [Partition -> 0 .. MaxLen]]
    BY <1>4, <2>1 DEF StartCycle, TypeOK
  <2> QED BY <1>4, <2>3, <2>4 DEF StartCycle, TakeLock, TypeOK, Phase
<1>5. ASSUME NEW w \in Worker, NEW p \in Partition, Fetch(w, p) PROVE TypeOK'
  <2> DEFINE o == IF pos[w][p] < low[p] THEN low[p] ELSE pos[w][p]
  <2>1. o \in 0 .. MaxLen
    BY DEF TypeOK
  <2>2. \/ /\ pos' = [pos EXCEPT ![w][p] = o] /\ buf' = buf
        \/ /\ o < end[w][p]
           /\ pos' = [pos EXCEPT ![w][p] = o + 1]
           /\ buf' = [buf EXCEPT ![w] = @ \cup {r \in {<<p, o>>} : KindOf[r] # "control"}]
    BY <1>5 DEF Fetch
  <2>3. o < end[w][p] => o \in Offset /\ o + 1 \in 0 .. MaxLen
    BY <2>1, ConstantsAssumption DEF TypeOK, Offset
  <2> HIDE DEF o
  <2>4. pos' \in [Worker -> [Partition -> 0 .. MaxLen]]
    <3>1. ASSUME NEW n \in 0 .. MaxLen, pos' = [pos EXCEPT ![w][p] = n]
          PROVE  pos' \in [Worker -> [Partition -> 0 .. MaxLen]]
      BY <3>1 DEF TypeOK
    <3> QED BY <2>1, <2>2, <2>3, <3>1
  <2>5. buf' \in [Worker -> SUBSET Record]
    <3>1. buf[w] \subseteq Record
      BY DEF TypeOK
    <3>2. o < end[w][p] =>
            buf[w] \cup {r \in {<<p, o>>} : KindOf[r] # "control"} \subseteq Record
      BY <3>1, <2>3 DEF Record
    <3> QED BY <2>2, <3>2 DEF TypeOK
  <2> QED BY <1>5, <2>4, <2>5 DEF Fetch, TypeOK
<1>6. ASSUME NEW w \in Worker, Release(w) PROVE TypeOK'
  <2>1. PICK S \in SUBSET buf[w] :
           /\ batch' = [batch EXCEPT ![w] = S]
           /\ buf' = [buf EXCEPT ![w] = @ \ S]
           /\ todo' = [todo EXCEPT ![w] = BrandsOf(S)]
    BY <1>6 DEF Release
  <2>2. S \subseteq Record
    BY DEF TypeOK
  <2>3. BrandsOf(S) \subseteq Brand
    BY <2>2, ConstantsAssumption DEF BrandsOf, Parsed
  <2>4. /\ batch' \in [Worker -> SUBSET Record]
        /\ buf' \in [Worker -> SUBSET Record]
        /\ todo' \in [Worker -> SUBSET Brand]
    BY <2>1, <2>2, <2>3 DEF TypeOK
  <2> QED BY <1>6, <2>4 DEF Release, TypeOK, Phase
<1>7. ASSUME NEW w \in Worker, Finish(w) \/ GiveUp(w) PROVE TypeOK'
  <2>1. Leave(w) /\ UNCHANGED <<kafkaVars, settled, memory>>
    BY <1>7 DEF Finish, GiveUp
  <2> QED BY <2>1, LeaveTypes DEF TypeOK
<1>8. ASSUME NEW w \in Worker, NEW b \in Brand, CommitBrand(w, b) PROVE TypeOK'
  <2>1. PICK refused \in SUBSET FragileActor :
          LET items  == Items(w, b)
              failed == Failing(items, refused)
              tries  == [r \in Record |->
                           IF r \in failed
                           THEN IF attempts[w][r] < MaxAttempts
                                THEN attempts[w][r] + 1 ELSE MaxAttempts
                           ELSE IF r \in items THEN 0 ELSE attempts[w][r]]
          IN  /\ settled' = settled \cup (items \ failed)
              /\ resolved' = [resolved EXCEPT ![w] = @ \cup (items \ failed)]
              /\ attempts' = [attempts EXCEPT ![w] = tries]
              /\ spent' = [spent EXCEPT ![w] =
                             @ \cup {r \in failed : tries[r] >= MaxAttempts}]
    BY <1>8 DEF CommitBrand
  <2> DEFINE items == Items(w, b)
             failed == Failing(items, refused)
             tries  == [r \in Record |->
                          IF r \in failed
                          THEN IF attempts[w][r] < MaxAttempts
                               THEN attempts[w][r] + 1 ELSE MaxAttempts
                          ELSE IF r \in items THEN 0 ELSE attempts[w][r]]
  <2>2. items \subseteq Record /\ failed \subseteq items
    BY DEF TypeOK, Items, Parsed, Unresolved, Failing
  <2>3. attempts[w] \in [Record -> 0 .. MaxAttempts]
    BY DEF TypeOK
  <2>4. tries \in [Record -> 0 .. MaxAttempts]
    <3>1. ASSUME NEW r \in Record PROVE tries[r] \in 0 .. MaxAttempts
      <4>1. attempts[w][r] \in 0 .. MaxAttempts
        BY <2>3
      <4> QED BY <4>1, ConstantsAssumption
    <3> QED BY <3>1
  <2> HIDE DEF items, failed, tries
  <2>5. /\ settled' = settled \cup (items \ failed)
        /\ resolved' = [resolved EXCEPT ![w] = @ \cup (items \ failed)]
        /\ attempts' = [attempts EXCEPT ![w] = tries]
        /\ spent' = [spent EXCEPT ![w] = @ \cup {r \in failed : tries[r] >= MaxAttempts}]
    BY <2>1 DEF items, failed, tries
  <2>6. settled' \subseteq Record
    BY <2>2, <2>5 DEF TypeOK
  <2>7. /\ resolved' \in [Worker -> SUBSET Record]
        /\ spent' \in [Worker -> SUBSET Record]
    BY <2>2, <2>5 DEF TypeOK
  <2>8. attempts' \in [Worker -> [Record -> 0 .. MaxAttempts]]
    BY <2>4, <2>5 DEF TypeOK
  <2>9. todo' \in [Worker -> SUBSET Brand]
    BY <1>8 DEF CommitBrand, TypeOK
  <2> QED BY <1>8, <2>6, <2>7, <2>8, <2>9 DEF CommitBrand, TypeOK
<1>9. ASSUME NEW w \in Worker, NEW b \in Brand, AbortBrand(w, b) PROVE TypeOK'
  <2>1. Items(w, b) \subseteq Record
    BY DEF TypeOK, Items, Parsed, Unresolved
  <2>2. settled' \subseteq Record
    BY <1>9, <2>1 DEF AbortBrand, TypeOK
  <2> QED BY <1>9, <2>2 DEF AbortBrand, TypeOK
<1>10. ASSUME NEW w \in Worker, NEW arrived \in SUBSET DlqEntries(w),
              NEW acked \in SUBSET arrived, SendToDlq(w, arrived, acked)
       PROVE  TypeOK'
  <2>1. DlqEntries(w) \subseteq Record
    BY DEF DlqEntries, Unresolved, TypeOK
  <2>2. attempts' \in [Worker -> [Record -> 0 .. MaxAttempts]]
    <3>1. attempts[w] \in [Record -> 0 .. MaxAttempts] /\ 0 \in 0 .. MaxAttempts
      BY ConstantsAssumption DEF TypeOK
    <3>2. [r \in Record |-> IF r \in acked THEN 0 ELSE attempts[w][r]]
             \in [Record -> 0 .. MaxAttempts]
      BY <3>1
    <3> QED BY <1>10, <3>2 DEF SendToDlq, TypeOK
  <2>3. /\ dlq' \subseteq Record
        /\ resolved' \in [Worker -> SUBSET Record]
        /\ spent' \in [Worker -> SUBSET Record]
    BY <1>10, <2>1 DEF SendToDlq, TypeOK
  <2>4. faulty' \in [Worker -> BOOLEAN]
    BY <1>10 DEF SendToDlq, TypeOK
  <2> QED BY <1>10, <2>2, <2>3, <2>4 DEF SendToDlq, TypeOK, Phase
<1>11. ASSUME NEW w \in Worker, CommitOffsets(w) PROVE TypeOK'
  <2>1. committed' \in [Partition -> 0 .. MaxLen]
    BY <1>11 DEF CommitOffsets, OffsetsAdvance
  <2>2. CASE Leave(w)
    BY <1>11, <2>1, <2>2, LeaveTypes DEF CommitOffsets, TypeOK
  <2>3. CASE /\ phase' = [phase EXCEPT ![w] = "drain"]
             /\ batch' = [batch EXCEPT ![w] = {}]
             /\ resolved' = [resolved EXCEPT ![w] = {}]
             /\ faulty' = [faulty EXCEPT ![w] = FALSE]
             /\ passes' = [passes EXCEPT ![w] = 0]
             /\ UNCHANGED <<lock, rangeVars, todo, spent>>
    BY <1>11, <2>1, <2>3, ConstantsAssumption DEF CommitOffsets, TypeOK, Phase
  <2>4. CASE /\ passes[w] < MaxAttempts
             /\ phase' = [phase EXCEPT ![w] = "apply"]
             /\ todo' = [todo EXCEPT ![w] = BrandsOf(Unresolved(w))]
             /\ passes' = [passes EXCEPT ![w] = @ + 1]
             /\ UNCHANGED <<lock, rangeVars, batch, resolved, spent, faulty>>
    <3>1. BrandsOf(Unresolved(w)) \subseteq Brand
      BY ConstantsAssumption DEF BrandsOf, Parsed, Unresolved, TypeOK
    <3>2. passes' \in [Worker -> 0 .. MaxAttempts]
      BY <2>4, ConstantsAssumption DEF TypeOK
    <3> QED BY <1>11, <2>1, <2>4, <3>1, <3>2 DEF CommitOffsets, TypeOK, Phase
  <2> QED BY <1>11, <2>2, <2>3, <2>4 DEF CommitOffsets
<1>12. ASSUME NEW w \in Worker, CommitOffsetsFails(w) PROVE TypeOK'
  <2>1. committed' \in [Partition -> 0 .. MaxLen]
    BY <1>12 DEF CommitOffsetsFails, OffsetsAdvance, TypeOK
  <2> QED BY <1>12, <2>1, LeaveTypes DEF CommitOffsetsFails, TypeOK
<1>13. ASSUME NEW w \in Worker, Crash(w) PROVE TypeOK'
  <2>1. attempts' \in [Worker -> [Record -> 0 .. MaxAttempts]]
    <3>1. [r \in Record |-> 0] \in [Record -> 0 .. MaxAttempts]
      BY ConstantsAssumption
    <3> QED BY <1>13, <3>1 DEF Crash, TypeOK
  <2>2. crashes' \in [Worker -> 0 .. MaxCrashes]
    BY <1>13, ConstantsAssumption DEF Crash, TypeOK
  <2> QED BY <1>13, <2>1, <2>2, LeaveTypes DEF Crash, TypeOK
<1>14. CASE UNCHANGED vars
  BY <1>14 DEF vars, TypeOK
<1> QED
  BY <1>1, <1>2, <1>3, <1>4, <1>5, <1>6, <1>7, <1>8, <1>9, <1>10, <1>11, <1>12, <1>13, <1>14
  DEF Next, Environment, Cycle, Quarantine, QuarantineFails

\* The state of the ingestion cycle is well typed in every reachable state.
THEOREM TypeCorrect == Spec => []TypeOK
BY InitTypes, StepTypes, PTL DEF Spec

-----------------------------------------------------------------------------
(* The offset rule *)

\* Whatever a worker does with its own state, the rest of the system grows.
Growth ==
  /\ \A p \in Partition : low[p] <= low'[p] /\ high[p] <= high'[p]
  /\ settled \subseteq settled'
  /\ dlq \subseteq dlq'

\* A step of another worker leaves v's own state alone.
Untouched(v) ==
  /\ phase'[v] = phase[v]
  /\ end'[v] = end[v]
  /\ pos'[v] = pos[v]
  /\ buf'[v] = buf[v]
  /\ batch'[v] = batch[v]
  /\ resolved'[v] = resolved[v]

\* No step takes anything back from the log, MySQL or the DLQ.
LEMMA StepGrows ==
  ASSUME TypeOK, [Next]_vars
  PROVE  Growth
<1>1. /\ low \in [Partition -> Int]
      /\ high \in [Partition -> Int]
  BY ConstantsAssumption DEF TypeOK
<1>2. CASE low' = low /\ high' = high /\ settled' = settled /\ dlq' = dlq
  BY <1>1, <1>2 DEF Growth
<1>3. ASSUME NEW p \in Partition, Produce(p) \/ Expire(p)
      PROVE  Growth
  BY <1>1, <1>3 DEF Growth, Produce, Expire, mysqlVars
<1>4. ASSUME NEW w \in Worker, NEW b \in Brand, CommitBrand(w, b) \/ AbortBrand(w, b)
      PROVE  Growth
  <2>1. settled \subseteq settled' /\ UNCHANGED kafkaVars
    BY <1>4 DEF CommitBrand, AbortBrand
  <2> QED BY <1>1, <2>1 DEF Growth, kafkaVars
<1>5. ASSUME NEW w \in Worker, NEW arrived, NEW acked, SendToDlq(w, arrived, acked)
      PROVE  Growth
  BY <1>1, <1>5 DEF Growth, SendToDlq, mysqlVars
<1> QED
  BY <1>2, <1>3, <1>4, <1>5
  DEF Next, Environment, Cycle, kafkaVars, mysqlVars, vars, DropLock, StartCycle,
      Fetch, Release, Finish, GiveUp, Quarantine, QuarantineFails,
      CommitOffsets, CommitOffsetsFails, Crash

\* What is at rest stays at rest.
LEMMA RestStays ==
  ASSUME TypeOK, TypeOK', Growth, NEW r \in Record, AtRest(r)
  PROVE  AtRest(r)'
<1>1. r[1] \in Partition /\ r[2] \in Int
  BY RecordPair, OffsetRange
<1>2. low[r[1]] \in Int /\ low'[r[1]] \in Int /\ low[r[1]] <= low'[r[1]]
  BY <1>1, ConstantsAssumption DEF TypeOK, Growth
<1> QED BY <1>1, <1>2 DEF AtRest, Growth

\* The steps of one worker do not reach into another.
LEMMA OthersUntouched ==
  ASSUME TypeOK, NEW w \in Worker, Cycle(w), NEW v \in Worker, v # w
  PROVE  Untouched(v)
<1>1. CASE Leave(w)
  BY <1>1 DEF Untouched, Leave, TypeOK
<1>2. CASE StartCycle(w)
  BY <1>2 DEF Untouched, StartCycle, batchVars, TypeOK
<1>3. ASSUME NEW p \in Partition, Fetch(w, p) PROVE Untouched(v)
  BY <1>3 DEF Untouched, Fetch, batchVars, TypeOK
<1>4. CASE Release(w)
  BY <1>4 DEF Untouched, Release, TypeOK
<1>5. ASSUME NEW b \in Brand, CommitBrand(w, b) \/ AbortBrand(w, b)
      PROVE  Untouched(v)
  <2>1. UNCHANGED <<phase, rangeVars, batch>>
    BY <1>5 DEF CommitBrand, AbortBrand
  <2>2. resolved'[v] = resolved[v]
    BY <1>5 DEF CommitBrand, AbortBrand, TypeOK
  <2> QED BY <2>1, <2>2 DEF Untouched, rangeVars
<1>6. ASSUME NEW arrived, NEW acked, SendToDlq(w, arrived, acked)
      PROVE  Untouched(v)
  BY <1>6 DEF Untouched, SendToDlq, rangeVars, TypeOK
<1>7. CASE CommitOffsets(w) /\ ~Leave(w)
  BY <1>7 DEF Untouched, CommitOffsets, rangeVars, TypeOK
<1> QED
  BY <1>1, <1>2, <1>3, <1>4, <1>5, <1>6, <1>7
  DEF Cycle, Finish, GiveUp, Quarantine, QuarantineFails, CommitOffsetsFails, Crash

\* A worker that is left alone keeps its part of the invariant.
LEMMA HandStays ==
  ASSUME TypeOK, TypeOK', Growth, NEW v \in Worker, HandInv(v), Untouched(v)
  PROVE  HandInv(v)'
<1>1. ResolvedIsDurable(v)'
  BY DEF HandInv, ResolvedIsDurable, Untouched, Growth
<1>2. HandMatchesPhase(v)' /\ HandInOrder(v)'
  BY DEF HandInv, HandMatchesPhase, HandInOrder, Untouched
<1>3. NothingSkipped(v)'
  BY RestStays, PairRecord DEF HandInv, NothingSkipped, Untouched
<1>4. WithinLog(v)'
  <2> SUFFICES ASSUME NEW p \in Partition
               PROVE  end[v][p] <= high'[p] /\ pos[v][p] <= high'[p]
    BY DEF WithinLog, Untouched
  <2>1. /\ end[v][p] \in Int /\ pos[v][p] \in Int
        /\ high[p] \in Int /\ high'[p] \in Int /\ high[p] <= high'[p]
    BY ConstantsAssumption DEF TypeOK, Growth
  <2> QED BY <2>1 DEF HandInv, WithinLog
<1> QED BY <1>1, <1>2, <1>3, <1>4 DEF HandInv

\* A worker that leaves its cycle has nothing in hand.
LEMMA LeaveHand ==
  ASSUME TypeOK, TypeOK', NEW w \in Worker, Leave(w)
  PROVE  HandInv(w)'
<1>1. /\ buf'[w] = {} /\ batch'[w] = {} /\ resolved'[w] = {}
      /\ end'[w] = [p \in Partition |-> 0] /\ pos'[w] = [p \in Partition |-> 0]
  BY DEF Leave, TypeOK
<1>2. ResolvedIsDurable(w)' /\ HandMatchesPhase(w)' /\ HandInOrder(w)'
  BY <1>1 DEF ResolvedIsDurable, HandMatchesPhase, HandInOrder
<1>3. NothingSkipped(w)'
  BY <1>1, OffsetRange DEF NothingSkipped
<1>4. WithinLog(w)'
  BY <1>1, ConstantsAssumption DEF WithinLog, TypeOK
<1> QED BY <1>2, <1>3, <1>4 DEF HandInv

\* The leading run: every record up to an offset of the run is at rest.  An
\* offset below it is in the batch and resolved, or was passed over at rest; it
\* cannot still be in the buffer, which is behind the batch.
LEMMA LeadingIsCovered ==
  ASSUME TypeOK, NEW w \in Worker, HandInv(w), NEW p \in Partition,
         NEW o \in Leading(w, p), NEW m \in Offset, m <= o
  PROVE  AtRest(<<p, m>>) /\ o + 1 <= high[p] /\ o + 1 <= pos[w][p]
<1>1. /\ o \in Offset /\ <<p, o>> \in batch[w]
      /\ \A q \in Unresolved(w) : q[1] = p => o < q[2]
  BY DEF Leading
<1>2. o \in Int /\ m \in Int /\ pos[w][p] \in Int /\ high[p] \in Int
  BY <1>1, OffsetRange, ConstantsAssumption DEF TypeOK
<1>3. o < pos[w][p]
  BY <1>1, PairRecord DEF HandInv, HandInOrder
<1>4. o + 1 <= high[p] /\ o + 1 <= pos[w][p]
  BY <1>2, <1>3 DEF HandInv, WithinLog
<1>5. <<p, m>> \in buf[w] \cup batch[w] \/ AtRest(<<p, m>>)
  BY <1>2, <1>3 DEF HandInv, NothingSkipped
<1>6. <<p, m>> \notin buf[w]
  <2> SUFFICES ASSUME <<p, m>> \in buf[w] PROVE FALSE
    OBVIOUS
  <2>1. <<p, o>>[1] = <<p, m>>[1] => <<p, o>>[2] < <<p, m>>[2]
    BY <1>1 DEF HandInv, HandInOrder
  <2> QED BY <1>2, <2>1
<1>7. ASSUME <<p, m>> \in batch[w] PROVE AtRest(<<p, m>>)
  <2>1. <<p, m>> \notin Unresolved(w)
    BY <1>1, <1>2
  <2> QED BY <1>7, <2>1 DEF Unresolved, HandInv, ResolvedIsDurable, AtRest
<1> QED BY <1>4, <1>5, <1>6, <1>7

\* So a commit covers only records at rest.
LEMMA AdvanceIsCovered ==
  ASSUME IngestInv, NEW w \in Worker, OffsetsAdvance(w), NEW p \in Partition
  PROVE  /\ committed'[p] <= high[p]
         /\ \A m \in Offset : m < committed'[p] => AtRest(<<p, m>>)
<1>1. CommitsTo(w, p, committed'[p])
  BY DEF OffsetsAdvance
<1>2. CASE committed'[p] = committed[p]
  BY <1>2 DEF IngestInv, LogInOrder, OffsetsCovered
<1>3. CASE \E o \in Leading(w, p) : committed'[p] = o + 1
  <2>1. PICK o \in Leading(w, p) : committed'[p] = o + 1
    BY <1>3
  <2>2. o \in Offset /\ o \in Int
    BY OffsetRange DEF Leading
  <2>3. ASSUME NEW m \in Offset, m < o + 1 PROVE AtRest(<<p, m>>)
    <3>1. m <= o
      BY <2>2, <2>3, OffsetRange
    <3> QED BY <3>1, LeadingIsCovered DEF IngestInv
  <2>4. o + 1 <= high[p]
    <3>1. o <= o
      BY <2>2
    <3> QED BY <2>2, <3>1, LeadingIsCovered DEF IngestInv
  <2> QED BY <2>1, <2>3, <2>4
<1> QED BY <1>1, <1>2, <1>3 DEF CommitsTo

\* Initially nothing is committed and nobody holds anything.
LEMMA InitInv == Init => IngestInv
<1> SUFFICES ASSUME Init PROVE IngestInv
  OBVIOUS
<1>1. TypeOK
  BY InitTypes
<1>2. LogInOrder
  BY DEF Init, LogInOrder
<1>3. OffsetsCovered
  BY OffsetRange DEF Init, OffsetsCovered
<1>4. ASSUME NEW w \in Worker PROVE HandInv(w)
  BY OffsetRange
  DEF Init, HandInv, ResolvedIsDurable, HandMatchesPhase, NothingSkipped, HandInOrder, WithinLog
<1> QED BY <1>1, <1>2, <1>3, <1>4 DEF IngestInv

\* Kafka and MySQL keep the invariant by themselves.
LEMMA EnvironmentInv ==
  ASSUME IngestInv, Environment
  PROVE  LogInOrder' /\ OffsetsCovered' /\ \A w \in Worker : HandInv(w)'
<1>1. TypeOK /\ TypeOK' /\ Growth
  BY StepTypes, StepGrows DEF IngestInv, Next
<1>2. committed' = committed /\ \A w \in Worker : Untouched(w)
  BY DEF Environment, Produce, Expire, DropLock, kafkaVars, rangeVars, batchVars, Untouched
<1>3. OffsetsCovered'
  BY <1>1, <1>2, RestStays, PairRecord DEF IngestInv, OffsetsCovered
<1>4. \A w \in Worker : HandInv(w)'
  BY <1>1, <1>2, HandStays DEF IngestInv
<1>5. LogInOrder'
  <2> SUFFICES ASSUME NEW p \in Partition
               PROVE  low'[p] <= high'[p] /\ committed[p] <= high'[p]
    BY <1>2 DEF LogInOrder
  <2>1. /\ low[p] \in Int /\ high[p] \in Int /\ committed[p] \in Int
        /\ low \in [Partition -> 0 .. MaxLen] /\ high \in [Partition -> 0 .. MaxLen]
        /\ low[p] <= high[p] /\ committed[p] <= high[p]
    BY <1>1, ConstantsAssumption DEF IngestInv, TypeOK, LogInOrder
  <2>2. ASSUME NEW q \in Partition, Produce(q)
        PROVE  low'[p] <= high'[p] /\ committed[p] <= high'[p]
    BY <2>1, <2>2 DEF Produce
  <2>3. ASSUME NEW q \in Partition, Expire(q)
        PROVE  low'[p] <= high'[p] /\ committed[p] <= high'[p]
    BY <2>1, <2>3 DEF Expire
  <2>4. CASE DropLock
    BY <2>1, <2>4 DEF DropLock, kafkaVars
  <2> QED BY <2>2, <2>3, <2>4 DEF Environment
<1> QED BY <1>3, <1>4, <1>5

\* Taking the lock and fixing the ranges: what lies below the start of a range
\* is committed, hence at rest, or gone.
LEMMA StartHand ==
  ASSUME IngestInv, TypeOK', NEW w \in Worker, StartCycle(w)
  PROVE  HandInv(w)'
<1>1. PICK stop \in [Partition -> 0 .. MaxLen] :
        /\ \A p \in Partition : StartOffset(p) <= stop[p] /\ stop[p] <= high[p]
        /\ end' = [end EXCEPT ![w] = stop]
  BY DEF StartCycle
<1>2. /\ end'[w] = stop /\ pos'[w] = [p \in Partition |-> StartOffset(p)]
      /\ phase'[w] = "drain" /\ buf'[w] = {} /\ batch'[w] = {}
      /\ resolved'[w] = resolved[w]
      /\ low' = low /\ high' = high /\ settled' = settled /\ dlq' = dlq
  BY <1>1 DEF StartCycle, batchVars, kafkaVars, IngestInv, TypeOK, HandInv, HandMatchesPhase
<1>3. ResolvedIsDurable(w)' /\ HandMatchesPhase(w)' /\ HandInOrder(w)'
  BY <1>2 DEF IngestInv, HandInv, ResolvedIsDurable, HandMatchesPhase, HandInOrder
<1>4. ASSUME NEW p \in Partition, NEW o \in Offset, o < StartOffset(p)
      PROVE  AtRest(<<p, o>>)'
  <2>1. o < low[p] \/ o < committed[p]
    BY <1>4 DEF StartOffset
  <2>2. AtRest(<<p, o>>)
    BY <2>1, PairRecord DEF AtRest, IngestInv, OffsetsCovered
  <2> QED BY <1>2, <2>2 DEF AtRest
<1>5. NothingSkipped(w)'
  BY <1>2, <1>4 DEF NothingSkipped
<1>6. WithinLog(w)'
  BY <1>1, <1>2, ConstantsAssumption DEF WithinLog, StartOffset, IngestInv, LogInOrder
<1> QED BY <1>3, <1>5, <1>6 DEF HandInv

\* Fetching: the record at the position goes into the buffer, behind everything
\* in hand, or is passed over because it carries no message or has expired.
LEMMA FetchHand ==
  ASSUME IngestInv, TypeOK', NEW w \in Worker, NEW p \in Partition, Fetch(w, p)
  PROVE  HandInv(w)'
<1> DEFINE o == IF pos[w][p] < low[p] THEN low[p] ELSE pos[w][p]
<1>1. /\ phase' = phase /\ end' = end /\ batch' = batch /\ resolved' = resolved
      /\ low' = low /\ high' = high /\ settled' = settled /\ dlq' = dlq
      /\ phase[w] = "drain"
  BY DEF Fetch, batchVars, kafkaVars, mysqlVars
<1>2. /\ o \in Int /\ pos[w][p] \in Int /\ low[p] \in Int /\ high[p] \in Int
      /\ end[w][p] \in Int /\ pos[w][p] <= o /\ o <= high[p]
  BY ConstantsAssumption DEF IngestInv, TypeOK, LogInOrder, HandInv, WithinLog
<1>3. \/ pos' = [pos EXCEPT ![w][p] = o] /\ buf' = buf
      \/ /\ o < end[w][p]
         /\ pos' = [pos EXCEPT ![w][p] = o + 1]
         /\ buf' = [buf EXCEPT ![w] = @ \cup {r \in {<<p, o>>} : KindOf[r] # "control"}]
  BY DEF Fetch
<1>4. ASSUME NEW m \in Offset, pos[w][p] <= m, m < o PROVE AtRest(<<p, m>>)
  BY <1>2, <1>4, OffsetRange, PairRecord DEF AtRest
<1> HIDE DEF o
<1>5. PICK n \in Int :
        /\ pos'[w] = [pos[w] EXCEPT ![p] = n]
        /\ n = o \/ (n = o + 1 /\ o < end[w][p])
        /\ buf[w] \subseteq buf'[w]
        /\ \A r \in buf'[w] \ buf[w] : r = <<p, o>> /\ n = o + 1
        /\ n = o + 1 => <<p, o>> \in buf'[w] \/ KindOf[<<p, o>>] = "control"
  <2> pos \in [Worker -> [Partition -> 0 .. MaxLen]] /\ buf \in [Worker -> SUBSET Record]
    BY DEF IngestInv, TypeOK
  <2>1. CASE pos' = [pos EXCEPT ![w][p] = o] /\ buf' = buf
    <3>1. pos'[w] = [pos[w] EXCEPT ![p] = o] /\ buf'[w] = buf[w] /\ o # o + 1
      BY <1>2, <2>1
    <3> QED BY <1>2, <3>1
  <2>2. CASE /\ o < end[w][p]
             /\ pos' = [pos EXCEPT ![w][p] = o + 1]
             /\ buf' = [buf EXCEPT ![w] = @ \cup {r \in {<<p, o>>} : KindOf[r] # "control"}]
    <3>1. /\ pos'[w] = [pos[w] EXCEPT ![p] = o + 1]
          /\ buf'[w] = buf[w] \cup {r \in {<<p, o>>} : KindOf[r] # "control"}
          /\ o + 1 \in Int
      BY <1>2, <2>2
    <3> QED BY <2>2, <3>1
  <2> QED BY <1>3, <2>1, <2>2
<1>6. \A q \in Partition : pos'[w][q] = IF q = p THEN n ELSE pos[w][q]
  BY <1>5 DEF IngestInv, TypeOK
<1>7. ResolvedIsDurable(w)' /\ HandMatchesPhase(w)'
  BY <1>1 DEF IngestInv, HandInv, ResolvedIsDurable, HandMatchesPhase
<1>8. batch[w] = {}
  BY <1>1 DEF IngestInv, HandInv, HandMatchesPhase
<1>9. HandInOrder(w)'
  <2> SUFFICES ASSUME NEW r \in buf'[w] PROVE r[2] < pos'[w][r[1]]
    BY <1>1, <1>8 DEF HandInOrder
  <2>1. CASE r \in buf[w]
    <3>1. r \in Record /\ r[1] \in Partition /\ r[2] \in Int /\ r[2] < pos[w][r[1]]
      BY <2>1, RecordPair, OffsetRange DEF IngestInv, TypeOK, HandInv, HandInOrder
    <3> QED BY <1>2, <1>5, <1>6, <3>1
  <2>2. CASE r \notin buf[w]
    BY <1>2, <1>5, <1>6, <2>2
  <2> QED BY <2>1, <2>2
<1>10. NothingSkipped(w)'
  <2> SUFFICES ASSUME NEW q \in Partition, NEW m \in Offset, m < pos'[w][q]
               PROVE  <<q, m>> \in buf'[w] \/ AtRest(<<q, m>>)
    BY <1>1 DEF NothingSkipped, AtRest
  <2>1. CASE m < pos[w][q]
    BY <2>1, <1>5, <1>8 DEF IngestInv, HandInv, NothingSkipped
  <2>2. CASE ~(m < pos[w][q])
    <3>1. q = p /\ m < n /\ pos[w][p] <= m /\ m \in Int
      BY <1>2, <1>6, <2>2, OffsetRange
    <3>2. CASE m < o
      BY <1>4, <3>1, <3>2
    <3>3. CASE ~(m < o)
      <4>1. m = o /\ n = o + 1
        BY <1>2, <1>5, <3>1, <3>3
      <4> QED BY <1>5, <3>1, <4>1 DEF AtRest
    <3> QED BY <3>2, <3>3
  <2> QED BY <2>1, <2>2
<1>11. WithinLog(w)'
  <2> SUFFICES ASSUME NEW q \in Partition PROVE pos'[w][q] <= high[q]
    BY <1>1 DEF WithinLog, IngestInv, HandInv
  <2>1. end[w][p] <= high[p] /\ pos[w][q] <= high[q]
    BY DEF IngestInv, HandInv, WithinLog
  <2> QED BY <1>2, <1>5, <1>6, <2>1
<1> QED BY <1>7, <1>9, <1>10, <1>11 DEF HandInv

\* Releasing splits the buffer, oldest first.
LEMMA ReleaseHand ==
  ASSUME IngestInv, NEW w \in Worker, Release(w)
  PROVE  HandInv(w)'
<1>1. PICK S \in SUBSET buf[w] :
        /\ \A r \in S, q \in buf[w] \ S : r[1] = q[1] => r[2] < q[2]
        /\ batch'[w] = S /\ buf'[w] = buf[w] \ S
  BY DEF Release, IngestInv, TypeOK
<1>2. /\ end' = end /\ pos' = pos /\ resolved' = resolved /\ phase'[w] = "apply"
      /\ low' = low /\ high' = high /\ settled' = settled /\ dlq' = dlq
  BY DEF Release, kafkaVars, mysqlVars, IngestInv, TypeOK
<1>3. buf[w] = buf'[w] \cup batch'[w]
  BY <1>1
<1>4. ResolvedIsDurable(w)' /\ HandMatchesPhase(w)' /\ WithinLog(w)'
  BY <1>2 DEF IngestInv, HandInv, ResolvedIsDurable, HandMatchesPhase, WithinLog
<1>5. HandInOrder(w)'
  BY <1>1, <1>2, <1>3 DEF IngestInv, HandInv, HandInOrder
<1>6. batch[w] = {}
  BY DEF Release, IngestInv, HandInv, HandMatchesPhase
<1>7. NothingSkipped(w)'
  BY <1>2, <1>3, <1>6 DEF IngestInv, HandInv, NothingSkipped, AtRest
<1> QED BY <1>4, <1>5, <1>7 DEF HandInv

\* A step inside a batch only resolves what is durable.
LEMMA ApplyHand ==
  ASSUME TypeOK, TypeOK', Growth, NEW w \in Worker, HandInv(w),
         phase[w] # "idle", phase[w] # "drain", phase'[w] \notin {"idle", "drain"},
         UNCHANGED <<rangeVars, batch>>,
         resolved'[w] \subseteq resolved[w] \cup settled' \cup dlq'
  PROVE  HandInv(w)'
<1>1. ResolvedIsDurable(w)'
  BY DEF HandInv, ResolvedIsDurable, Growth
<1>2. HandMatchesPhase(w)' /\ HandInOrder(w)'
  BY DEF HandInv, HandMatchesPhase, HandInOrder, rangeVars
<1>3. NothingSkipped(w)'
  BY RestStays, PairRecord DEF HandInv, NothingSkipped, rangeVars
<1>4. WithinLog(w)'
  <2> SUFFICES ASSUME NEW p \in Partition
               PROVE  end[w][p] <= high'[p] /\ pos[w][p] <= high'[p]
    BY DEF WithinLog, rangeVars
  <2>1. /\ end[w][p] \in Int /\ pos[w][p] \in Int
        /\ high[p] \in Int /\ high'[p] \in Int /\ high[p] <= high'[p]
    BY ConstantsAssumption DEF TypeOK, Growth
  <2> QED BY <2>1 DEF HandInv, WithinLog
<1> QED BY <1>1, <1>2, <1>3, <1>4 DEF HandInv

\* Committing offsets ends the batch, or a pass over it, or the cycle.
LEMMA CommitHand ==
  ASSUME IngestInv, TypeOK', Growth, NEW w \in Worker, CommitOffsets(w)
  PROVE  HandInv(w)'
<1>1. phase[w] = "commit" /\ UNCHANGED <<low, high, dlq, settled>>
  BY DEF CommitOffsets
<1>2. CASE Leave(w)
  BY <1>2, LeaveHand DEF IngestInv
<1>3. CASE /\ Unresolved(w) # {}
           /\ phase' = [phase EXCEPT ![w] = "apply"]
           /\ UNCHANGED <<rangeVars, batch, resolved>>
  BY <1>1, <1>3, ApplyHand DEF IngestInv, TypeOK
<1>4. CASE /\ Unresolved(w) = {}
           /\ phase' = [phase EXCEPT ![w] = "drain"]
           /\ batch' = [batch EXCEPT ![w] = {}]
           /\ resolved' = [resolved EXCEPT ![w] = {}]
           /\ UNCHANGED rangeVars
  <2>1. /\ batch'[w] = {} /\ resolved'[w] = {} /\ phase'[w] = "drain"
        /\ pos' = pos /\ buf' = buf /\ end' = end
    BY <1>4 DEF IngestInv, TypeOK, rangeVars
  <2>2. \A r \in batch[w] : r \in settled \cup dlq
    BY <1>4 DEF Unresolved, IngestInv, HandInv, ResolvedIsDurable
  <2>3. NothingSkipped(w)'
    BY <1>1, <2>1, <2>2 DEF IngestInv, HandInv, NothingSkipped, AtRest
  <2>4. ResolvedIsDurable(w)' /\ HandMatchesPhase(w)' /\ HandInOrder(w)' /\ WithinLog(w)'
    BY <1>1, <2>1
    DEF IngestInv, HandInv, ResolvedIsDurable, HandMatchesPhase, HandInOrder, WithinLog
  <2> QED BY <2>3, <2>4 DEF HandInv
<1> QED BY <1>2, <1>3, <1>4 DEF CommitOffsets

\* Every step of a cycle keeps the worker's own part.
LEMMA CycleHand ==
  ASSUME IngestInv, TypeOK', Growth, NEW w \in Worker, Cycle(w)
  PROVE  HandInv(w)'
<1> TypeOK /\ HandInv(w)
  BY DEF IngestInv
<1>1. CASE Leave(w)
  BY <1>1, LeaveHand
<1>2. ASSUME NEW b \in Brand, CommitBrand(w, b) \/ AbortBrand(w, b)
      PROVE  HandInv(w)'
  <2>1. /\ phase[w] = "apply" /\ phase' = phase
        /\ UNCHANGED <<rangeVars, batch>>
    BY <1>2 DEF CommitBrand, AbortBrand
  <2>2. resolved'[w] \subseteq resolved[w] \cup settled'
    BY <1>2 DEF CommitBrand, AbortBrand, TypeOK
  <2> QED BY <2>1, <2>2, ApplyHand
<1>3. ASSUME NEW arrived \in SUBSET DlqEntries(w), NEW acked \in SUBSET arrived,
             SendToDlq(w, arrived, acked)
      PROVE  HandInv(w)'
  <2>1. /\ phase[w] = "apply" /\ phase'[w] = "commit"
        /\ UNCHANGED <<rangeVars, batch>>
        /\ resolved'[w] = resolved[w] \cup acked /\ acked \subseteq dlq'
    BY <1>3 DEF SendToDlq, TypeOK
  <2> QED BY <2>1, ApplyHand
<1> QED
  BY <1>1, <1>2, <1>3, StartHand, FetchHand, ReleaseHand, CommitHand
  DEF Cycle, Finish, GiveUp, Quarantine, QuarantineFails, CommitOffsetsFails, Crash

\* Every step of a cycle keeps the offset rule.
LEMMA CycleCovers ==
  ASSUME IngestInv, TypeOK', Growth, NEW w \in Worker, Cycle(w)
  PROVE  LogInOrder' /\ OffsetsCovered'
<1>1. UNCHANGED <<low, high>>
  BY DEF Cycle, Leave, StartCycle, Fetch, Release, Finish, GiveUp, CommitBrand, AbortBrand,
         Quarantine, QuarantineFails, SendToDlq, CommitOffsets, CommitOffsetsFails, Crash,
         kafkaVars
<1>2. committed' = committed \/ OffsetsAdvance(w)
  BY DEF Cycle, StartCycle, Fetch, Release, Finish, GiveUp, CommitBrand, AbortBrand,
         Quarantine, QuarantineFails, SendToDlq, CommitOffsets, CommitOffsetsFails, Crash,
         kafkaVars
<1>3. ASSUME NEW p \in Partition
      PROVE  /\ committed'[p] <= high[p]
             /\ \A m \in Offset : m < committed'[p] => AtRest(<<p, m>>)
  <2>1. CASE committed' = committed
    BY <2>1 DEF IngestInv, LogInOrder, OffsetsCovered
  <2>2. CASE OffsetsAdvance(w)
    BY <2>2, AdvanceIsCovered
  <2> QED BY <1>2, <2>1, <2>2
<1>4. LogInOrder'
  BY <1>1, <1>3 DEF LogInOrder, IngestInv
<1>5. OffsetsCovered'
  BY <1>3, RestStays, PairRecord DEF OffsetsCovered, IngestInv
<1> QED BY <1>4, <1>5

\* The invariant is inductive.
LEMMA StepInv == IngestInv /\ [Next]_vars => IngestInv'
<1> SUFFICES ASSUME IngestInv, [Next]_vars PROVE IngestInv'
  OBVIOUS
<1>1. TypeOK /\ TypeOK' /\ Growth
  BY StepTypes, StepGrows DEF IngestInv
<1>2. CASE Environment
  BY <1>1, <1>2, EnvironmentInv DEF IngestInv
<1>3. ASSUME NEW w \in Worker, Cycle(w) PROVE IngestInv'
  <2>1. ASSUME NEW v \in Worker PROVE HandInv(v)'
    <3>1. CASE v = w
      BY <1>1, <1>3, <3>1, CycleHand
    <3>2. CASE v # w
      BY <1>1, <1>3, <3>2, OthersUntouched, HandStays DEF IngestInv
    <3> QED BY <3>1, <3>2
  <2> QED BY <1>1, <1>3, <2>1, CycleCovers DEF IngestInv
<1>4. CASE UNCHANGED vars
  <2>1. \A v \in Worker : Untouched(v)
    BY <1>4 DEF vars, rangeVars, batchVars, Untouched
  <2>2. \A v \in Worker : HandInv(v)'
    BY <1>1, <2>1, HandStays DEF IngestInv
  <2>3. LogInOrder' /\ OffsetsCovered'
    BY <1>4 DEF vars, kafkaVars, mysqlVars, IngestInv, LogInOrder, OffsetsCovered, AtRest
  <2> QED BY <1>1, <2>2, <2>3 DEF IngestInv
<1> QED BY <1>2, <1>3, <1>4 DEF Next

\* The offset rule holds in every reachable state, for any number of workers,
\* whether or not the run lock holds: no committed offset ever covers a record
\* that is neither accounted for in MySQL, nor quarantined, nor expired.
THEOREM OffsetsAlwaysCovered == Spec => []OffsetsCovered
<1>1. IngestInv => OffsetsCovered
  BY DEF IngestInv
<1> QED BY <1>1, InitInv, StepInv, PTL DEF Spec

-----------------------------------------------------------------------------
(* One cycle at a time *)

\* Only the holder of the run lock is active, and only it releases it.
LEMMA StepLock ==
  ASSUME ~LockMayDrop, TypeOK, ActiveHoldsLock, [Next]_vars
  PROVE  ActiveHoldsLock'
<1>1. CASE Environment \/ UNCHANGED vars
  BY <1>1 DEF Environment, Produce, Expire, DropLock, vars, mysqlVars, ActiveHoldsLock
<1>2. ASSUME NEW w \in Worker, Cycle(w) PROVE ActiveHoldsLock'
  <2>1. CASE Leave(w)
    BY <2>1 DEF Leave, ActiveHoldsLock, TypeOK
  <2>2. CASE StartCycle(w)
    <3>1. ASSUME NEW v \in Worker, phase'[v] # "idle" PROVE lock' = v
      <4>1. CASE v = w
        BY <2>2, <4>1 DEF StartCycle, TakeLock
      <4>2. CASE v # w
        BY <2>2, <3>1, <4>2, ConstantsAssumption DEF StartCycle, TakeLock, ActiveHoldsLock, TypeOK
      <4> QED BY <4>1, <4>2
    <3> QED BY <3>1 DEF ActiveHoldsLock
  <2>3. CASE lock' = lock /\ phase[w] # "idle" /\ \A v \in Worker : v # w => phase'[v] = phase[v]
    BY <2>3 DEF ActiveHoldsLock
  <2>4. \A v \in Worker : v # w => phase'[v] = phase[v]
    BY <1>2, OthersUntouched DEF Untouched
  <2>5. Leave(w) \/ StartCycle(w) \/ (lock' = lock /\ phase[w] # "idle")
    <3>1. ASSUME NEW p \in Partition, Fetch(w, p) PROVE lock' = lock /\ phase[w] # "idle"
      BY <3>1 DEF Fetch, mysqlVars
    <3>2. ASSUME NEW b \in Brand, CommitBrand(w, b) \/ AbortBrand(w, b)
          PROVE  lock' = lock /\ phase[w] # "idle"
      BY <3>2 DEF CommitBrand, AbortBrand
    <3>3. ASSUME NEW arrived, NEW acked, SendToDlq(w, arrived, acked)
          PROVE  lock' = lock /\ phase[w] # "idle"
      BY <3>3 DEF SendToDlq, mysqlVars
    <3>4. CASE Release(w)
      BY <3>4 DEF Release, mysqlVars
    <3>5. CASE CommitOffsets(w)
      BY <3>5 DEF CommitOffsets
    <3>6. Quarantine(w) \/ QuarantineFails(w) => lock' = lock /\ phase[w] # "idle"
      <4>1. ASSUME Quarantine(w) PROVE lock' = lock /\ phase[w] # "idle"
        BY <3>3, <4>1 DEF Quarantine
      <4>2. ASSUME QuarantineFails(w) PROVE lock' = lock /\ phase[w] # "idle"
        BY <3>3, <4>2 DEF QuarantineFails
      <4> QED BY <4>1, <4>2
    <3>7. Finish(w) \/ GiveUp(w) \/ CommitOffsetsFails(w) \/ Crash(w) => Leave(w)
      BY DEF Finish, GiveUp, CommitOffsetsFails, Crash
    <3> QED BY <1>2, <3>1, <3>2, <3>4, <3>5, <3>6, <3>7 DEF Cycle
  <2> QED BY <2>1, <2>2, <2>3, <2>4, <2>5
<1> QED BY <1>1, <1>2 DEF Next

LEMMA InitLock == Init => ActiveHoldsLock
BY DEF Init, ActiveHoldsLock

\* With a run lock that is never lost, two workers are never in a cycle at the
\* same time.
THEOREM OneCycleAlways == ~LockMayDrop /\ Spec => []OneCycleAtATime
<1>1. ActiveHoldsLock => OneCycleAtATime
  BY DEF ActiveHoldsLock, OneCycleAtATime
<1>2. CASE LockMayDrop
  BY <1>2
<1>3. CASE ~LockMayDrop
  <2>1. TypeOK /\ ActiveHoldsLock /\ [Next]_vars => TypeOK' /\ ActiveHoldsLock'
    BY <1>3, StepLock, StepTypes
  <2> QED BY <1>1, <2>1, InitLock, InitTypes, PTL DEF Spec
<1> QED BY <1>2, <1>3

-----------------------------------------------------------------------------
(* The committed offset follows the batch *)

\* What committing does to one partition.
LEMMA AdvanceForward ==
  ASSUME IngestInv, NEW w \in Worker, OffsetBehindHand(w), phase[w] # "idle",
         OffsetsAdvance(w), NEW p \in Partition
  PROVE  /\ committed[p] <= committed'[p]
         /\ committed'[p] <= pos[w][p]
         /\ \A q \in buf[w] : q[1] = p => committed'[p] <= q[2]
         /\ \/ Leading(w, p) = {} /\ committed'[p] = committed[p]
            \/ \E o \in Leading(w, p) : committed'[p] = o + 1
<1>1. CommitsTo(w, p, committed'[p])
  BY DEF OffsetsAdvance
<1>2. committed[p] \in Int /\ pos[w][p] \in Int
  BY ConstantsAssumption DEF IngestInv, TypeOK
<1>3. CASE Leading(w, p) = {} /\ committed'[p] = committed[p]
  BY <1>2, <1>3 DEF OffsetBehindHand
<1>4. ASSUME NEW o \in Leading(w, p), committed'[p] = o + 1,
             \A m \in Leading(w, p) : m <= o
      PROVE  /\ committed[p] <= committed'[p]
             /\ committed'[p] <= pos[w][p]
             /\ \A q \in buf[w] : q[1] = p => committed'[p] <= q[2]
  <2>1. o \in Offset /\ o \in Int /\ <<p, o>> \in batch[w]
    BY OffsetRange DEF Leading
  <2>2. <<p, o>>[1] = p /\ <<p, o>>[2] = o
    OBVIOUS
  <2>3. o + 1 <= pos[w][p]
    <3>1. o < pos[w][p]
      BY <2>1, <2>2 DEF IngestInv, HandInv, HandInOrder
    <3> QED BY <1>2, <2>1, <3>1
  <2>4. ASSUME NEW q \in buf[w], q[1] = p PROVE o + 1 <= q[2]
    <3>1. o < q[2]
      BY <2>1, <2>2, <2>4 DEF IngestInv, HandInv, HandInOrder
    <3>2. q[2] \in Int
      BY RecordPair, OffsetRange DEF IngestInv, TypeOK
    <3> QED BY <2>1, <3>1, <3>2
  <2>5. committed[p] <= o + 1
    <3>1. CASE \A r \in batch[w] : r[1] = p => committed[p] <= r[2]
      BY <1>2, <2>1, <2>2, <3>1
    <3>2. CASE \E m \in Leading(w, p) : committed[p] = m + 1
      <4>1. PICK m \in Leading(w, p) : committed[p] = m + 1
        BY <3>2
      <4>2. m \in Int /\ m <= o
        BY <1>4, <4>1, OffsetRange DEF Leading
      <4> QED BY <2>1, <4>1, <4>2
    <3> QED BY <3>1, <3>2 DEF OffsetBehindHand
  <2> QED BY <1>4, <2>3, <2>4, <2>5
<1> QED BY <1>1, <1>3, <1>4 DEF CommitsTo

\* The run only grows as records of the batch are resolved.
LEMMA LeadingGrows ==
  ASSUME NEW w \in Worker, NEW p \in Partition,
         batch'[w] = batch[w], resolved[w] \subseteq resolved'[w]
  PROVE  Leading(w, p) \subseteq Leading(w, p)'
BY DEF Leading, Unresolved

\* Steps that neither fetch, release nor commit offsets.
LEMMA BehindStays ==
  ASSUME NEW w \in Worker, OffsetBehindHand(w), phase[w] # "idle",
         UNCHANGED <<committed, pos, buf, batch>>, resolved[w] \subseteq resolved'[w]
  PROVE  OffsetBehindHand(w)'
<1>1. \A p \in Partition : Leading(w, p) \subseteq Leading(w, p)'
  BY LeadingGrows
<1> QED BY <1>1 DEF OffsetBehindHand

\* An active worker keeps the committed offset behind what it has in hand.
LEMMA CycleBehind ==
  ASSUME IngestInv, NEW w \in Worker, OffsetBehindHand(w), Cycle(w)
  PROVE  OffsetBehindHand(w)'
<1>1. CASE Leave(w)
  BY <1>1 DEF Leave, IngestInv, TypeOK, OffsetBehindHand
<1>2. CASE StartCycle(w)
  <2>1. /\ pos'[w] = [p \in Partition |-> StartOffset(p)]
        /\ buf'[w] = {} /\ batch'[w] = {} /\ committed' = committed
    BY <1>2 DEF StartCycle, IngestInv, TypeOK, kafkaVars, batchVars, HandInv, HandMatchesPhase
  <2>2. ASSUME NEW p \in Partition PROVE committed[p] <= StartOffset(p)
    <3>1. /\ committed[p] \in Int /\ low[p] \in Int /\ high[p] \in Int
          /\ committed[p] <= high[p]
      BY ConstantsAssumption DEF IngestInv, TypeOK, LogInOrder
    <3> QED BY <3>1 DEF StartOffset
  <2> QED BY <2>1, <2>2 DEF OffsetBehindHand
<1>3. ASSUME NEW p \in Partition, Fetch(w, p) PROVE OffsetBehindHand(w)'
  <2> DEFINE o == IF pos[w][p] < low[p] THEN low[p] ELSE pos[w][p]
  <2>1. /\ phase[w] = "drain" /\ committed' = committed /\ batch' = batch
        /\ batch[w] = {}
    BY <1>3 DEF Fetch, kafkaVars, batchVars, IngestInv, HandInv, HandMatchesPhase
  <2>2. /\ o \in Int /\ pos[w][p] \in Int /\ pos[w][p] <= o
        /\ pos[w] \in [Partition -> Int]
        /\ \A q \in Partition : committed[q] \in Int /\ committed[q] <= pos[w][q]
    BY <2>1, ConstantsAssumption DEF IngestInv, TypeOK, OffsetBehindHand
  <2>3. \/ pos' = [pos EXCEPT ![w][p] = o] /\ buf' = buf
        \/ /\ pos' = [pos EXCEPT ![w][p] = o + 1]
           /\ buf' = [buf EXCEPT ![w] = @ \cup {r \in {<<p, o>>} : KindOf[r] # "control"}]
    BY <1>3 DEF Fetch
  <2> HIDE DEF o
  <2>4. /\ \A q \in Partition : pos[w][q] <= pos'[w][q]
        /\ \A r \in buf'[w] : r \in buf[w] \/ r = <<p, o>>
    <3>1. pos \in [Worker -> [Partition -> 0 .. MaxLen]] /\ buf \in [Worker -> SUBSET Record]
      BY DEF IngestInv, TypeOK
    <3>2. pos'[w] = [pos[w] EXCEPT ![p] = o] \/ pos'[w] = [pos[w] EXCEPT ![p] = o + 1]
      BY <2>3, <3>1
    <3>3. \A q \in Partition : pos[w][q] <= pos'[w][q]
      BY <2>2, <3>2
    <3>4. \A r \in buf'[w] : r \in buf[w] \/ r = <<p, o>>
      BY <2>3, <3>1
    <3> QED BY <3>3, <3>4
  <2>5. ASSUME NEW q \in Partition PROVE committed[q] <= pos'[w][q]
    <3>1. pos'[w][q] \in Int
      BY StepTypes, <1>3, ConstantsAssumption DEF IngestInv, TypeOK, Next, Cycle
    <3> QED BY <2>2, <2>4, <3>1
  <2>6. ASSUME NEW r \in buf'[w] PROVE committed[r[1]] <= r[2]
    <3>1. CASE r \in buf[w]
      BY <2>1, <3>1, RecordPair DEF OffsetBehindHand, IngestInv, TypeOK
    <3>2. CASE r = <<p, o>>
      <4>1. committed[p] <= pos[w][p] /\ committed[p] \in Int
        BY <2>2
      <4> QED BY <2>2, <3>2, <4>1
    <3> QED BY <2>4, <3>1, <3>2
  <2> QED BY <2>1, <2>5, <2>6 DEF OffsetBehindHand
<1>4. CASE Release(w)
  <2>1. /\ phase[w] = "drain" /\ committed' = committed /\ pos' = pos
        /\ batch'[w] \subseteq buf[w] /\ buf'[w] \subseteq buf[w]
    BY <1>4 DEF Release, kafkaVars, IngestInv, TypeOK
  <2> QED BY <2>1 DEF OffsetBehindHand
<1>5. ASSUME NEW b \in Brand, CommitBrand(w, b) \/ AbortBrand(w, b)
      PROVE  OffsetBehindHand(w)'
  <2>1. /\ phase[w] = "apply" /\ UNCHANGED <<committed, pos, buf, batch>>
        /\ resolved[w] \subseteq resolved'[w]
    BY <1>5 DEF CommitBrand, AbortBrand, kafkaVars, rangeVars, IngestInv, TypeOK
  <2> QED BY <2>1, BehindStays
<1>6. ASSUME NEW arrived, NEW acked, SendToDlq(w, arrived, acked)
      PROVE  OffsetBehindHand(w)'
  <2>1. /\ phase[w] = "apply" /\ UNCHANGED <<committed, pos, buf, batch>>
        /\ resolved[w] \subseteq resolved'[w]
    BY <1>6 DEF SendToDlq, rangeVars, IngestInv, TypeOK
  <2> QED BY <2>1, BehindStays
<1>7. CASE CommitOffsets(w) /\ ~Leave(w)
  <2>1. phase[w] = "commit" /\ OffsetsAdvance(w) /\ UNCHANGED <<pos, buf>>
    BY <1>7 DEF CommitOffsets, rangeVars
  <2>2. ASSUME NEW p \in Partition
        PROVE  /\ committed'[p] <= pos[w][p]
               /\ \A q \in buf[w] : q[1] = p => committed'[p] <= q[2]
               /\ \/ Leading(w, p) = {} /\ committed'[p] = committed[p]
                  \/ \E o \in Leading(w, p) : committed'[p] = o + 1
    BY <2>1, AdvanceForward
  <2>3. batch'[w] = {} \/ UNCHANGED <<batch, resolved>>
    BY <1>7 DEF CommitOffsets, IngestInv, TypeOK
  <2>4. CASE batch'[w] = {}
    BY <2>1, <2>2, <2>4 DEF OffsetBehindHand
  <2>5. CASE UNCHANGED <<batch, resolved>>
    <3>1. \A p \in Partition : Leading(w, p)' = Leading(w, p)
      BY <2>5 DEF Leading, Unresolved
    <3>2. ASSUME NEW p \in Partition
          PROVE  \/ \A r \in batch[w] : r[1] = p => committed'[p] <= r[2]
                 \/ \E o \in Leading(w, p) : committed'[p] = o + 1
      BY <2>1, <2>2 DEF OffsetBehindHand
    <3> QED BY <2>1, <2>2, <2>5, <3>1, <3>2 DEF OffsetBehindHand
  <2> QED BY <2>3, <2>4, <2>5
<1> QED
  BY <1>1, <1>2, <1>3, <1>4, <1>5, <1>6, <1>7
  DEF Cycle, Finish, GiveUp, Quarantine, QuarantineFails, CommitOffsetsFails, Crash

\* OrderedInv is inductive: the workers other than the one that steps are idle.
LEMMA StepOrdered == OrderedInv /\ [Next]_vars => OrderedInv'
<1> SUFFICES ASSUME OrderedInv, [Next]_vars PROVE OrderedInv'
  OBVIOUS
<1>1. IngestInv /\ IngestInv' /\ TypeOK
  BY StepInv DEF OrderedInv, IngestInv
<1>2. SUFFICES ASSUME ~LockMayDrop
               PROVE  ActiveHoldsLock' /\ \A v \in Worker : OffsetBehindHand(v)'
  BY <1>1 DEF OrderedInv
<1>3. ActiveHoldsLock /\ ActiveHoldsLock'
  BY <1>1, <1>2, StepLock DEF OrderedInv
<1>4. ASSUME NEW v \in Worker PROVE OffsetBehindHand(v)'
  <2>1. OffsetBehindHand(v)
    BY <1>2 DEF OrderedInv
  <2>2. CASE Environment \/ UNCHANGED vars
    <3>1. UNCHANGED <<committed, phase, pos, buf, batch, resolved>>
      BY <2>2 DEF Environment, Produce, Expire, DropLock, vars, kafkaVars, rangeVars, batchVars
    <3>2. \A p \in Partition : Leading(v, p)' = Leading(v, p)
      BY <3>1 DEF Leading, Unresolved
    <3> QED BY <2>1, <3>1, <3>2 DEF OffsetBehindHand
  <2>3. ASSUME NEW w \in Worker, Cycle(w) PROVE OffsetBehindHand(v)'
    <3>1. CASE v = w
      BY <1>1, <2>1, <2>3, <3>1, CycleBehind
    <3>2. CASE v # w
      <4>1. phase'[w] # "idle" \/ phase[w] # "idle" => phase'[v] = "idle"
        <5>1. phase'[v] = phase[v]
          BY <1>1, <2>3, <3>2, OthersUntouched DEF Untouched
        <5> QED BY <1>3, <3>2, <5>1 DEF ActiveHoldsLock
      <4>2. CASE phase'[w] # "idle" \/ phase[w] # "idle"
        BY <4>1, <4>2 DEF OffsetBehindHand
      <4>3. CASE phase'[w] = "idle" /\ phase[w] = "idle"
        <5>1. Crash(w)
          BY <1>1, <2>3, <4>3
          DEF Cycle, StartCycle, Fetch, Release, Finish, GiveUp, CommitBrand, AbortBrand,
              Quarantine, QuarantineFails, SendToDlq, CommitOffsets, CommitOffsetsFails, TypeOK
        <5>2. committed' = committed /\ Untouched(v)
          BY <1>1, <2>3, <3>2, <5>1, OthersUntouched DEF Crash, kafkaVars
        <5>3. \A p \in Partition : Leading(v, p)' = Leading(v, p)
          BY <5>2 DEF Leading, Unresolved, Untouched
        <5> QED BY <2>1, <5>2, <5>3 DEF OffsetBehindHand, Untouched
      <4> QED BY <4>2, <4>3
    <3> QED BY <3>1, <3>2
  <2> QED BY <2>2, <2>3 DEF Next
<1> QED BY <1>3, <1>4

LEMMA InitOrdered == Init => OrderedInv
<1> SUFFICES ASSUME Init PROVE OrderedInv
  OBVIOUS
<1>1. \A w \in Worker : OffsetBehindHand(w)
  BY DEF Init, OffsetBehindHand
<1> QED BY <1>1, InitInv, InitLock DEF OrderedInv

-----------------------------------------------------------------------------
(* The refinement of OffsetLedger *)

\* The refinement mapping: the records of the log that are at rest.
AtRestInLog == {r \in Record : r[2] < high[r[1]] /\ AtRest(r)}

LEMMA MapInit == Init => Ledger!Init
<1> SUFFICES ASSUME Init PROVE Ledger!Init
  OBVIOUS
<1>1. AtRestInLog = {}
  <2> SUFFICES ASSUME NEW r \in Record, r[2] < high[r[1]] PROVE FALSE
    BY DEF AtRestInLog
  <2> QED BY RecordPair, OffsetRange DEF Init
<1> QED BY <1>1 DEF Init, Ledger!Init, AtRestInLog, Ledger!Record, Record, Ledger!Offset, Offset

\* Publishing appends one record to the ledger.
LEMMA MapProduce ==
  ASSUME TypeOK, NEW p \in Partition, Produce(p)
  PROVE  Ledger!Publish(p)
<1>1. /\ high[p] \in Int /\ high \in [Partition -> Int] /\ high[p] < MaxLen
      /\ high' = [high EXCEPT ![p] = @ + 1] /\ committed' = committed
  BY ConstantsAssumption DEF Produce, TypeOK
<1>2. <<p, high[p]>> \in Record
  BY <1>1, ConstantsAssumption DEF TypeOK, Record, Offset
<1>3. ASSUME NEW r \in Record PROVE AtRest(r)' <=> AtRest(r)
  BY DEF Produce, AtRest, mysqlVars
<1>4. ASSUME NEW r \in Record
      PROVE  r[2] < high'[r[1]] <=> (r[2] < high[r[1]] \/ r = <<p, high[p]>>)
  <2>1. r[1] \in Partition /\ r[2] \in Int /\ r = <<r[1], r[2]>> /\ high[r[1]] \in Int
    BY <1>1, RecordPair, OffsetRange
  <2>2. CASE r[1] = p
    <3>1. high'[r[1]] = high[p] + 1
      BY <1>1, <2>2
    <3>2. r[2] < high[p] + 1 <=> (r[2] < high[p] \/ r[2] = high[p])
      BY <1>1, <2>1
    <3>3. r = <<p, high[p]>> <=> r[2] = high[p]
      BY <2>1, <2>2
    <3> QED BY <2>2, <3>1, <3>2, <3>3
  <2>3. CASE r[1] # p
    BY <1>1, <2>1, <2>3
  <2> QED BY <2>2, <2>3
<1>5. AtRestInLog' \in {AtRestInLog, AtRestInLog \cup {<<p, high[p]>>}}
  <2>1. CASE AtRest(<<p, high[p]>>)
    BY <1>2, <1>3, <1>4, <2>1 DEF AtRestInLog
  <2>2. CASE ~AtRest(<<p, high[p]>>)
    BY <1>2, <1>3, <1>4, <2>2 DEF AtRestInLog
  <2> QED BY <2>1, <2>2
<1> QED BY <1>1, <1>5 DEF Ledger!Publish, AtRestInLog

\* A step that neither publishes nor commits lets records come to rest.
LEMMA MapRest ==
  ASSUME TypeOK, TypeOK', Growth, high' = high, committed' = committed
  PROVE  \E S \in SUBSET Record : Ledger!Rest(S)
<1>1. AtRestInLog \subseteq AtRestInLog' /\ AtRestInLog' \subseteq Record
  BY RestStays DEF AtRestInLog
<1>2. AtRestInLog' = AtRestInLog \cup AtRestInLog'
  BY <1>1
<1>3. \A r \in AtRestInLog' : r[2] < high[r[1]]
  BY DEF AtRestInLog
<1> QED BY <1>1, <1>2, <1>3 DEF Ledger!Rest, AtRestInLog

\* Committing offsets moves them over records at rest, and forwards if cycles
\* exclude each other.
LEMMA MapCommit ==
  ASSUME OrderedInv, NEW w \in Worker, OffsetsAdvance(w), phase[w] # "idle",
         UNCHANGED <<low, high, settled, dlq>>
  PROVE  Ledger!Move
<1>1. /\ committed' \in [Partition -> 0 .. MaxLen]
      /\ committed \in [Partition -> 0 .. MaxLen]
      /\ LockMayDrop \in BOOLEAN
  BY ConstantsAssumption DEF OffsetsAdvance, OrderedInv, IngestInv, TypeOK
<1>2. ASSUME NEW p \in Partition, NEW m \in 0 .. committed'[p] - 1
      PROVE  <<p, m>> \in AtRestInLog
  <2>1. committed'[p] \in Int /\ committed'[p] <= MaxLen /\ high[p] \in Int
    BY <1>1, ConstantsAssumption DEF OrderedInv, IngestInv, TypeOK
  <2>2. m \in Offset /\ m < committed'[p] /\ m \in Int
    BY <2>1, ConstantsAssumption DEF Offset
  <2>3. AtRest(<<p, m>>) /\ committed'[p] <= high[p]
    BY <2>2, AdvanceIsCovered DEF OrderedInv
  <2>4. m < high[p]
    BY <2>1, <2>2, <2>3
  <2> QED BY <2>2, <2>3, <2>4, PairRecord DEF AtRestInLog
<1>3. ASSUME NEW p \in Partition PROVE LockMayDrop \/ committed[p] <= committed'[p]
  BY AdvanceForward DEF OrderedInv
<1>4. AtRestInLog' = AtRestInLog
  BY DEF AtRestInLog, AtRest
<1>5. \A p \in Partition : Ledger!Below(p, committed'[p]) \subseteq AtRestInLog
  BY <1>2 DEF Ledger!Below
<1> QED BY <1>1, <1>3, <1>4, <1>5 DEF Ledger!Move, AtRestInLog

\* Every step of the cycle is a step of the ledger or leaves it alone.
LEMMA MapStep ==
  ASSUME OrderedInv, [Next]_vars
  PROVE  [Ledger!Next]_(Ledger!ledgerVars)
<1>1. TypeOK /\ TypeOK' /\ Growth
  BY StepTypes, StepGrows DEF OrderedInv, IngestInv
<1>2. CASE UNCHANGED vars
  BY <1>2 DEF vars, kafkaVars, mysqlVars, Ledger!ledgerVars, AtRest
<1>3. ASSUME NEW p \in Partition, Produce(p) PROVE Ledger!Next
  BY <1>1, <1>3, MapProduce DEF Ledger!Next
<1>4. ASSUME high' = high, committed' = committed PROVE Ledger!Next
  BY <1>1, <1>4, MapRest DEF Ledger!Next, Ledger!Record, Ledger!Offset, Record, Offset
<1>5. ASSUME NEW w \in Worker, CommitOffsets(w) \/ CommitOffsetsFails(w)
      PROVE  Ledger!Next
  <2>1. /\ phase[w] # "idle" /\ UNCHANGED <<low, high, settled, dlq>>
        /\ OffsetsAdvance(w) \/ committed' = committed
    BY <1>5 DEF CommitOffsets, CommitOffsetsFails
  <2> QED BY <1>4, <2>1, MapCommit DEF Ledger!Next
<1>6. ASSUME NEW w \in Worker, Cycle(w), ~CommitOffsets(w), ~CommitOffsetsFails(w)
      PROVE  high' = high /\ committed' = committed
  BY <1>6
  DEF Cycle, StartCycle, Fetch, Release, Finish, GiveUp, CommitBrand, AbortBrand,
      Quarantine, QuarantineFails, SendToDlq, Crash, kafkaVars
<1>7. (\E p \in Partition : Expire(p)) \/ DropLock => high' = high /\ committed' = committed
  BY DEF Expire, DropLock, kafkaVars
<1> QED BY <1>2, <1>3, <1>4, <1>5, <1>6, <1>7 DEF Next, Environment

\* The ingestion cycle implements at-least-once consumption, for every log and
\* any number of workers; with a run lock that holds, offsets never go back.
THEOREM IngestImplementsLedger == Spec => ImplementsLedger
<1>1. Init => OrderedInv /\ Ledger!Init
  BY InitOrdered, MapInit
<1>2. OrderedInv /\ [Next]_vars => OrderedInv' /\ [Ledger!Next]_(Ledger!ledgerVars)
  BY StepOrdered, MapStep
<1> QED BY <1>1, <1>2, PTL DEF Spec, ImplementsLedger, Ledger!Spec

-----------------------------------------------------------------------------
(* The quarantine *)

\* Records whose rejection MySQL or the parser can be blamed for.
Blamed == {r \in Record : \/ KindOf[r] \in {"poison", "rejected"}
                          \/ ActorOf[r] \in FragileActor}

\* Only such records are counted out of attempts.
QuarantineInv == dlq \subseteq Blamed /\ \A w \in Worker : spent[w] \subseteq Blamed

LEMMA StepQuarantine ==
  ASSUME TypeOK, QuarantineInv, [Next]_vars
  PROVE  QuarantineInv'
<1>1. CASE UNCHANGED <<dlq, spent>>
  BY <1>1 DEF QuarantineInv
<1>2. ASSUME NEW w \in Worker, Leave(w), dlq' = dlq PROVE QuarantineInv'
  <2>1. \A v \in Worker : spent'[v] \subseteq spent[v]
    BY <1>2 DEF Leave, TypeOK
  <2> QED BY <1>2, <2>1 DEF QuarantineInv
<1>3. ASSUME NEW w \in Worker, NEW b \in Brand, CommitBrand(w, b)
      PROVE  QuarantineInv'
  <2>1. PICK refused \in SUBSET FragileActor :
          \E bad \in SUBSET Failing(Items(w, b), refused) :
            spent' = [spent EXCEPT ![w] = @ \cup bad]
    BY <1>3 DEF CommitBrand
  <2>2. Items(w, b) \subseteq Record
    BY DEF Items, Parsed, Unresolved, TypeOK
  <2>3. Failing(Items(w, b), refused) \subseteq Blamed
    BY <2>2 DEF Failing, Blamed
  <2>4. dlq' = dlq
    BY <1>3 DEF CommitBrand, kafkaVars
  <2>5. \A v \in Worker : spent'[v] \subseteq spent[v] \cup Blamed
    BY <2>1, <2>3 DEF TypeOK
  <2> QED BY <2>4, <2>5 DEF QuarantineInv
<1>4. ASSUME NEW w \in Worker, NEW arrived \in SUBSET DlqEntries(w), NEW acked,
             SendToDlq(w, arrived, acked)
      PROVE  QuarantineInv'
  <2>1. DlqEntries(w) \subseteq Blamed
    BY DEF DlqEntries, Unresolved, Blamed, QuarantineInv, TypeOK
  <2>2. \A v \in Worker : spent'[v] \subseteq spent[v]
    BY <1>4 DEF SendToDlq, TypeOK
  <2> QED BY <1>4, <2>1, <2>2 DEF SendToDlq, QuarantineInv
<1>5. ASSUME NEW w \in Worker, CommitOffsets(w) PROVE QuarantineInv'
  BY <1>1, <1>2, <1>5 DEF CommitOffsets
<1> QED
  BY <1>1, <1>2, <1>3, <1>4, <1>5
  DEF Next, Environment, Cycle, Produce, Expire, DropLock, StartCycle, Fetch, Release,
      Finish, GiveUp, AbortBrand, Quarantine, QuarantineFails, CommitOffsetsFails, Crash,
      vars, kafkaVars, batchVars

\* A healthy record never reaches the DLQ, whatever else fails or crashes.
THEOREM HealthyNeverLost == Spec => []HealthyNeverQuarantined
<1>1. Init => QuarantineInv
  BY DEF Init, QuarantineInv
<1>2. TypeOK /\ QuarantineInv /\ [Next]_vars => TypeOK' /\ QuarantineInv'
  BY StepQuarantine, StepTypes
<1>3. QuarantineInv => HealthyNeverQuarantined
  BY DEF QuarantineInv, Blamed, HealthyNeverQuarantined
<1> QED BY <1>1, <1>2, <1>3, InitTypes, PTL DEF Spec

-----------------------------------------------------------------------------
(* The retry loop *)

\* Nothing in a worker's hands is a control record: fetching leaves them out.
HeldCarriesMessage(w) == \A r \in buf[w] \cup batch[w] : KindOf[r] # "control"

\* A pass starts with no record out of attempts, a batch with nothing resolved.
FreshOutsideBatch(w) ==
  /\ phase[w] # "apply" => todo[w] = {} /\ spent[w] = {}
  /\ phase[w] \in {"idle", "drain"} => resolved[w] = {} /\ ~faulty[w] /\ passes[w] = 0

\* The record was rejected in this pass and in every one before it, and may be
\* tried again.
TriedThisPass(w, r) == passes[w] + 1 <= attempts[w][r] /\ attempts[w][r] < MaxAttempts

\* Without a fault every unresolved record has an attempt for each pass: those
\* of brands still to come for the earlier passes, the others for this one too.
AttemptsCount(w) ==
  ~faulty[w] =>
    /\ phase[w] = "apply" =>
         \A r \in Parsed(Unresolved(w)) :
           IF BrandOf[r] \in todo[w] THEN passes[w] <= attempts[w][r]
           ELSE r \in spent[w] \/ TriedThisPass(w, r)
    /\ phase[w] = "commit" => \A r \in Unresolved(w) : TriedThisPass(w, r)

PassInv(w) == HeldCarriesMessage(w) /\ FreshOutsideBatch(w) /\ AttemptsCount(w)

\* What PassInv(v) speaks of is left alone.
PassUntouched(v) ==
  /\ phase'[v] = phase[v] /\ buf'[v] = buf[v] /\ batch'[v] = batch[v]
  /\ todo'[v] = todo[v] /\ resolved'[v] = resolved[v] /\ spent'[v] = spent[v]
  /\ faulty'[v] = faulty[v] /\ passes'[v] = passes[v] /\ attempts'[v] = attempts[v]

LEMMA PassStays ==
  ASSUME NEW v \in Worker, PassInv(v), PassUntouched(v)
  PROVE  PassInv(v)'
<1>1. HeldCarriesMessage(v)' /\ FreshOutsideBatch(v)'
  BY DEF PassInv, HeldCarriesMessage, FreshOutsideBatch, PassUntouched
<1>2. Unresolved(v)' = Unresolved(v) /\ \A r : TriedThisPass(v, r)' <=> TriedThisPass(v, r)
  BY DEF Unresolved, TriedThisPass, PassUntouched
<1>3. AttemptsCount(v)'
  BY <1>2 DEF PassInv, AttemptsCount, PassUntouched, Parsed
<1> QED BY <1>1, <1>3 DEF PassInv

LEMMA OthersKeepPass ==
  ASSUME TypeOK, NEW w \in Worker, Cycle(w), NEW v \in Worker, v # w
  PROVE  PassUntouched(v)
<1>1. Untouched(v)
  BY OthersUntouched
<1>2. /\ todo'[v] = todo[v] /\ spent'[v] = spent[v] /\ faulty'[v] = faulty[v]
      /\ passes'[v] = passes[v]
  <2>1. CASE Leave(w)
    BY <2>1 DEF Leave, TypeOK
  <2>2. CASE UNCHANGED batchVars
    BY <2>2 DEF batchVars
  <2>3. CASE Release(w)
    BY <2>3 DEF Release, TypeOK
  <2>4. ASSUME NEW b \in Brand, CommitBrand(w, b) \/ AbortBrand(w, b)
        PROVE  /\ todo'[v] = todo[v] /\ spent'[v] = spent[v] /\ faulty'[v] = faulty[v]
               /\ passes'[v] = passes[v]
    BY <2>4 DEF CommitBrand, AbortBrand, TypeOK
  <2>5. ASSUME NEW arrived, NEW acked, SendToDlq(w, arrived, acked)
        PROVE  /\ todo'[v] = todo[v] /\ spent'[v] = spent[v] /\ faulty'[v] = faulty[v]
               /\ passes'[v] = passes[v]
    BY <2>5 DEF SendToDlq, TypeOK
  <2>6. CASE CommitOffsets(w) /\ ~Leave(w)
    BY <2>6 DEF CommitOffsets, TypeOK
  <2> QED
    BY <2>1, <2>2, <2>3, <2>4, <2>5, <2>6
    DEF Cycle, StartCycle, Fetch, Finish, GiveUp, Quarantine, QuarantineFails,
        CommitOffsetsFails, Crash
<1>3. attempts'[v] = attempts[v]
  <2>1. CASE UNCHANGED attempts
    BY <2>1
  <2>2. ASSUME NEW b \in Brand, CommitBrand(w, b) PROVE attempts'[v] = attempts[v]
    BY <2>2 DEF CommitBrand, TypeOK
  <2>3. ASSUME NEW arrived, NEW acked, SendToDlq(w, arrived, acked)
        PROVE  attempts'[v] = attempts[v]
    BY <2>3 DEF SendToDlq, TypeOK
  <2>4. CASE Crash(w)
    BY <2>4 DEF Crash, TypeOK
  <2> QED
    BY <2>1, <2>2, <2>3, <2>4
    DEF Cycle, StartCycle, Fetch, Release, Finish, GiveUp, AbortBrand, Quarantine,
        QuarantineFails, CommitOffsets, CommitOffsetsFails, memory
<1> QED BY <1>1, <1>2, <1>3 DEF Untouched, PassUntouched

\* A worker that leaves its cycle starts the next one afresh.
LEMMA LeavePass ==
  ASSUME TypeOK, NEW w \in Worker, Leave(w)
  PROVE  PassInv(w)'
<1>1. /\ phase'[w] = "idle" /\ buf'[w] = {} /\ batch'[w] = {} /\ todo'[w] = {}
      /\ resolved'[w] = {} /\ spent'[w] = {} /\ ~faulty'[w] /\ passes'[w] = 0
  <2>1. phase'[w] = "idle" /\ faulty'[w] = FALSE /\ passes'[w] = 0
    BY DEF Leave, TypeOK
  <2>2. /\ buf'[w] = {} /\ batch'[w] = {} /\ todo'[w] = {} /\ resolved'[w] = {}
        /\ spent'[w] = {}
    BY DEF Leave, TypeOK
  <2> QED BY <2>1, <2>2
<1> QED BY <1>1 DEF PassInv, HeldCarriesMessage, FreshOutsideBatch, AttemptsCount

\* Starting a cycle and fetching happen outside a batch.
LEMMA DrainPass ==
  ASSUME TypeOK, NEW w \in Worker, PassInv(w), phase[w] \in {"idle", "drain"},
         phase'[w] = "drain", UNCHANGED batchVars,
         \A r \in buf'[w] \ buf[w] : KindOf[r] # "control"
  PROVE  PassInv(w)'
<1>1. HeldCarriesMessage(w)'
  BY DEF PassInv, HeldCarriesMessage, batchVars
<1>2. FreshOutsideBatch(w)' /\ AttemptsCount(w)'
  BY DEF PassInv, FreshOutsideBatch, AttemptsCount, batchVars
<1> QED BY <1>1, <1>2 DEF PassInv

\* The first pass over a batch: no pass is complete, every brand is to come.
LEMMA ReleasePass ==
  ASSUME TypeOK, NEW w \in Worker, PassInv(w), Release(w)
  PROVE  PassInv(w)'
<1>1. PICK S \in SUBSET buf[w] :
        /\ batch'[w] = S /\ buf'[w] = buf[w] \ S /\ todo'[w] = BrandsOf(S)
  BY DEF Release, TypeOK
<1>2. /\ phase[w] = "drain" /\ phase'[w] = "apply"
      /\ resolved' = resolved /\ spent' = spent /\ faulty' = faulty /\ passes' = passes
      /\ attempts' = attempts
  BY DEF Release, TypeOK, memory
<1>3. resolved[w] = {} /\ passes[w] = 0
  BY <1>2 DEF PassInv, FreshOutsideBatch
<1>4. HeldCarriesMessage(w)'
  BY <1>1 DEF PassInv, HeldCarriesMessage
<1>5. FreshOutsideBatch(w)'
  BY <1>2 DEF FreshOutsideBatch
<1>6. ASSUME NEW r \in Parsed(S) PROVE BrandOf[r] \in todo'[w] /\ passes[w] <= attempts[w][r]
  <2>1. r \in Record
    BY DEF Parsed, TypeOK
  <2>2. attempts[w][r] \in 0 .. MaxAttempts
    BY <2>1 DEF TypeOK
  <2> QED BY <1>1, <1>3, <2>2, ConstantsAssumption DEF BrandsOf
<1>7. Unresolved(w)' = S
  BY <1>1, <1>2, <1>3 DEF Unresolved
<1>8. Parsed(Unresolved(w)') = Parsed(S)
  BY <1>7
<1>9. AttemptsCount(w)'
  BY <1>2, <1>6, <1>8 DEF AttemptsCount, Parsed
<1> QED BY <1>4, <1>5, <1>9 DEF PassInv

\* The transaction of a brand resolves its records or counts an attempt.
LEMMA BrandPass ==
  ASSUME TypeOK, NEW w \in Worker, PassInv(w), NEW b \in Brand, CommitBrand(w, b)
  PROVE  PassInv(w)'
<1> DEFINE items == Items(w, b)
<1>1. PICK refused \in SUBSET FragileActor :
        LET failed == Failing(items, refused)
            tries  == [r \in Record |->
                         IF r \in failed
                         THEN IF attempts[w][r] < MaxAttempts
                              THEN attempts[w][r] + 1 ELSE MaxAttempts
                         ELSE IF r \in items THEN 0 ELSE attempts[w][r]]
        IN  /\ resolved' = [resolved EXCEPT ![w] = @ \cup (items \ failed)]
            /\ attempts' = [attempts EXCEPT ![w] = tries]
            /\ spent' = [spent EXCEPT ![w] = @ \cup {r \in failed : tries[r] >= MaxAttempts}]
  BY DEF CommitBrand
<1> DEFINE failed == Failing(items, refused)
           tries  == [r \in Record |->
                        IF r \in failed
                        THEN IF attempts[w][r] < MaxAttempts
                             THEN attempts[w][r] + 1 ELSE MaxAttempts
                        ELSE IF r \in items THEN 0 ELSE attempts[w][r]]
<1>2. /\ phase[w] = "apply" /\ phase' = phase /\ buf' = buf /\ batch' = batch
      /\ faulty' = faulty /\ passes' = passes /\ todo'[w] = todo[w] \ {b}
  BY DEF CommitBrand, TypeOK, rangeVars
<1>3. /\ resolved'[w] = resolved[w] \cup (items \ failed)
      /\ attempts'[w] = tries
      /\ spent'[w] = spent[w] \cup {r \in failed : tries[r] >= MaxAttempts}
  BY <1>1 DEF TypeOK
<1>4. failed \subseteq items
  BY DEF Failing
<1>5. \A r \in Record : r \in items <=> r \in Parsed(Unresolved(w)) /\ BrandOf[r] = b
  BY DEF Items
<1> HIDE DEF items, failed
<1>6. HeldCarriesMessage(w)' /\ FreshOutsideBatch(w)'
  BY <1>2 DEF PassInv, HeldCarriesMessage, FreshOutsideBatch
<1>7. Unresolved(w)' \subseteq Unresolved(w)
      /\ \A r \in Unresolved(w)' : r \notin items \/ r \in failed
  BY <1>2, <1>3 DEF Unresolved
<1>8. ASSUME ~faulty[w], NEW r \in Parsed(Unresolved(w)')
      PROVE  IF BrandOf[r] \in todo'[w] THEN passes[w] <= attempts'[w][r]
             ELSE r \in spent'[w] \/ (/\ passes[w] + 1 <= attempts'[w][r]
                                      /\ attempts'[w][r] < MaxAttempts)
  <2>1. r \in Record /\ r \in Parsed(Unresolved(w)) /\ r \in Unresolved(w)'
    BY <1>7, <1>8 DEF Parsed, Unresolved, TypeOK
  <2>2. attempts[w][r] \in 0 .. MaxAttempts /\ passes[w] \in 0 .. MaxAttempts
    BY <2>1 DEF TypeOK
  <2>3. IF BrandOf[r] \in todo[w] THEN passes[w] <= attempts[w][r]
        ELSE r \in spent[w] \/ TriedThisPass(w, r)
    BY <1>2, <1>8, <2>1 DEF PassInv, AttemptsCount
  <2>4. CASE BrandOf[r] = b
    <3>1. r \in items /\ r \in failed
      BY <1>5, <1>7, <2>1, <2>4
    <3>2. attempts'[w][r] = IF attempts[w][r] < MaxAttempts
                            THEN attempts[w][r] + 1 ELSE MaxAttempts
      BY <1>3, <2>1, <3>1
    <3>3. BrandOf[r] \in todo[w] /\ BrandOf[r] \notin todo'[w]
      BY <1>2, <2>4 DEF CommitBrand
    <3>4. passes[w] <= attempts[w][r]
      BY <2>3, <3>3
    <3>5. CASE attempts'[w][r] >= MaxAttempts
      <4>1. r \in spent'[w]
        BY <1>3, <2>1, <3>1, <3>5
      <4> QED BY <3>3, <4>1
    <3>6. CASE ~(attempts'[w][r] >= MaxAttempts)
      <4>1. /\ passes[w] + 1 <= attempts'[w][r]
            /\ attempts'[w][r] < MaxAttempts
        BY <2>2, <3>2, <3>4, <3>6, ConstantsAssumption
      <4> QED BY <3>3, <4>1
    <3> QED BY <3>5, <3>6
  <2>5. CASE BrandOf[r] # b
    <3>1. r \notin items /\ r \notin failed
      BY <1>4, <1>5, <2>1, <2>5
    <3>2. attempts'[w][r] = attempts[w][r]
      BY <1>3, <2>1, <3>1
    <3>3. BrandOf[r] \in todo[w] <=> BrandOf[r] \in todo'[w]
      BY <1>2, <2>5
    <3>4. r \in spent[w] => r \in spent'[w]
      BY <1>3
    <3> QED BY <2>3, <3>2, <3>3, <3>4 DEF TriedThisPass
  <2> QED BY <2>4, <2>5
<1>9. AttemptsCount(w)'
  <2>1. passes'[w] = passes[w] /\ faulty'[w] = faulty[w] /\ phase'[w] = "apply"
    BY <1>2
  <2>2. Parsed(Unresolved(w))' = Parsed(Unresolved(w)')
    BY DEF Parsed
  <2> QED BY <1>8, <2>1, <2>2 DEF AttemptsCount, TriedThisPass
<1> QED BY <1>6, <1>9 DEF PassInv

\* The quarantine ends a pass.  If every record it names is acknowledged, those
\* that stay unresolved parse and have attempts left.
LEMMA QuarantinePass ==
  ASSUME TypeOK, NEW w \in Worker, PassInv(w), NEW arrived, NEW acked,
         SendToDlq(w, arrived, acked)
  PROVE  PassInv(w)'
<1>1. /\ phase[w] = "apply" /\ todo[w] = {} /\ phase'[w] = "commit"
      /\ resolved'[w] = resolved[w] \cup acked
      /\ attempts'[w] = [r \in Record |-> IF r \in acked THEN 0 ELSE attempts[w][r]]
      /\ spent'[w] = {} /\ todo' = todo /\ passes' = passes /\ batch' = batch /\ buf' = buf
  BY DEF SendToDlq, TypeOK, rangeVars
<1>2. faulty'[w] = (faulty[w] \/ acked # DlqEntries(w))
  BY DEF SendToDlq, TypeOK
<1>3. HeldCarriesMessage(w)' /\ FreshOutsideBatch(w)'
  BY <1>1 DEF PassInv, HeldCarriesMessage, FreshOutsideBatch
<1>4. ASSUME ~faulty'[w], NEW r \in Unresolved(w)'
      PROVE  passes[w] + 1 <= attempts'[w][r] /\ attempts'[w][r] < MaxAttempts
  <2>1. ~faulty[w] /\ acked = DlqEntries(w)
    BY <1>2, <1>4
  <2>2. r \in Unresolved(w) /\ r \notin DlqEntries(w) /\ r \in batch[w]
    BY <1>1, <1>4, <2>1 DEF Unresolved
  <2>3. r \in Record
    BY <2>2 DEF TypeOK
  <2>4. KindOf[r] # "poison" /\ r \notin spent[w] /\ KindOf[r] # "control"
    BY <2>2 DEF DlqEntries, PassInv, HeldCarriesMessage
  <2>5. r \in Parsed(Unresolved(w))
    BY <2>2, <2>3, <2>4, ConstantsAssumption DEF Parsed, Kind
  <2>6. TriedThisPass(w, r)
    BY <1>1, <2>1, <2>4, <2>5 DEF PassInv, AttemptsCount
  <2>7. attempts'[w][r] = attempts[w][r]
    BY <1>1, <2>1, <2>2, <2>3
  <2> QED BY <2>6, <2>7 DEF TriedThisPass
<1>5. AttemptsCount(w)'
  <2>1. passes'[w] = passes[w]
    BY <1>1
  <2> QED BY <1>1, <1>4, <2>1 DEF AttemptsCount, TriedThisPass
<1> QED BY <1>3, <1>5 DEF PassInv

\* Committing the offsets ends the batch, or starts the next pass over it.
LEMMA CommitPass ==
  ASSUME TypeOK, NEW w \in Worker, PassInv(w), CommitOffsets(w)
  PROVE  PassInv(w)'
<1>1. phase[w] = "commit" /\ attempts' = attempts
  BY DEF CommitOffsets, memory
<1>2. CASE Leave(w)
  BY <1>2, LeavePass
<1>3. CASE /\ phase' = [phase EXCEPT ![w] = "drain"]
           /\ batch' = [batch EXCEPT ![w] = {}]
           /\ resolved' = [resolved EXCEPT ![w] = {}]
           /\ faulty' = [faulty EXCEPT ![w] = FALSE]
           /\ passes' = [passes EXCEPT ![w] = 0]
           /\ UNCHANGED <<lock, rangeVars, todo, spent>>
  <2>1. /\ phase'[w] = "drain" /\ batch'[w] = {} /\ resolved'[w] = {}
        /\ ~faulty'[w] /\ passes'[w] = 0 /\ todo' = todo /\ spent' = spent /\ buf' = buf
    BY <1>3 DEF TypeOK, rangeVars
  <2>2. todo[w] = {} /\ spent[w] = {}
    BY <1>1 DEF PassInv, FreshOutsideBatch
  <2> QED
    BY <2>1, <2>2 DEF PassInv, HeldCarriesMessage, FreshOutsideBatch, AttemptsCount
<1>4. CASE /\ ~faulty[w]
           /\ passes[w] < MaxAttempts
           /\ phase' = [phase EXCEPT ![w] = "apply"]
           /\ todo' = [todo EXCEPT ![w] = BrandsOf(Unresolved(w))]
           /\ passes' = [passes EXCEPT ![w] = @ + 1]
           /\ UNCHANGED <<lock, rangeVars, batch, resolved, spent, faulty>>
  <2>1. /\ phase'[w] = "apply" /\ todo'[w] = BrandsOf(Unresolved(w))
        /\ passes'[w] = passes[w] + 1 /\ Unresolved(w)' = Unresolved(w)
        /\ buf' = buf /\ batch' = batch
    BY <1>4 DEF TypeOK, rangeVars, Unresolved
  <2>2. HeldCarriesMessage(w)' /\ FreshOutsideBatch(w)'
    BY <2>1 DEF PassInv, HeldCarriesMessage, FreshOutsideBatch
  <2>3. ASSUME NEW r \in Parsed(Unresolved(w))
        PROVE  BrandOf[r] \in todo'[w] /\ passes'[w] <= attempts'[w][r]
    <3>1. r \in Unresolved(w) /\ BrandOf[r] \in BrandsOf(Unresolved(w))
      BY DEF Parsed, BrandsOf
    <3>2. TriedThisPass(w, r)
      BY <1>1, <1>4, <3>1 DEF PassInv, AttemptsCount
    <3> QED BY <1>1, <2>1, <3>1, <3>2 DEF TriedThisPass
  <2>4. AttemptsCount(w)'
    BY <2>1, <2>3 DEF AttemptsCount, Parsed
  <2> QED BY <2>2, <2>4 DEF PassInv
<1> QED BY <1>2, <1>3, <1>4 DEF CommitOffsets

LEMMA CyclePass ==
  ASSUME TypeOK, NEW w \in Worker, PassInv(w), Cycle(w)
  PROVE  PassInv(w)'
<1>1. CASE Leave(w)
  BY <1>1, LeavePass
<1>2. CASE StartCycle(w)
  BY <1>2, DrainPass DEF StartCycle, TypeOK
<1>3. ASSUME NEW p \in Partition, Fetch(w, p) PROVE PassInv(w)'
  <2>1. \A r \in buf'[w] \ buf[w] : KindOf[r] # "control"
    BY <1>3 DEF Fetch, TypeOK
  <2> QED BY <1>3, <2>1, DrainPass DEF Fetch
<1>4. ASSUME NEW b \in Brand, AbortBrand(w, b) PROVE PassInv(w)'
  <2>1. /\ phase[w] = "apply" /\ phase' = phase /\ buf' = buf /\ batch' = batch
        /\ faulty'[w] = TRUE
    BY <1>4 DEF AbortBrand, TypeOK, rangeVars
  <2> QED
    BY <2>1 DEF PassInv, HeldCarriesMessage, FreshOutsideBatch, AttemptsCount
<1> QED
  BY <1>1, <1>2, <1>3, <1>4, ReleasePass, BrandPass, QuarantinePass, CommitPass
  DEF Cycle, Finish, GiveUp, Quarantine, QuarantineFails, CommitOffsetsFails, Crash

LEMMA StepPass ==
  ASSUME TypeOK, \A w \in Worker : PassInv(w), [Next]_vars
  PROVE  \A w \in Worker : PassInv(w)'
<1> SUFFICES ASSUME NEW v \in Worker PROVE PassInv(v)'
  OBVIOUS
<1>1. CASE Environment \/ UNCHANGED vars
  <2>1. PassUntouched(v)
    BY <1>1
    DEF Environment, Produce, Expire, DropLock, vars, rangeVars, batchVars, memory, PassUntouched
  <2> QED BY <2>1, PassStays
<1>2. ASSUME NEW w \in Worker, Cycle(w) PROVE PassInv(v)'
  <2>1. CASE v = w
    BY <1>2, <2>1, CyclePass
  <2>2. CASE v # w
    BY <1>2, <2>2, OthersKeepPass, PassStays
  <2> QED BY <2>1, <2>2
<1> QED BY <1>1, <1>2 DEF Next

\* Without a fault the retry loop settles its batch within MaxAttempts passes,
\* for any log and any bound on the attempts.
THEOREM BatchAlwaysSettles == Spec => []BatchSettlesInTime
<1>1. Init => \A w \in Worker : PassInv(w)
  BY DEF Init, PassInv, HeldCarriesMessage, FreshOutsideBatch, AttemptsCount
<1>2. TypeOK /\ (\A w \in Worker : PassInv(w)) /\ [Next]_vars
        => TypeOK' /\ (\A w \in Worker : PassInv(w))'
  BY StepTypes, StepPass
<1>3. TypeOK /\ (\A w \in Worker : PassInv(w)) => BatchSettlesInTime
  <2> SUFFICES ASSUME TypeOK, NEW w \in Worker, PassInv(w), phase[w] = "commit",
                      passes[w] >= MaxAttempts - 1, ~faulty[w], NEW r \in Unresolved(w)
               PROVE  FALSE
    BY DEF BatchSettlesInTime
  <2>1. TriedThisPass(w, r)
    BY DEF PassInv, AttemptsCount
  <2>2. attempts[w][r] \in 0 .. MaxAttempts /\ passes[w] \in 0 .. MaxAttempts
    BY DEF Unresolved, TypeOK
  <2> QED BY <2>1, <2>2, ConstantsAssumption DEF TriedThisPass
<1> QED BY <1>1, <1>2, <1>3, InitTypes, PTL DEF Spec

-----------------------------------------------------------------------------
(* Nothing released is forgotten *)

\* What an active worker has fetched beyond the committed offset it still has
\* in hand, unless it carries no message or has expired.
HandAhead(w) ==
  phase[w] # "idle" =>
    \A p \in Partition, o \in Offset :
      low[p] <= o /\ committed[p] <= o /\ o < pos[w][p] =>
        <<p, o>> \in buf[w] \cup batch[w] \/ KindOf[<<p, o>>] = "control"

\* The committed offset and the log's start only move forward under a worker
\* that keeps what it has.
LEMMA AheadStays ==
  ASSUME TypeOK, TypeOK', Growth, NEW v \in Worker, HandAhead(v), phase[v] # "idle",
         pos'[v] = pos[v], buf[v] \cup batch[v] \subseteq buf'[v] \cup batch'[v],
         \A p \in Partition : committed[p] <= committed'[p]
  PROVE  HandAhead(v)'
<1> SUFFICES ASSUME NEW p \in Partition, NEW o \in Offset,
                    low'[p] <= o, committed'[p] <= o, o < pos[v][p]
             PROVE  <<p, o>> \in buf'[v] \cup batch'[v] \/ KindOf[<<p, o>>] = "control"
  BY DEF HandAhead
<1>1. /\ low[p] \in Int /\ low'[p] \in Int /\ committed[p] \in Int
      /\ committed'[p] \in Int /\ o \in Int
  BY OffsetRange, ConstantsAssumption DEF TypeOK
<1>2. low[p] <= low'[p] /\ committed[p] <= committed'[p]
  BY DEF Growth
<1>3. low[p] <= o /\ committed[p] <= o
  BY <1>1, <1>2
<1> QED BY <1>3 DEF HandAhead

\* A batch is dropped only when all of it lies below the new committed offset.
LEMMA CommitAhead ==
  ASSUME OrderedInv, ~LockMayDrop, TypeOK', Growth, NEW w \in Worker, HandAhead(w),
         CommitOffsets(w), phase'[w] # "idle"
  PROVE  HandAhead(w)'
<1>1. /\ TypeOK /\ phase[w] = "commit" /\ low' = low
      /\ OffsetsAdvance(w) /\ UNCHANGED rangeVars
  BY DEF CommitOffsets, OrderedInv, IngestInv, Leave, TypeOK
<1>2. \A p \in Partition : committed[p] <= committed'[p]
  BY <1>1, AdvanceForward DEF OrderedInv
<1>3. CASE batch' = batch
  BY <1>1, <1>2, <1>3, AheadStays DEF rangeVars
<1>4. CASE Unresolved(w) = {}
  <2> SUFFICES ASSUME NEW p \in Partition, NEW o \in Offset,
                      low[p] <= o, committed'[p] <= o, o < pos[w][p]
               PROVE  <<p, o>> \in buf[w] \/ KindOf[<<p, o>>] = "control"
    BY <1>1 DEF HandAhead, rangeVars
  <2>1. committed[p] \in Int /\ committed'[p] \in Int /\ o \in Int /\ committed[p] <= o
    BY <1>1, <1>2, OffsetRange, ConstantsAssumption DEF TypeOK
  <2>2. <<p, o>> \in buf[w] \cup batch[w] \/ KindOf[<<p, o>>] = "control"
    BY <1>1, <2>1 DEF HandAhead
  <2>3. <<p, o>> \notin batch[w]
    <3> SUFFICES ASSUME <<p, o>> \in batch[w] PROVE FALSE
      OBVIOUS
    <3>1. o \in Leading(w, p)
      BY <1>4 DEF Leading
    <3>2. CommitsTo(w, p, committed'[p])
      BY <1>1 DEF OffsetsAdvance
    <3>3. PICK last \in Leading(w, p) : committed'[p] = last + 1 /\ o <= last
      BY <3>1, <3>2 DEF CommitsTo
    <3>4. last \in Int
      BY OffsetRange DEF Leading
    <3> QED BY <2>1, <3>3, <3>4
  <2> QED BY <2>2, <2>3
<1> QED BY <1>1, <1>3, <1>4 DEF CommitOffsets, Leave, TypeOK

\* Fetching leaves no gap: what it skips has expired or carries no message.
LEMMA FetchAhead ==
  ASSUME TypeOK, TypeOK', NEW w \in Worker, HandAhead(w), NEW q \in Partition, Fetch(w, q)
  PROVE  HandAhead(w)'
<1> DEFINE from == IF pos[w][q] < low[q] THEN low[q] ELSE pos[w][q]
<1>1. /\ phase[w] = "drain" /\ batch' = batch /\ low' = low /\ committed' = committed
  BY DEF Fetch, batchVars, kafkaVars
<1>2. from \in Int /\ pos[w][q] \in Int /\ low[q] \in Int
  BY ConstantsAssumption DEF TypeOK
<1>3. \A o \in Int : pos[w][q] <= o /\ o < from => o < low[q]
  BY <1>2
<1>4. \/ pos' = [pos EXCEPT ![w][q] = from] /\ buf' = buf
      \/ /\ pos' = [pos EXCEPT ![w][q] = from + 1]
         /\ buf' = [buf EXCEPT ![w] = @ \cup {r \in {<<q, from>>} : KindOf[r] # "control"}]
  BY DEF Fetch
<1> HIDE DEF from
<1>5. /\ buf[w] \subseteq buf'[w]
      /\ \A p \in Partition : p # q => pos'[w][p] = pos[w][p]
      /\ \/ pos'[w][q] = from
         \/ /\ pos'[w][q] = from + 1
            /\ <<q, from>> \in buf'[w] \/ KindOf[<<q, from>>] = "control"
  <2> pos \in [Worker -> [Partition -> 0 .. MaxLen]] /\ buf \in [Worker -> SUBSET Record]
    BY DEF TypeOK
  <2>1. CASE pos' = [pos EXCEPT ![w][q] = from] /\ buf' = buf
    <3>1. pos'[w] = [pos[w] EXCEPT ![q] = from] /\ buf'[w] = buf[w]
      BY <2>1
    <3> QED BY <3>1
  <2>2. CASE /\ pos' = [pos EXCEPT ![w][q] = from + 1]
             /\ buf' = [buf EXCEPT ![w] = @ \cup {r \in {<<q, from>>} : KindOf[r] # "control"}]
    <3>1. /\ pos'[w] = [pos[w] EXCEPT ![q] = from + 1]
          /\ buf'[w] = buf[w] \cup {r \in {<<q, from>>} : KindOf[r] # "control"}
      BY <2>2
    <3> QED BY <3>1
  <2> QED BY <1>4, <2>1, <2>2
<1> SUFFICES ASSUME NEW p \in Partition, NEW o \in Offset,
                    low[p] <= o, committed[p] <= o, o < pos'[w][p]
             PROVE  <<p, o>> \in buf'[w] \cup batch[w] \/ KindOf[<<p, o>>] = "control"
  BY <1>1 DEF HandAhead
<1>6. o \in Int /\ low[p] \in Int
  BY OffsetRange, ConstantsAssumption DEF TypeOK
<1>7. CASE o < pos[w][p]
  BY <1>1, <1>5, <1>7 DEF HandAhead
<1>8. CASE ~(o < pos[w][p])
  <2>1. p = q
    BY <1>5, <1>8
  <2>2. ~(o < from)
    BY <1>2, <1>3, <1>6, <1>8, <2>1
  <2>3. o = from /\ pos'[w][q] # from
    BY <1>2, <1>5, <1>6, <2>1, <2>2
  <2> QED BY <1>5, <2>1, <2>3
<1> QED BY <1>7, <1>8

LEMMA CycleAhead ==
  ASSUME OrderedInv, ~LockMayDrop, TypeOK', Growth, NEW w \in Worker, HandAhead(w), Cycle(w)
  PROVE  HandAhead(w)'
<1> TypeOK
  BY DEF OrderedInv, IngestInv
<1> \A p \in Partition : committed[p] \in Int
  BY ConstantsAssumption DEF TypeOK
<1>1. CASE Leave(w)
  BY <1>1 DEF Leave, HandAhead, TypeOK
<1>2. CASE StartCycle(w)
  <2>1. /\ low' = low /\ committed' = committed
        /\ pos'[w] = [p \in Partition |-> StartOffset(p)]
    BY <1>2 DEF StartCycle, kafkaVars, TypeOK
  <2>2. ASSUME NEW p \in Partition, NEW o \in Offset, o < StartOffset(p)
        PROVE  ~(low[p] <= o /\ committed[p] <= o)
    BY <2>2, OffsetRange, ConstantsAssumption DEF StartOffset, TypeOK
  <2> QED BY <2>1, <2>2 DEF HandAhead
<1>3. ASSUME NEW p \in Partition, Fetch(w, p) PROVE HandAhead(w)'
  BY <1>3, FetchAhead
<1>4. CASE Release(w)
  <2>1. PICK S \in SUBSET buf[w] :
          batch' = [batch EXCEPT ![w] = S] /\ buf' = [buf EXCEPT ![w] = @ \ S]
    BY <1>4 DEF Release
  <2>2. buf'[w] \cup batch'[w] = buf[w] /\ batch[w] = {}
    BY <1>4, <2>1 DEF Release, TypeOK, OrderedInv, IngestInv, HandInv, HandMatchesPhase
  <2>3. phase[w] # "idle" /\ pos' = pos /\ committed' = committed
    BY <1>4 DEF Release, kafkaVars
  <2> QED BY <2>2, <2>3, AheadStays
<1>5. ASSUME NEW b \in Brand, CommitBrand(w, b) \/ AbortBrand(w, b)
      PROVE  HandAhead(w)'
  <2>1. phase[w] # "idle" /\ UNCHANGED <<pos, buf, batch, committed>>
    BY <1>5 DEF CommitBrand, AbortBrand, kafkaVars, rangeVars
  <2> QED BY <2>1, AheadStays
<1>6. ASSUME NEW arrived, NEW acked, SendToDlq(w, arrived, acked) PROVE HandAhead(w)'
  <2>1. phase[w] # "idle" /\ UNCHANGED <<pos, buf, batch, committed>>
    BY <1>6 DEF SendToDlq, rangeVars
  <2> QED BY <2>1, AheadStays
<1>7. CASE CommitOffsets(w) /\ phase'[w] # "idle"
  BY <1>7, CommitAhead
<1>8. CASE CommitOffsets(w) /\ phase'[w] = "idle"
  BY <1>8 DEF HandAhead
<1> QED
  BY <1>1, <1>2, <1>3, <1>4, <1>5, <1>6, <1>7, <1>8
  DEF Cycle, Finish, GiveUp, Quarantine, QuarantineFails, CommitOffsetsFails, Crash

LEMMA StepAhead ==
  ASSUME OrderedInv, ~LockMayDrop, \A w \in Worker : HandAhead(w), [Next]_vars
  PROVE  \A w \in Worker : HandAhead(w)'
<1> SUFFICES ASSUME NEW v \in Worker PROVE HandAhead(v)'
  OBVIOUS
<1>1. TypeOK /\ TypeOK' /\ Growth /\ ActiveHoldsLock /\ ActiveHoldsLock'
  BY StepTypes, StepGrows, StepOrdered DEF OrderedInv, IngestInv
<1>2. \A p \in Partition : committed[p] \in Int
  BY <1>1, ConstantsAssumption DEF TypeOK
<1>3. ASSUME UNCHANGED <<committed>>, Untouched(v) PROVE HandAhead(v)'
  <2>1. CASE phase[v] = "idle"
    BY <1>3, <2>1 DEF Untouched, HandAhead
  <2>2. CASE phase[v] # "idle"
    BY <1>1, <1>2, <1>3, <2>2, AheadStays DEF Untouched
  <2> QED BY <2>1, <2>2
<1>4. CASE Environment \/ UNCHANGED vars
  <2>1. committed' = committed /\ Untouched(v)
    BY <1>4
    DEF Environment, Produce, Expire, DropLock, vars, kafkaVars, rangeVars, batchVars, Untouched
  <2> QED BY <1>3, <2>1
<1>5. ASSUME NEW w \in Worker, Cycle(w) PROVE HandAhead(v)'
  <2>1. CASE v = w
    BY <1>1, <1>5, <2>1, CycleAhead
  <2>2. CASE v # w /\ committed' = committed
    BY <1>1, <1>3, <1>5, <2>2, OthersUntouched
  <2>3. CASE v # w /\ committed' # committed
    <3>1. phase[w] # "idle"
      BY <1>5, <2>3
      DEF Cycle, StartCycle, Fetch, Release, Finish, GiveUp, CommitBrand, AbortBrand,
          Quarantine, QuarantineFails, SendToDlq, CommitOffsets, CommitOffsetsFails, Crash,
          kafkaVars
    <3>2. phase[v] = "idle" /\ phase'[v] = phase[v]
      BY <1>1, <1>5, <2>3, <3>1, OthersUntouched DEF ActiveHoldsLock, Untouched
    <3> QED BY <3>2 DEF HandAhead
  <2> QED BY <2>1, <2>2, <2>3
<1> QED BY <1>4, <1>5 DEF Next

\* While the run lock's connection lives, everything a cycle has taken out of
\* the buffer between two batches lies below the committed offset.
THEOREM DrainedAlwaysCommitted == ~LockMayDrop /\ Spec => []DrainedIsCommitted
<1>1. Init => \A w \in Worker : HandAhead(w)
  BY DEF Init, HandAhead
<1>2. ~LockMayDrop /\ OrderedInv /\ (\A w \in Worker : HandAhead(w)) /\ [Next]_vars
        => OrderedInv' /\ (\A w \in Worker : HandAhead(w))'
  BY StepOrdered, StepAhead
<1>3. OrderedInv /\ (\A w \in Worker : HandAhead(w)) => DrainedIsCommitted
  <2> SUFFICES ASSUME OrderedInv, NEW w \in Worker, HandAhead(w), phase[w] = "drain",
                      NEW p \in Partition, NEW o \in StartOffset(p) .. pos[w][p] - 1
               PROVE  <<p, o>> \in buf[w] \/ KindOf[<<p, o>>] = "control"
    BY DEF DrainedIsCommitted
  <2>1. /\ low[p] \in 0 .. MaxLen /\ high[p] \in 0 .. MaxLen /\ committed[p] \in 0 .. MaxLen
        /\ pos[w][p] \in 0 .. MaxLen /\ committed[p] <= high[p] /\ batch[w] = {}
    BY DEF OrderedInv, IngestInv, TypeOK, LogInOrder, HandInv, HandMatchesPhase
  <2>2. low[p] <= StartOffset(p) /\ committed[p] <= StartOffset(p) /\ StartOffset(p) \in Nat
    BY <2>1, ConstantsAssumption DEF StartOffset
  <2>3. o \in Offset /\ low[p] <= o /\ committed[p] <= o /\ o < pos[w][p]
    BY <2>1, <2>2, ConstantsAssumption DEF Offset
  <2> QED BY <2>1, <2>3 DEF HandAhead
<1>4. CASE LockMayDrop
  BY <1>4
<1>5. CASE ~LockMayDrop
  <2>1. OrderedInv /\ (\A w \in Worker : HandAhead(w)) /\ [Next]_vars
          => OrderedInv' /\ (\A w \in Worker : HandAhead(w))'
    BY <1>2, <1>5
  <2> QED BY <1>1, <1>3, <2>1, InitOrdered, PTL DEF Spec
<1> QED BY <1>4, <1>5

=============================================================================
