---------------------------- MODULE OrderedDrain -----------------------------
(***************************************************************************)
(* The order in which a cycle applies records: OrderingBuffer              *)
(* (src/pipeline/intent_kafka_ordering.py) and the loop that fills and     *)
(* empties it (IntentIngestor._drain, _fetch, _apply_pauses in             *)
(* intent_kafka_consumer.py).                                              *)
(*                                                                         *)
(* /track stamps a record with its send time and may deliver it to Kafka   *)
(* later.  A cycle reads every partition up to the first record sent less  *)
(* than a slack ago, and merges the partitions by send time.  IntentIngest *)
(* treats the released batch as any set of buffered records and covers     *)
(* offsets, retries and the run lock; here the batch settles or the cycle  *)
(* is aborted.                                                             *)
(***************************************************************************)
EXTENDS Integers, Sequences, FiniteSets

CONSTANTS
  Partitions,    \* number of partitions; a smaller number is released first
  MaxLen,        \* bound: records sent to a partition
  MaxTime,       \* bound: the clock stops here
  Delay,         \* a record is in the log this long after it was sent, at most
  Slack,         \* INTENT_KAFKA_ORDER_SLACK_S
  Margin,        \* WATERMARK_STALENESS_MARGIN_MS
  EventsBatch,   \* INTENT_EVENTS_BATCH, which also limits a poll
  BufferMax      \* INTENT_KAFKA_ORDER_BUFFER_MAX

ASSUME OrderAssumption ==
  /\ Partitions \in Nat \ {0}
  /\ MaxLen \in Nat
  /\ MaxTime \in Nat
  /\ Delay \in Nat
  /\ Slack \in Nat
  /\ Margin \in Nat
  /\ EventsBatch \in Nat \ {0}
  /\ BufferMax \in Nat \ {0}

Partition == 1 .. Partitions
Record == Partition \X (1 .. MaxLen)     \* the n-th record of a partition
NoTime == -1

VARIABLES
  now,          \* the clock
  flying,       \* send times of records on their way, per partition, as sent
  log,          \* send times of the records of a partition
  committed,    \* records below the committed offset
  applied,      \* records committed to MySQL
  slow,         \* history: whether a delivery has taken longer than the slack
  worst,        \* history: how much older than an applied record one applied
                \* for the first time has been
  phase,        \* "idle", or where the loop is: "fetch", "release", "apply"
  assigned,     \* partitions with something to read in the cycle
  end,          \* the cycle's range of a partition ends after this record
  pos,          \* records fetched, or left to earlier cycles
  queue,        \* buffered records: the time each is sorted by
  lastTs,       \* the greatest such time of the partition in this cycle
  releasedHigh, \* OrderingBuffer.released_high_ts, kept across cycles
  reported,     \* records counted as order violations
  exhausted,    \* partitions read to the end of their range
  paused,       \* _paused_now
  backpressure, \* _backpressure
  taken,        \* records of the current poll
  batch         \* released records, in order

producerVars == <<now, flying, log, slow>>
kafkaVars == <<producerVars, committed>>
historyVars == <<applied, worst>>
bufferVars == <<pos, queue, lastTs, reported, exhausted>>
pauseVars == <<paused, backpressure>>
rangeVars == <<assigned, end>>
vars == <<kafkaVars, historyVars, phase, rangeVars, bufferVars, releasedHigh, pauseVars, taken, batch>>

-----------------------------------------------------------------------------
Later(s, t) == IF s > t THEN s ELSE t

Highest(S) == CHOOSE t \in S : \A u \in S : u <= t

SentAt(r) == log[r[1]][r[2]]

\* Assigned partitions without, and with, a buffered record.
Dry == {p \in assigned : queue[p] = <<>>}
Buffered == assigned \ Dry

Records == LET upTo[p \in 0 .. Partitions] == IF p = 0 THEN 0 ELSE upTo[p - 1] + Len(queue[p])
           IN  upTo[Partitions]

Init ==
  /\ now = 0
  /\ flying = [p \in Partition |-> <<>>]
  /\ log = [p \in Partition |-> <<>>]
  /\ committed = [p \in Partition |-> 0]
  /\ applied = {}
  /\ slow = FALSE
  /\ worst = 0
  /\ phase = "idle"
  /\ assigned = {}
  /\ end = [p \in Partition |-> 0]
  /\ pos = [p \in Partition |-> 0]
  /\ queue = [p \in Partition |-> <<>>]
  /\ lastTs = [p \in Partition |-> NoTime]
  /\ releasedHigh = NoTime
  /\ reported = {}
  /\ exhausted = {}
  /\ paused = {}
  /\ backpressure = FALSE
  /\ taken = 0
  /\ batch = <<>>

-----------------------------------------------------------------------------
(* /track and Kafka *)

\* Time passes, but a record on its way is in its log within the delay.
Tick ==
  /\ now < MaxTime
  /\ \A p \in Partition : \A n \in 1 .. Len(flying[p]) : now < flying[p][n] + Delay
  /\ now' = now + 1
  /\ UNCHANGED <<flying, log, slow, committed, historyVars, phase, rangeVars, bufferVars, releasedHigh,
                 pauseVars, taken, batch>>

Send(p) ==
  /\ Len(log[p]) + Len(flying[p]) < MaxLen
  /\ flying' = [flying EXCEPT ![p] = Append(@, now)]
  /\ UNCHANGED <<now, log, slow, committed, historyVars, phase, rangeVars, bufferVars, releasedHigh,
                 pauseVars, taken, batch>>

Without(s, n) == SubSeq(s, 1, n - 1) \o SubSeq(s, n + 1, Len(s))

\* The broker appends the n-th record on its way.
Arrive(p, n) ==
  /\ log' = [log EXCEPT ![p] = Append(@, flying[p][n])]
  /\ flying' = [flying EXCEPT ![p] = Without(@, n)]
  /\ slow' = (slow \/ now > flying[p][n] + Slack)
  /\ UNCHANGED <<now, committed, historyVars, phase, rangeVars, bufferVars, releasedHigh,
                 pauseVars, taken, batch>>

-----------------------------------------------------------------------------
(* The cycle *)

\* Mutant: the cutoff leaves out the slack.
NoCutoff(p) == Len(log[p])

\* _offset_bounds with the cutoff: up to the first record sent at or after it.
CycleEnd(p) ==
  LET young == {n \in 1 .. Len(log[p]) : log[p][n] >= now - Slack - Margin}
  IN  IF young = {} THEN Len(log[p])
      ELSE Later(committed[p], (CHOOSE n \in young : \A k \in young : n <= k) - 1)

\* Mutant: the buffer keeps what an earlier cycle has left in it.
ClearedButQueue ==
  /\ lastTs' = [p \in Partition |-> NoTime]
  /\ exhausted' = {}
  /\ paused' = {}
  /\ backpressure' = FALSE
  /\ taken' = 0
  /\ batch' = <<>>
  /\ UNCHANGED queue

\* ordering.clear(), assign, set_assignment
Cleared ==
  /\ queue' = [p \in Partition |-> <<>>]
  /\ lastTs' = [p \in Partition |-> NoTime]
  /\ exhausted' = {}
  /\ paused' = {}
  /\ backpressure' = FALSE
  /\ taken' = 0
  /\ batch' = <<>>

StartCycle ==
  /\ phase = "idle"
  /\ assigned' = {p \in Partition : CycleEnd(p) > committed[p]}
  /\ assigned' # {}
  /\ end' = [p \in Partition |-> CycleEnd(p)]
  /\ pos' = committed
  /\ phase' = "fetch"
  /\ Cleared
  /\ UNCHANGED <<kafkaVars, historyVars, releasedHigh, reported>>

\* The finally clause of run_cycle.
Leave ==
  /\ phase' = "idle"
  /\ assigned' = {}
  /\ end' = committed'
  /\ pos' = committed'
  /\ Cleared
  /\ UNCHANGED <<producerVars, reported>>

\* Times inside a partition may go back; its own order is kept.
SortedBy(p, ts) == Later(lastTs[p], ts)

\* One message of a poll: OrderingBuffer.add, and exhausted at the range's end.
Fetch(p) ==
  /\ phase = "fetch"
  /\ taken < EventsBatch
  /\ p \in assigned \ paused
  /\ pos[p] < end[p]
  /\ LET n  == pos[p] + 1
         ts == log[p][n]
     IN  /\ pos' = [pos EXCEPT ![p] = n]
         /\ lastTs' = [lastTs EXCEPT ![p] = SortedBy(p, ts)]
         /\ queue' = [queue EXCEPT ![p] = Append(@, lastTs'[p])]
         /\ reported' = IF ts < releasedHigh THEN reported \cup {<<p, n>>} ELSE reported
         /\ exhausted' = IF n >= end[p] THEN exhausted \cup {p} ELSE exhausted
  /\ taken' = taken + 1
  /\ UNCHANGED <<kafkaVars, historyVars, phase, rangeVars, releasedHigh, pauseVars, batch>>

\* Full, or full before and not drained to the half yet.
Pressure == Records >= BufferMax \/ (backpressure /\ Records > BufferMax \div 2)

\* Mutant: under pressure everything is paused.
EveryoneAhead == assigned

\* Mutant: nobody is paused.
NobodyAhead == {}

\* buffered_partitions: whom pressure pauses
Ahead == Buffered

\* _apply_pauses
ApplyPauses ==
  /\ phase = "fetch"
  /\ backpressure' = Pressure
  /\ paused' = exhausted \cup (IF Pressure THEN Ahead ELSE {})
  /\ phase' = "release"
  /\ UNCHANGED <<kafkaVars, historyVars, rangeVars, bufferVars, releasedHigh, taken, batch>>

\* _safe, for the buffer's slack of 0.
Safe(p) ==
  \A q \in Dry : q \in exhausted /\ now >= Head(queue[p]) + Margin

\* Mutant: partitions take turns instead of being merged by time.
FirstByPartition(p) == p \in Buffered /\ \A q \in Buffered : p <= q

\* The oldest head; ties go to the smaller partition.
IsFirst(p) ==
  /\ p \in Buffered
  /\ \A q \in Buffered :
       \/ Head(queue[p]) < Head(queue[q])
       \/ Head(queue[p]) = Head(queue[q]) /\ p <= q

MayRelease(p) == Len(batch) < EventsBatch /\ IsFirst(p) /\ Safe(p)

\* release(), record by record
Release(p) ==
  /\ phase = "release"
  /\ MayRelease(p)
  /\ batch' = Append(batch, <<p, pos[p] - Len(queue[p]) + 1>>)
  /\ releasedHigh' = Later(releasedHigh, Head(queue[p]))
  /\ queue' = [queue EXCEPT ![p] = Tail(@)]
  /\ UNCHANGED <<kafkaVars, historyVars, phase, rangeVars, pos, lastTs, reported, exhausted,
                 pauseVars, taken>>

Done == assigned \subseteq exhausted /\ Records = 0

\* The loop goes round.
Again ==
  /\ phase' = "fetch"
  /\ taken' = 0
  /\ batch' = <<>>
  /\ UNCHANGED <<rangeVars, bufferVars, pauseVars>>

\* Nothing more is safe to release.
Released ==
  /\ phase = "release"
  /\ \A p \in Partition : ~MayRelease(p)
  /\ IF batch # <<>>
     THEN /\ phase' = "apply"
          /\ UNCHANGED <<kafkaVars, rangeVars, bufferVars, pauseVars, taken, batch>>
     ELSE /\ UNCHANGED committed
          /\ IF Done THEN Leave ELSE Again /\ UNCHANGED producerVars
  /\ UNCHANGED <<historyVars, releasedHigh>>

InBatch == {batch[n] : n \in 1 .. Len(batch)}

\* What was applied before the n-th record of the batch.
Before(n) == applied \cup {batch[k] : k \in 1 .. n - 1}

Lateness ==
  UNION {{SentAt(q) - SentAt(batch[n]) : q \in Before(n)} :
           n \in {k \in 1 .. Len(batch) : batch[k] \notin applied}}

Applied ==
  /\ applied' = applied \cup InBatch
  /\ worst' = Highest({worst} \cup Lateness)

\* The batch is settled and its offsets are committed.
Process ==
  /\ phase = "apply"
  /\ Applied
  /\ committed' = [p \in Partition |-> Highest({committed[p]} \cup {r[2] : r \in {b \in InBatch : b[1] = p}})]
  /\ IF Done THEN Leave ELSE Again /\ UNCHANGED producerVars
  /\ UNCHANGED releasedHigh

\* The batch cannot be committed, or its offsets cannot: the cycle is aborted.
Abort ==
  /\ phase = "apply"
  /\ Applied \/ UNCHANGED historyVars
  /\ UNCHANGED <<committed, releasedHigh>>
  /\ Leave

\* A stop request or a stall.
GiveUp ==
  /\ phase = "fetch"
  /\ UNCHANGED <<committed, historyVars, releasedHigh>>
  /\ Leave

Next ==
  \/ Tick
  \/ \E p \in Partition :
       \/ Send(p) \/ Fetch(p) \/ Release(p)
       \/ \E n \in 1 .. Len(flying[p]) : Arrive(p, n)
  \/ StartCycle
  \/ ApplyPauses
  \/ Released
  \/ Process
  \/ Abort
  \/ GiveUp

Spec == Init /\ [][Next]_vars

\* The worker's loop goes on; a poll does return what it may fetch.
FairSpec ==
  /\ Spec
  /\ WF_vars(ApplyPauses)
  /\ WF_vars(Released)
  /\ WF_vars(Process)
  /\ \A p \in Partition : WF_vars(Release(p)) /\ SF_vars(Fetch(p))

-----------------------------------------------------------------------------
\* The drain's state is well typed; a queue holds the records fetched last, by
\* times that do not decrease.
TypeOK ==
  /\ now \in 0 .. MaxTime
  /\ phase \in {"idle", "fetch", "release", "apply"}
  /\ applied \subseteq Record
  /\ reported \subseteq Record
  /\ exhausted \subseteq Partition
  /\ paused \subseteq Partition
  /\ backpressure \in BOOLEAN
  /\ taken \in 0 .. EventsBatch
  /\ batch \in Seq(Record)
  /\ \A p \in Partition :
       /\ Len(flying[p]) + Len(log[p]) <= MaxLen
       /\ committed[p] <= pos[p] - Len(queue[p])
       /\ pos[p] <= end[p]
       /\ end[p] <= Len(log[p])
       /\ \A m, n \in 1 .. Len(queue[p]) : m <= n => queue[p][m] <= queue[p][n]

\* As long as every record is in its log within the slack, and every partition
\* in send order, no record is ever applied after a younger one, over any number
\* of cycles, failed or not.
SendOrder ==
  \/ worst = 0
  \/ slow
  \/ \E p \in Partition : \E m, n \in 1 .. Len(log[p]) : m < n /\ log[p][n] < log[p][m]

\* However late and disordered the delivery is, a record is older than one
\* applied before it by no more than the delivery takes: with a delay below the
\* tolerance of the session state machine, no visit is cut in two.
LatenessBounded == worst <= Delay

\* Back-pressure bounds the buffer: beyond its size only the last poll, and what
\* one poll brings to each partition that was dry, fit in.
BufferBounded == Records < BufferMax + Partitions * EventsBatch

\* A cycle ends: whatever pressure pauses, the partition the oldest record waits
\* for is read on.
CycleEnds == phase # "idle" ~> phase = "idle"

\* A record reported as an order violation is older than something applied.
AlarmsAreReal ==
  \A r \in reported : \E q \in applied : SentAt(r) < SentAt(q)

=============================================================================
