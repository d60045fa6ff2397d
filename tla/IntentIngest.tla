---------------------------- MODULE IntentIngest ----------------------------
(***************************************************************************)
(* The ingestion cycle of the intent Kafka worker                          *)
(* (src/pipeline/intent_kafka_consumer.py, class IntentIngestor).          *)
(*                                                                         *)
(* A cycle takes the run lock, reads the committed offset of every         *)
(* partition, fixes the range of offsets it will read, fetches records     *)
(* into the ordering buffer, and applies released batches: one MySQL       *)
(* transaction per brand, then the dead letter queue, then the offsets.    *)
(* Anything between two of those steps may fail or crash.                  *)
(*                                                                         *)
(* A record is its place in Kafka, <<partition, offset>>; what the record  *)
(* contains is a constant, so one run checks one log and a theorem covers  *)
(* every log.  The order in which the buffer releases records is the       *)
(* subject of OrderedDrain; here a batch is any set of buffered records    *)
(* that keeps every partition in its own order.                            *)
(***************************************************************************)
EXTENDS Integers, FiniteSets

CONSTANTS
  Worker,          \* containers running workers/intent_kafka_worker.py
  NoWorker,        \* the run lock is free
  Partition,       \* partitions of the four intent topics
  MaxLen,          \* bound: offsets a partition ever gets
  Brand,           \* brands, one MySQL database each
  Actor,           \* actor_id || client_id of a record
  KindOf,          \* what process_batch makes of a record
  BrandOf,         \* the brand of a record
  ActorOf,         \* the actor of a record
  FragileActor,    \* actors whose cursor row MySQL may refuse as bad data
  EventsBatch,     \* INTENT_EVENTS_BATCH
  MaxAttempts,     \* INTENT_KAFKA_MAX_ATTEMPTS
  LockMayDrop,     \* whether the run lock's connection may die in a cycle
  MaxCrashes       \* bound: how often a worker process dies

Offset == 0 .. MaxLen - 1
Record == Partition \X Offset

\* good: parses and MySQL accepts it.  rejected: parses, but MySQL refuses the
\* row (DATA_ERRNOS).  poison: parse_record refuses it, or no brand has its id.
\* control: an offset that carries no message (a transaction marker).
Kind == {"good", "rejected", "poison", "control"}

Phase == {"idle", "drain", "apply", "commit"}

ASSUME ConstantsAssumption ==
  /\ NoWorker \notin Worker
  /\ MaxLen \in Nat
  /\ KindOf \in [Record -> Kind]
  /\ BrandOf \in [Record -> Brand]
  /\ ActorOf \in [Record -> Actor]
  /\ FragileActor \subseteq Actor
  /\ EventsBatch \in Nat \ {0}
  /\ MaxAttempts \in Nat \ {0}
  /\ LockMayDrop \in BOOLEAN
  /\ MaxCrashes \in Nat

VARIABLES
  \* Kafka
  low,        \* first retained offset of each partition
  high,       \* next offset of each partition
  committed,  \* offset committed under the group id
  dlq,        \* records that reached intent.dlq
  \* MySQL
  lock,       \* holder of GET_LOCK(run lock)
  settled,    \* records a committed brand transaction accounts for: their row
              \* is stored, or was there already, or was ATC-deduplicated
  \* one worker process
  phase,      \* where the worker is in its cycle
  end,        \* the cycle's range of a partition ends before this offset
  pos,        \* next offset the consumer fetches
  buf,        \* fetched records the ordering buffer still holds
  batch,      \* the released batch being processed
  todo,       \* brands of the batch whose transaction has not run this pass
  resolved,   \* records of the batch settled or quarantined (last_resolved)
  spent,      \* records that reached MaxAttempts in this pass
  faulty,     \* a transaction, DLQ send or offset commit failed in this batch
  passes,     \* completed passes over the batch (_process_with_retry)
  attempts,   \* _attempts: rejections per record, kept across cycles
  crashes     \* how many times the process has died

kafkaVars == <<low, high, committed, dlq>>
mysqlVars == <<lock, settled>>
rangeVars == <<end, pos, buf>>
batchVars == <<batch, todo, resolved, spent, faulty, passes>>
memory == <<attempts, crashes>>
vars == <<kafkaVars, mysqlVars, phase, rangeVars, batchVars, memory>>

-----------------------------------------------------------------------------
(* State functions *)

\* The record needs nothing more: it is accounted for in MySQL, quarantined,
\* carries no message, or retention deleted it.
AtRest(r) ==
  \/ r \in settled \cup dlq
  \/ KindOf[r] = "control"
  \/ r[2] < low[r[1]]

\* Mutant: the committed offset is never consulted (auto.offset.reset wins).
StartFromEarliest(p) == low[p]

\* _offset_bounds: the committed offset, or the start of the log if that offset
\* has expired or lies beyond the end of the log.
StartOffset(p) ==
  IF committed[p] \in low[p] .. high[p] THEN committed[p] ELSE low[p]

Unresolved(w) == batch[w] \ resolved[w]

Parsed(S) == {r \in S : KindOf[r] \in {"good", "rejected"}}

BrandsOf(S) == {BrandOf[r] : r \in Parsed(S)}

\* The work items of one brand: records an earlier pass settled are left alone.
Items(w, b) == {r \in Parsed(Unresolved(w)) : BrandOf[r] = b}

\* Mutant: a refused cursor row fails the whole brand, not only its actor.
FailingWholeBrand(items, refused) ==
  {r \in items : KindOf[r] = "rejected" \/ refused # {}}

\* apply_batch: a refused row is rolled back alone; a refused cursor row rolls
\* back the whole group of its actor.
Failing(items, refused) ==
  {r \in items : KindOf[r] = "rejected" \/ ActorOf[r] \in refused}

\* Mutant: the run does not stop at the first unresolved record.
LeadingPastGap(w, p) == {o \in Offset : <<p, o>> \in resolved[w]}

\* Mutant: the run must be contiguous from the committed offset.
LeadingContiguous(w, p) ==
  {o \in Offset : \A m \in committed[p] .. o : <<p, m>> \in resolved[w]}

\* _commit_offsets: the leading run of resolved records of a partition, within
\* this batch only.
Leading(w, p) ==
  {o \in Offset : /\ <<p, o>> \in batch[w]
                  /\ \A q \in Unresolved(w) : q[1] = p => o < q[2]}

\* One past the leading run, or where the offset already was if it is empty.
CommitsTo(w, p, n) ==
  \/ Leading(w, p) = {} /\ n = committed[p]
  \/ \E o \in Leading(w, p) : n = o + 1 /\ \A m \in Leading(w, p) : m <= o

-----------------------------------------------------------------------------
Init ==
  /\ low = [p \in Partition |-> 0]
  /\ high = [p \in Partition |-> 0]
  /\ committed = [p \in Partition |-> 0]
  /\ dlq = {}
  /\ lock = NoWorker
  /\ settled = {}
  /\ phase = [w \in Worker |-> "idle"]
  /\ end = [w \in Worker |-> [p \in Partition |-> 0]]
  /\ pos = [w \in Worker |-> [p \in Partition |-> 0]]
  /\ buf = [w \in Worker |-> {}]
  /\ batch = [w \in Worker |-> {}]
  /\ todo = [w \in Worker |-> {}]
  /\ resolved = [w \in Worker |-> {}]
  /\ spent = [w \in Worker |-> {}]
  /\ faulty = [w \in Worker |-> FALSE]
  /\ passes = [w \in Worker |-> 0]
  /\ attempts = [w \in Worker |-> [r \in Record |-> 0]]
  /\ crashes = [w \in Worker |-> 0]

-----------------------------------------------------------------------------
(* Kafka and MySQL, as the worker sees them *)

\* /track appends a record.
Produce(p) ==
  /\ high[p] < MaxLen
  /\ high' = [high EXCEPT ![p] = @ + 1]
  /\ UNCHANGED <<low, committed, dlq, mysqlVars, phase, rangeVars, batchVars, memory>>

\* Retention deletes the oldest record of a partition, read or not.
Expire(p) ==
  /\ low[p] < high[p]
  /\ low' = [low EXCEPT ![p] = @ + 1]
  /\ UNCHANGED <<high, committed, dlq, mysqlVars, phase, rangeVars, batchVars, memory>>

\* The connection that holds GET_LOCK dies in the middle of a cycle; the worker
\* does not notice.
DropLock ==
  /\ LockMayDrop
  /\ lock # NoWorker
  /\ lock' = NoWorker
  /\ UNCHANGED <<kafkaVars, settled, phase, rangeVars, batchVars, memory>>

-----------------------------------------------------------------------------
(* The cycle *)

\* The finally clause of run_cycle: the buffer is cleared, the consumer closed
\* and the run lock released, if this worker still holds it.
Leave(w) ==
  /\ phase' = [phase EXCEPT ![w] = "idle"]
  /\ lock' = IF lock = w THEN NoWorker ELSE lock
  /\ end' = [end EXCEPT ![w] = [p \in Partition |-> 0]]
  /\ pos' = [pos EXCEPT ![w] = [p \in Partition |-> 0]]
  /\ buf' = [buf EXCEPT ![w] = {}]
  /\ batch' = [batch EXCEPT ![w] = {}]
  /\ todo' = [todo EXCEPT ![w] = {}]
  /\ resolved' = [resolved EXCEPT ![w] = {}]
  /\ spent' = [spent EXCEPT ![w] = {}]
  /\ faulty' = [faulty EXCEPT ![w] = FALSE]
  /\ passes' = [passes EXCEPT ![w] = 0]

\* Mutant: the cycle starts whoever holds the lock.
TakeAnyway(w) == lock' = w

\* RunLock.acquire: GET_LOCK with no wait.
TakeLock(w) == lock = NoWorker /\ lock' = w

\* run_cycle up to _drain: the run lock, then the offset ranges.  stop[p] is
\* where the slack cutoff falls in partition p.  A cycle with nothing to read
\* ("empty"), and one that finds the lock taken ("skipped"), change nothing.
StartCycle(w) ==
  /\ phase[w] = "idle"
  /\ TakeLock(w)
  /\ \E stop \in [Partition -> 0 .. MaxLen] :
       /\ \A p \in Partition : StartOffset(p) <= stop[p] /\ stop[p] <= high[p]
       /\ \E p \in Partition : StartOffset(p) < stop[p]
       /\ end' = [end EXCEPT ![w] = stop]
  /\ pos' = [pos EXCEPT ![w] = [p \in Partition |-> StartOffset(p)]]
  /\ phase' = [phase EXCEPT ![w] = "drain"]
  /\ UNCHANGED <<kafkaVars, settled, buf, batchVars, memory>>

\* _fetch, one offset at a time.  Offsets retention has taken meanwhile are
\* skipped (auto.offset.reset = earliest); a control record leaves no message.
Fetch(w, p) ==
  /\ phase[w] = "drain"
  /\ pos[w][p] < end[w][p]
  /\ LET o == IF pos[w][p] < low[p] THEN low[p] ELSE pos[w][p]
     IN  \/ /\ o >= end[w][p]
            /\ pos' = [pos EXCEPT ![w][p] = o]
            /\ UNCHANGED buf
         \/ /\ o < end[w][p]
            /\ pos' = [pos EXCEPT ![w][p] = o + 1]
            /\ buf' = [buf EXCEPT ![w] =
                         @ \cup {r \in {<<p, o>>} : KindOf[r] # "control"}]
  /\ UNCHANGED <<kafkaVars, mysqlVars, phase, end, batchVars, memory>>

\* The ordering buffer releases a batch and the first pass over it begins.
Release(w) ==
  /\ phase[w] = "drain"
  /\ \E S \in SUBSET buf[w] :
       /\ S # {}
       /\ Cardinality(S) <= EventsBatch
       /\ \A r \in S, q \in buf[w] \ S : r[1] = q[1] => r[2] < q[2]
       /\ batch' = [batch EXCEPT ![w] = S]
       /\ buf' = [buf EXCEPT ![w] = @ \ S]
       /\ todo' = [todo EXCEPT ![w] = BrandsOf(S)]
  /\ phase' = [phase EXCEPT ![w] = "apply"]
  /\ UNCHANGED <<kafkaVars, mysqlVars, end, pos, resolved, spent, faulty, passes, memory>>

\* Everything in the range is read and processed; the sweep follows
\* (SessionSweep) and the cycle ends as "done".
Finish(w) ==
  /\ phase[w] = "drain"
  /\ \A p \in Partition : pos[w][p] >= end[w][p]
  /\ buf[w] = {}
  /\ Leave(w)
  /\ UNCHANGED <<kafkaVars, settled, memory>>

\* The cycle ends early between two batches: a stop request, a stall, or a
\* fatal Kafka error.
GiveUp(w) ==
  /\ phase[w] = "drain"
  /\ Leave(w)
  /\ UNCHANGED <<kafkaVars, settled, memory>>

-----------------------------------------------------------------------------
(* One pass over a batch: process_batch *)

\* The transaction of brand b commits.  Its rejected records count an attempt
\* (the count saturates at MaxAttempts, the only value it is compared with);
\* the others are resolved and their count is dropped.
CommitBrand(w, b) ==
  /\ phase[w] = "apply"
  /\ b \in todo[w]
  /\ \E refused \in SUBSET FragileActor :
       LET items  == Items(w, b)
           failed == Failing(items, refused)
           tries  == [r \in Record |->
                        IF r \in failed
                        THEN IF attempts[w][r] < MaxAttempts
                             THEN attempts[w][r] + 1 ELSE MaxAttempts
                        ELSE IF r \in items THEN 0 ELSE attempts[w][r]]
       IN  /\ settled' = settled \cup (items \ failed)
           /\ resolved' = [resolved EXCEPT ![w] = @ \cup (items \ failed)]
           /\ attempts' = [attempts EXCEPT ![w] = tries]
           /\ spent' = [spent EXCEPT ![w] =
                          @ \cup {r \in failed : tries[r] >= MaxAttempts}]
  /\ todo' = [todo EXCEPT ![w] = @ \ {b}]
  /\ UNCHANGED <<kafkaVars, lock, phase, rangeVars, batch, faulty, passes, crashes>>

\* Mutant: a failed transaction counts as an attempt of every record in it.
AbortCountsAttempts(w, b) ==
  /\ phase[w] = "apply"
  /\ b \in todo[w]
  /\ faulty' = [faulty EXCEPT ![w] = TRUE]
  /\ todo' = [todo EXCEPT ![w] = @ \ {b}]
  /\ attempts' = [attempts EXCEPT ![w] =
                    [r \in Record |-> IF r \in Items(w, b) THEN @[r] + 1 ELSE @[r]]]
  /\ spent' = [spent EXCEPT ![w] =
                 @ \cup {r \in Items(w, b) : attempts[w][r] + 1 >= MaxAttempts}]
  /\ UNCHANGED <<kafkaVars, mysqlVars, phase, rangeVars, batch, resolved, passes, crashes>>

\* The transaction of brand b raises: a deadlock, a lost connection, anything
\* that is not a data error.  It is rolled back, unless the connection was lost
\* during COMMIT and the server had already committed.
AbortBrand(w, b) ==
  /\ phase[w] = "apply"
  /\ b \in todo[w]
  /\ \/ UNCHANGED settled
     \/ \E refused \in SUBSET FragileActor :
          settled' = settled \cup (Items(w, b) \ Failing(Items(w, b), refused))
  /\ faulty' = [faulty EXCEPT ![w] = TRUE]
  /\ todo' = [todo EXCEPT ![w] = @ \ {b}]
  /\ UNCHANGED <<kafkaVars, lock, phase, rangeVars, batch, resolved, spent, passes, memory>>

\* Mutant: unparseable records are left out.
DlqOnlySpent(w) == spent[w]

\* Mutant: records out of attempts are left out.
DlqOnlyPoison(w) == {r \in Unresolved(w) : KindOf[r] = "poison"}

\* What this pass quarantines: unparseable records and those out of attempts.
DlqEntries(w) == {r \in Unresolved(w) : KindOf[r] = "poison"} \cup spent[w]

\* _send_to_dlq: only an acknowledged delivery resolves a record, though a
\* record may have arrived without its acknowledgement.
SendToDlq(w, arrived, acked) ==
  /\ phase[w] = "apply"
  /\ todo[w] = {}
  /\ dlq' = dlq \cup arrived
  /\ resolved' = [resolved EXCEPT ![w] = @ \cup acked]
  /\ attempts' = [attempts EXCEPT ![w] =
                    [r \in Record |-> IF r \in acked THEN 0 ELSE @[r]]]
  /\ faulty' = [faulty EXCEPT ![w] = @ \/ acked # DlqEntries(w)]
  /\ spent' = [spent EXCEPT ![w] = {}]
  /\ phase' = [phase EXCEPT ![w] = "commit"]
  /\ UNCHANGED <<low, high, committed, mysqlVars, rangeVars, batch, todo, passes, crashes>>

Quarantine(w) == SendToDlq(w, DlqEntries(w), DlqEntries(w))

\* Mutant: what was handed to the producer counts as delivered.
QuarantineUnacknowledged(w) ==
  \E arrived \in SUBSET DlqEntries(w) : SendToDlq(w, arrived, DlqEntries(w))

QuarantineFails(w) ==
  \E arrived \in SUBSET DlqEntries(w) :
    \E acked \in SUBSET arrived :
      /\ acked # DlqEntries(w)
      /\ SendToDlq(w, arrived, acked)

\* What the synchronous offset commit writes.
OffsetsAdvance(w) ==
  committed' \in {c \in [Partition -> 0 .. MaxLen] :
                    \A p \in Partition : CommitsTo(w, p, c[p])}

\* Offsets are committed; either the batch is done, or rejected records remain
\* and the next pass begins, or the batch is given up.
CommitOffsets(w) ==
  /\ phase[w] = "commit"
  /\ OffsetsAdvance(w)
  /\ \/ /\ Unresolved(w) = {}
        /\ phase' = [phase EXCEPT ![w] = "drain"]
        /\ batch' = [batch EXCEPT ![w] = {}]
        /\ resolved' = [resolved EXCEPT ![w] = {}]
        /\ faulty' = [faulty EXCEPT ![w] = FALSE]
        /\ passes' = [passes EXCEPT ![w] = 0]
        /\ UNCHANGED <<lock, rangeVars, todo, spent>>
     \/ /\ Unresolved(w) # {}
        /\ ~faulty[w]
        /\ passes[w] < MaxAttempts
        /\ phase' = [phase EXCEPT ![w] = "apply"]
        /\ todo' = [todo EXCEPT ![w] = BrandsOf(Unresolved(w))]
        /\ passes' = [passes EXCEPT ![w] = @ + 1]
        /\ UNCHANGED <<lock, rangeVars, batch, resolved, spent, faulty>>
     \/ /\ Unresolved(w) # {}
        /\ faulty[w] \/ passes[w] = MaxAttempts
        /\ Leave(w)
  /\ UNCHANGED <<low, high, dlq, settled, memory>>

\* The offset commit raises and the cycle is aborted; the broker may have
\* stored the offsets all the same.
CommitOffsetsFails(w) ==
  /\ phase[w] = "commit"
  /\ \E p \in Partition : Leading(w, p) # {}
  /\ OffsetsAdvance(w) \/ UNCHANGED committed
  /\ Leave(w)
  /\ UNCHANGED <<low, high, dlq, settled, memory>>

\* The process dies and is restarted: its memory is gone and the server frees
\* its lock.
Crash(w) ==
  /\ crashes[w] < MaxCrashes
  /\ crashes' = [crashes EXCEPT ![w] = @ + 1]
  /\ Leave(w)
  /\ attempts' = [attempts EXCEPT ![w] = [r \in Record |-> 0]]
  /\ UNCHANGED <<kafkaVars, settled>>

-----------------------------------------------------------------------------
Environment ==
  \/ \E p \in Partition : Produce(p) \/ Expire(p)
  \/ DropLock

Cycle(w) ==
  \/ StartCycle(w)
  \/ \E p \in Partition : Fetch(w, p)
  \/ Release(w)
  \/ Finish(w)
  \/ GiveUp(w)
  \/ \E b \in Brand : CommitBrand(w, b) \/ AbortBrand(w, b)
  \/ Quarantine(w)
  \/ QuarantineFails(w)
  \/ CommitOffsets(w)
  \/ CommitOffsetsFails(w)
  \/ Crash(w)

Next == Environment \/ \E w \in Worker : Cycle(w)

Spec == Init /\ [][Next]_vars

-----------------------------------------------------------------------------
(* Fairness.  The schedule trigger starts a cycle again and again, and time  *)
(* moves the slack cutoff past every record.  Steps that touch MySQL or      *)
(* Kafka may fail any number of times but not for ever: an outage ends, and  *)
(* no record is singled out by the faults.                                   *)

StartFullCycle(w) == StartCycle(w) /\ end'[w] = high

Fairness ==
  \A w \in Worker :
    /\ SF_vars(StartFullCycle(w))
    /\ \A p \in Partition : SF_vars(Fetch(w, p))
    /\ SF_vars(Finish(w))
    /\ \A r \in Record :
         /\ SF_vars(Release(w) /\ r \in batch'[w])
         /\ SF_vars(\E b \in Brand : r \in Items(w, b) /\ CommitBrand(w, b))
         /\ SF_vars(r \in DlqEntries(w) /\ Quarantine(w))
         /\ SF_vars(r \in resolved[w] /\ CommitOffsets(w))
    /\ SF_vars(Quarantine(w))
    /\ SF_vars(CommitOffsets(w))

FairSpec == Spec /\ Fairness

-----------------------------------------------------------------------------
(* Properties *)

\* The state of the cycle is well typed.
TypeOK ==
  /\ low \in [Partition -> 0 .. MaxLen]
  /\ high \in [Partition -> 0 .. MaxLen]
  /\ committed \in [Partition -> 0 .. MaxLen]
  /\ dlq \subseteq Record
  /\ lock \in Worker \cup {NoWorker}
  /\ settled \subseteq Record
  /\ phase \in [Worker -> Phase]
  /\ end \in [Worker -> [Partition -> 0 .. MaxLen]]
  /\ pos \in [Worker -> [Partition -> 0 .. MaxLen]]
  /\ buf \in [Worker -> SUBSET Record]
  /\ batch \in [Worker -> SUBSET Record]
  /\ todo \in [Worker -> SUBSET Brand]
  /\ resolved \in [Worker -> SUBSET Record]
  /\ spent \in [Worker -> SUBSET Record]
  /\ faulty \in [Worker -> BOOLEAN]
  /\ passes \in [Worker -> 0 .. MaxAttempts]
  /\ attempts \in [Worker -> [Record -> 0 .. MaxAttempts]]
  /\ crashes \in [Worker -> 0 .. MaxCrashes]

\* "A Kafka offset is committed only after the MySQL COMMIT of every record at
\* or below it (or after the record was delivered to the DLQ)"
\* (intent_kafka_consumer.py:20-21): whatever fails or crashes, and even if two
\* workers run a cycle at once, no committed offset jumps over a record that
\* is neither accounted for, nor quarantined, nor gone from the log.
OffsetsCovered ==
  \A p \in Partition, o \in Offset : o < committed[p] => AtRest(<<p, o>>)

\* Only data errors count as poison: a record that parses, that MySQL accepts
\* and whose actor's cursor MySQL accepts never reaches the DLQ, however often
\* its transaction fails for other reasons.
HealthyNeverQuarantined ==
  \A r \in dlq : \/ KindOf[r] \in {"poison", "rejected"}
                 \/ ActorOf[r] \in FragileActor

\* As long as the lock's connection lives, the run lock lets one worker run a
\* cycle at a time.
OneCycleAtATime ==
  \A v, w \in Worker : phase[v] # "idle" /\ phase[w] # "idle" => v = w

\* Between two batches everything the cycle has taken out of the buffer lies
\* below the committed offset: nothing released is forgotten, so a cycle that
\* ends here leaves nothing to be done twice.
DrainedIsCommitted ==
  \A w \in Worker : phase[w] = "drain" =>
    \A p \in Partition : \A o \in StartOffset(p) .. pos[w][p] - 1 :
      <<p, o>> \in buf[w] \/ KindOf[<<p, o>>] = "control"

\* Without a fault a batch is settled in MaxAttempts passes: the retry loop of
\* _process_with_retry never falls off its end with a record unresolved.
BatchSettlesInTime ==
  \A w \in Worker : phase[w] = "commit" /\ passes[w] >= MaxAttempts - 1 =>
    Unresolved(w) = {} \/ faulty[w]

\* Every message that is published is eventually below the committed offset
\* (so, by OffsetsCovered, accounted for or quarantined), or expires: no poison
\* record, rejected row or outage that ends blocks its partition for ever.
OffsetsCatchUp ==
  \A r \in Record :
    (r[2] < high[r[1]] /\ KindOf[r] # "control")
      ~> (r[2] < committed[r[1]] \/ r[2] < low[r[1]])

-----------------------------------------------------------------------------
(* Refinement *)

Ledger == INSTANCE OffsetLedger WITH
  MayRegress <- LockMayDrop,
  published <- high,
  rest <- {r \in Record : r[2] < high[r[1]] /\ AtRest(r)},
  offset <- committed

\* The worker consumes at least once: records come to rest and stay there, and
\* an offset moves only to where everything below it is at rest, whoever else
\* runs a cycle; while the lock holds, offsets only advance.
ImplementsLedger == Ledger!Spec

=============================================================================
