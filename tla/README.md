# A TLA+ model of the intent pipeline

This directory holds TLA+ specifications of the repository: the worker that moves
visitor events from Kafka into one MySQL database per brand with the session
state machine it drives, the engine that scores the sessions, the rollups and
their triggers, and what happens when the containers start and stop. TLC checks the specifications on small
instances; TLAPS proves the central theorems for every value of the constants.
`PROJECT.json` lists components, runs, mutants, hazards and theorems, and maps
each definition to the source lines it stands for.

## 1. Inventory

Events flow `/track` → Kafka → **ingest worker** → MySQL → **rollups** and
**scoring** → the same MySQL.

| Component | Source | State it keeps | Operations |
|---|---|---|---|
| Ingest cycle | `pipeline/intent_kafka_consumer.py` | committed offsets (Kafka), `_attempts`, `last_resolved`, the batch in hand | run a cycle, fetch, process a batch with retries, quarantine, commit offsets |
| Ordering buffer | `pipeline/intent_kafka_ordering.py` | queue per partition, `released_high_ts`, capacity | add, release in send order, report capacity |
| Run lock, transactions | `pipeline/intent_kafka_db.py` | `GET_LOCK`, open connections, column caches | acquire, release, one transaction per brand |
| Cycle controller | `workers/intent_kafka_worker.py` | `_busy`, stop event | batch trigger, schedule, shutdown, start-up checks |
| Per-message writer | `pipeline/intent_kafka_writer.py` | none; savepoints | apply a batch, isolate refused rows |
| Bulk writer | `pipeline/intent_kafka_bulk.py` | none | the same in bulk statements, or fall back |
| Store | `pipeline/intent_kafka_store.py` | events, clicks, claims, sessions, cursors | inserts with no-op duplicates, upserts, locks |
| Session state machine | `pipeline/intent_session_state.py` | the actor's cursor | join or start a session, close the previous one |
| Idle sweep | `pipeline/intent_session_sweep.py` | none | close sessions nobody returned to |
| Record contract | `pipeline/intent_kafka_contract.py` | none | validate a record |
| Migrations | `pipeline/migrations.py` | `intent_schema_migrations`, the schema | apply, adopt, defer, record |
| Scoring | `intent_engine/runner.py`, `repository.py`, `session_scorer.py`, `workers/intent_scoring_worker.py` | watermark, session status | window pass, catch-up drain, exclusion |
| Actor recompute, calibration, thresholds | `intent_engine/actor_scorer.py`, `threshold_*.py` | actor rows, thresholds | recompute, calibrate yesterday, resolve |
| Score formulas, database clock | other `intent_engine/*.py` | none | arithmetic and classification |
| Rollups | `pipeline/rollups.py` | watermark, `_last_run`, `_temp_unavailable`, seven tables | a run: dates, skip, copy, seven stages (its comment says five), watermark |
| Orchestration | `pipeline/orchestration.py`, `pipeline/state.py` | trigger queue, scheduler | scheduled and manual runs |
| Connections, start-up, row extraction, scripts | `pipeline/db.py`, `aws_background.py`, `pipeline/intent_events.py`, `scripts/` | pools, configuration | plumbing |

**Interactions.** A cycle calls the buffer, the writer (one transaction per
brand), the DLQ producer and `kafka.commit`, in that order, and the sweep after a
complete cycle. The worker's containers share only MySQL's named lock and Kafka's
committed offsets. Scoring and rollups communicate with the worker and with each
other only through tables, watermarks and named locks.

**What is hard.** (1) MySQL and Kafka commit separately: anything between the
two may fail, so records come again and must be absorbed. (2) One batch mixes
brands and partitions, and some brands fail: the offset must stop at the first
unfinished record, and still a poison record must not stop it for ever. (3) Two
containers, and a lock whose connection can die. (4) An actor's events are
spread over four topics and the state machine is order sensitive. (5) A row
MySQL refuses must be isolated from its neighbours by savepoints. (6) Watermarks
that must not pass work that failed or is not visible yet. The `hazards` of
`PROJECT.json` name the lines where each of these bites.

**What makes each component right.** Ingest: no offset covers unfinished work;
healthy records are never quarantined; offsets catch up. Ordering: records are
applied in send order, lateness is bounded, back-pressure neither deadlocks nor
fails to bound. Writer and state machine: sessions and events correspond one to
one, closed sessions are final, replaying changes nothing. Sweep: it closes what
a later event would have closed. Migrations: recorded implies in place. Controller:
a stop is clean, a failed cycle does not stop the next. Scoring: no closed session
falls behind the watermark, actors and buckets follow the scores and the
thresholds. Rollups: what came in time is counted for good, a run is skipped only
if it would change nothing, tables agree with each other. Triggers: a trigger
answered has been served.

## 2. Modules

| Module | Models | Extends / uses |
|---|---|---|
| `IntentIngest` | the cycle: offsets, transactions, DLQ, retries, run lock, crashes | instance of `OffsetLedger` |
| `OffsetLedger` | what the cycle promises: at-least-once consumption of partitioned logs | |
| `MC_IntentIngest` | logs for TLC | `IntentIngest` |
| `IntentIngestProofs` | the theorems about the cycle | `IntentIngest`, TLAPS |
| `OrderedDrain` | the ordering buffer and the loop that fills and empties it | |
| `OrderedDrainProofs`, `DrainBufferProofs` | the theorems about order, and about the buffer's size | `OrderedDrain`, TLAPS |
| `SessionWriter` | per-message writer, store, state machine | |
| `SessionSweep` | the idle sweep beside the writer | `SessionWriter` |
| `SessionProofs` | the theorems about sessions, with and without sweeps | `SessionSweep`, TLAPS |
| `MC_SessionWriter`, `MC_SessionSweep` | logs for TLC | `SessionWriter`, `SessionSweep` |
| `ScoreFormulas` | scores, buckets, percentiles, thresholds as integer arithmetic | |
| `IntentScoring` | the three passes of the scoring engine in several containers | `ScoreFormulas` |
| `IntentScoringProofs`, `ScoringRowsProofs` | the theorems about the watermark, and about the rows | `IntentScoring`, TLAPS |
| `RollupFacts` | what each rollup counts, as sets of facts | |
| `Rollups` | triggers, runs, stages, watermark, beside the ingest and scoring workers | `RollupFacts` |
| `RollupsProofs` | the theorems about what the rollups count | `Rollups`, TLAPS |
| `Containers` | migrations on start, the cycle controller, cached columns, shutdown | |
| `ContainersProofs` | the theorems about migrations and shutdown | `Containers`, TLAPS |
| `MC_IntentScoring`, `MC_Rollups`, `MC_Containers` | visitors, rows and databases for TLC | the module they are named for |

`IntentIngest`, `OrderedDrain` and the pair `SessionWriter`, `SessionSweep`
divide one program. `IntentIngest` says *when* records are
applied, quarantined, re-read; `OrderedDrain` says in which *order*;
`SessionWriter` says what applying them *does*. Each treats the others'
concern by the assumption the other module establishes or over-approximates:
`IntentIngest` lets the buffer release any set of records that keeps each
partition in order, which includes the order `OrderedDrain` produces;
`SessionWriter` lets any part of a batch come again, which includes what
`IntentIngest` does; the logs of which `SessionsApart` speaks (`WellSent`) have the
lateness bound that `OrderedDrain` shows (`SendOrdered`).

The other three parts meet only in tables, and each module has the others as its
environment: rows of `Rollups` arrive and are scored at any time (`Arrive`,
`Rescore`), sessions of `IntentScoring` close at any time (`CloseSession`), and a
batch of `Containers` is a row with or without the columns its schema has, whatever
`IntentIngest` finds in it. All three are about one brand: brands have separate
databases, watermarks and locks, and a pass that fails for one goes on to the next.

### IntentIngest

A record is a place in Kafka, `<<partition, offset>>`. What it contains is in the
constants `KindOf`, `BrandOf`, `ActorOf`: *good*, *rejected* (MySQL refuses its
row), *poison* (validation refuses it, or the brand is unknown) or *control* (an
offset without a message). Per worker: `phase` follows `run_cycle`; `end`, `pos`,
`buf` are the drain; `batch`, `todo`, `resolved`, `spent`, `passes` are
`_process_with_retry` and `process_batch`; `attempts` is `_attempts`, which
outlives cycles. `settled` is the truth in MySQL: the records some committed
transaction has accounted for.

| Code | Action |
|---|---|
| `RunLock.acquire`, `run_cycle` | `StartCycle`, with `TakeLock` and `StartOffset` |
| `_fetch` | `Fetch` |
| `OrderingBuffer.release` | `Release` |
| one brand's transaction | `CommitBrand`, or `AbortBrand` when anything but a data error is raised |
| `_send_to_dlq` | `Quarantine`, or `QuarantineFails` (an unacknowledged send may or may not have arrived) |
| `_commit_offsets` | `CommitOffsets`, or `CommitOffsetsFails` |
| end of `_drain`; stall, stop, exception | `Finish`; `GiveUp` |
| process death; connection of the lock dies | `Crash`; `DropLock` |
| producer, retention | `Produce`, `Expire` |

Abstractions: the end of a cycle's range is any offset up to the log's end (the
cutoff is `OrderedDrain`'s subject); a crash frees the lock at once; attempts
saturate at `MaxAttempts`; offsets are bounded by `MaxLen`, crashes by
`MaxCrashes`. The branch of `_offset_bounds` for a recreated topic is in
`StartOffset` but no action shrinks a log.

`OffsetLedger` is the abstract promise: a log per partition with a committed
offset; offsets only advance over records at rest (settled, quarantined, empty
or expired), and nothing at rest becomes unsettled. While the lock may drop,
offsets may also go back (`MayRegress`), which is what the code does when an
older cycle commits after a newer one.

### OrderedDrain

Partitions are numbers (ties go to the smaller one, as `(topic, partition)` does
in the code); a log is a sequence of send times. `Send` stamps a record,
`Arrive` appends it within `Delay`. `StartCycle` applies the cutoff
(`CycleEnd`); the loop goes `Fetch`* → `ApplyPauses` → `Release`* → `Released`
→ `Process` or `Abort`, as in `_drain`. `worst` is a history variable: how much
older than something applied a record has been when first applied. A poll is
`EventsBatch` messages; the byte limit, records beyond the range (discarded by
`_fetch`) and control records are left out; one brand, so a batch settles or
not as a whole.

### SessionWriter

`log` is the brand's records in release order. A transaction (`Begin`) takes the
next records; `ApplyActorless`, `OpenGroup`, `ApplyMessage`, `CloseGroup` are
`apply_batch`, with `mark` the group's savepoint and `RolledBack` a message's;
`Commit(kept)` commits MySQL and the offsets of a leading part of each
partition's records, possibly none; `Rollback` is a crash or an infrastructure
error. Session ids are fresh per record and transaction, as uuids are: a replay
that invents a session cannot be mistaken for the original. MySQL's refusals are
deterministic per row (`RefusedEvent`, `RefusedSession`, `RefusedCursor`), as
data errors are. Times are seconds; `Timeout = 2`, `Tolerance = 1` keep the
order of the real 1800 and 30. There is one partition for add-to-carts and one
for the rest.

### SessionSweep

Adds to `SessionWriter` what `_sweep` does after a complete cycle: `StartSweep`
reads the newest believable event and sets `cutoff`; `SweepChunk(S)` closes the
next chunk in one transaction, leaving cursors whose row cannot be built, and
decides whether the loop goes on; `SweepEnds` is a failing chunk, a stop or a
crash. While a sweep runs the writer does not: both are under the run lock. The
guard `CycleDone` (everything the writer stored is below the committed offsets)
is `DrainedIsCommitted` of `IntentIngest` at the end of a cycle.

### ScoreFormulas and IntentScoring

A visit is a record of what its closed session holds; scores are integers (10^-5
points before the column, hundredths in it), so that rounding, caps and comparisons
are exact. `score_calculator`, `penalties`, `overrides`, `traffic_quality`,
`threshold_resolution` and `threshold_calibration` are an operator each; the text
of a path or of a user agent is its class.

| Code | In the model |
|---|---|
| `intent_sessions`, thresholds, actors, watermark | `sess`, `thr`, `actors`, `watermark` |
| read replica | `replica`: any state of the last `MaxLag` ticks; a pass reads one snapshot |
| `_brand_lock`, `_heavy_lock` | `lock`; `job`, one per container |
| `_run_scoring_window` | `StartWindow`, `ScorePage`, `RecomputeActors` |
| `_drain_pending` | `StartDrain`, then `ScorePage`, `RecomputeActors` per chunk, `DrainStops` |
| `calibrate_date_for_brand` | `StartCalibration`, `WriteThresholds`, `ReassignBuckets`, `RecomputeActors` |
| `score_sessions_isolated` | the sets `failed` and `unseen` of `ScorePage` |
| an exception, a lost connection, a crash | `Fail`, `FailInPage` |

`hist` says what failures and overlaps have spoiled, so that the properties can
name their exceptions; no action reads it. Abstractions: a session's
visit does not change once closed; `DbClock` differs from IST by a constant that
`db_clock_offset` measures within its rounding; batched and per-row updates write
the same rows; two containers side by side are a redeployment and count as
a fault. `TakeLock` finds the lock free and takes it, or `GET_LOCK` raises and the pass
goes on without it (`runner.py:77-81`), a fault too; `hist.crossed` says that two windowed
passes have then run side by side.

### RollupFacts and Rollups

A rollup is a GROUP BY, so its table is the set of facts `[day, key, of]` its counts
are made of, a row being the facts that share day and key. `SummaryFacts` to
`HeatmapFacts` say what each stage counts, with the normalisation of paths, targets,
carts and sequences; measures that ride along (milliseconds, percentages, titles)
are left out. `Upserted` and `Stored` are `executemany_chunked` and the cleanup of
`_upsert_rollup_rows`.

| Code | Action |
|---|---|
| `manual_trigger`: the id queued; the job told to fire, or not; a firing during a run | `Trigger`; `Fire`; `FiringSkipped` |
| `run_data_pipeline`: takes an id, configures | `Begun` in `StartRun`, `SkipRun`, `BrandFails`, `ConfigFails` |
| `_determine_affected_dates`, `_change_signature` | `WindowStart`, `Signature` in `StartRun`, `SkipRun` |
| `_prepare_source`, with its refusals | `PrepareSource` |
| a stage; with a read that may fail; its retry; its failure | `Stage`; `OpenUnread`, `LevelsUnread`; `StageRetried`; `StageFails` |
| the end of a run | `EndRun`, `WatermarkFails` |
| ingest and scoring workers, restart | `Arrive`, `Rescore`, `Crash` |

A stage reads and writes in one step: between its read and its write another row
may come, which is the same as its coming after. A stage that fails may have committed
part of its rows: chunks of any sizes (`executemany_chunked`), and for the paths days with
their cleanup (`Partly`); of a stage that fails on the copy and again on the tables
the part of one try is left. A crash within a stage is such a failure and then `Crash`.
A summary that cannot read the open sessions counts the closed ones and succeeds
(`OpenUnread`); `hist.blind` has its days until they are counted again. The signature's maximum ids are
the numbers of rows, as ids are given in order and one writer at a time commits. A
tick is the hour of the signature.

### Containers

Per container `at` follows start-up: `Boot`, `GetLock` or `NoLock`, then file by file
`SkipRecorded`, `Statement`, `Record`, until `StopMigrating`; `Start` is
`verify_brand_schemas` and `check_topics`. A migration is what each of its statements
adds; a statement adds all or, if some of it is there, nothing and is adopted.
`Fire`, `Count`, `Enter`, `Acquire` are the two jobs of `CycleController` up to
`_busy`, each test a step; `TakeBatch`, `Commit`, `EndCycle` a cycle, `Commit` with
`_has_utm` and `_has_first_utm`; `Stop`, `Drained`, `Exit` the signal and the end of
`main`. The columns of one kind are one object of the schema.

## 3. Runs

All runs explore the full state space of their bounds.

| Run | Instance | Shows |
|---|---|---|
| `ingest_faults` | 1 worker, 2 partitions, 2 brands, good, rejected and poison records, one crash | `OffsetsCovered`, `HealthyNeverQuarantined`, `BatchSettlesInTime`, `ImplementsLedger`, `TypeOK` |
| `ingest_two_workers` | 2 workers, crashes; two actors, a refused cursor, a control record | `OneCycleAtATime`, `HealthyNeverQuarantined`, `DrainedIsCommitted` |
| `ingest_lock_lost` | 2 workers whose cycles overlap | `OffsetsCovered`, `ImplementsLedger` with regress |
| `ingest_liveness` | fair scheduling | `OffsetsCatchUp` |
| `order_drain` | 2 partitions, delivery up to twice as late as the slack and disordered, buffer of 1 | `SendOrder`, `LatenessBounded`, `BufferBounded`, `TypeOK` |
| `order_ends` | fair loop, buffer of 1, polls of 1 | `CycleEnds` |
| `order_alarm` | aborted batch | **violated**: `AlarmsAreReal` |
| `sessions` | writer and sweep; 1,227 logs of up to 4 messages in four groups: `RetriedLogs` (in any order, one possibly published twice), `LateLogs` (repeated add-to-carts, late messages), `RejectedLogs` (two actors; a refused event, session, cursor), `SweptLogs` (three visitors who come back or not; a bogus future time) | `SweepTransparent`, `SessionsApart`, `ClaimsBacked`, `EventsInSessions`, `NothingVanishes`, `OnlyRefusedDropped`, `ClosedIsFinal`, `TypeOK` |
| `sessions_discarded_atc` | one log of three messages | **violated**: `ReplayAbsorbed` |
| `scoring` | 2 containers, a replica 1 tick late, pages of 2, chunks of 1, days of 2 ticks, a clock 4 ticks off, one fault (a lock that cannot be asked for is one); two sessions of one actor on one day, a crawler, a glance | `WatermarkCovers`, `StaleActorsRevisited`, `BucketsAgree`, `WatermarkAdvances`, `TypeOK` |
| `rollups` | five scenes: a page view and a click over three days; a session over midnight with a cut cart; two sessions over the cap of a day; two manual triggers, with and without the schedule; one fault each | `NothingMissed`, `RememberedIsCurrent`, `LevelsAddUp`, `LevelsSettle`, `TriggerFresh`, `TypeOK` |
| `containers` | the worker and one more container; a new database, an old server with 001 and 002, one with both by hand and rebuilds allowed, a migrated one; one or two messages, one fault; fair scheduling | `RecordedIsWhole`, `RowsFollowSchema`, `CleanStop`, `KeepsIngesting`, `TypeOK` |

`SendOrder` speaks of behaviours in which every delivery is within the slack and
every partition in send order (`slow` remembers whether one was not);
`LatenessBounded` of all. `SessionsApart` and `ClaimsBacked` speak of `WellSent` logs:
records first come in send order, give or take the tolerance (`SendOrdered`); an event
id names one message; no visitor puts one product into the cart twice in a visit
(`NoneDiscarded`), as the second is discarded and no replay knows it; and messages
published twice are not of an actor whose session or cursor MySQL refuses
(`RefusedOnce`), as a refused group comes and goes with the cut of the batches. Without any
one of the last three TLC finds `SessionsApart` violated. `SweepTransparent` speaks of logs in send order but
for times beyond `Horizon`, the latest a store clock can have reached (`ClockOrdered`: the code
believes a cursor up to `UTC + tolerance`), of which nothing is refused or discarded. For
these it includes what `ReplayAbsorbed` says of the writer alone, that reading
records again changes nothing.

`WatermarkCovers` has three exceptions, all in the code: a session some pass reported
as failed stays pending for the drain; a session closed before the first window is
not in it; and what is in the next window is covered, though a pass that always
breaks never gets to it. `StaleActorsRevisited` and `BucketsAgree` name theirs in
`hist`: a drain or a calibration cut between two commits, a session scored from a
snapshot older than the thresholds, a calibration or a pass without the lock beside
another container's pass. Without any of these exceptions TLC finds the property
violated. `WatermarkAdvances` excepts what follows two windowed passes side by side
(`hist.crossed`): the older may then write its start over that of the younger, and the
window is read again. `WatermarkCovers` does not mention the lock and needs no such
exception: a lost lock costs work, never a session.
`NothingMissed` is about rows that come within `ROLLUP_OVERLAP` of their time;
`LevelsAddUp` and `LevelsSettle` about days last written by a run whose stages read
the copy (`torn` marks the others) and, for `product_intent_daily`, about the days of
the window; `RememberedIsCurrent` leaves aside the levels, whose rewriting the signature
does not see, and the summary of days counted without their open sessions; `TriggerFresh` about runs whose rollups did not fail. `RowsFollowSchema`
allows `UTM_RECHECK_S` of delay.

**Why the bounds are enough.** Each hazard needs few parts: a hole needs two
records of a partition; a partial failure two brands or two actors; an overlap
two workers; a lost commit and a replay two transactions; a merge two
partitions; a session boundary two sessions and a late message between. Every run of the
ingest worker has one more than that somewhere. A watermark hazard needs a window,
a row that misses it and the next window, so two to four ticks with days of two
and an overlap of one; a skipped run two runs; a lost trigger two triggers and a
run under way; an adopted statement a file of two statements, one of them in place;
a stale cache one re-check. One fault is enough for each exception the
properties name to happen. Mutants (one per property and run) show
that the bounds reach the error the property is about. Deadlock is not checked:
logs, clocks, transactions and crashes are bounded, so the system may stop.

**Fairness.** `ingest_liveness` assumes that the scheduler keeps triggering
cycles (the interval job and `check_batch`), that a consumer which polls again
and again gets the messages, and that a step tried again and again — a brand's
transaction, a DLQ send, an offset commit, each per record — sometimes succeeds:
strong fairness, as the code retries them in every cycle without limit. No
fairness is assumed of crashes, of giving up or of failures. `order_ends` assumes
that the loop takes its steps (weak fairness) and that a partition that can be
fetched in every round is eventually fetched (strong, since the loop passes
through other steps); the stall timeout is given no fairness, so it is not what
ends the cycle. `containers` assumes weak fairness of the schedule job and of the
steps a thread takes once it runs; the batch job, start-up, crashes and operators get
none. In `scoring` and `rollups` nothing is fair: their properties are safety.

**Findings.** *A discarded add-to-cart is not replay-safe*
(`sessions_discarded_atc`): it leaves no row with its event id, so once its
session is over the same record is stored when it comes again, and it closes the
actor's live session. `RetriedLogs` therefore have one add-to-cart per actor,
and the properties about replays exclude the case by `NoneDiscarded`. *False order alarms*
(`order_alarm`): `released_high_ts` remembers what was released, not what was
applied. Beyond these, TLC shows that on logs that are late by more than the
tolerance `ClaimsBacked` fails: a duplicate can claim a product for a session
that never stores it (the claim comes before the duplicate check). And a closed
session row MySQL refuses fails its whole chunk of the sweep, in every cycle, so
no idle session of the brand that sorts behind it is closed (`SweepChunk` needs
every row accepted).

Seen while modelling and part of the models, in the form of named exceptions or
bounds of the properties:

- *A full page of the windowed scoring pass fails.* `session_scorer.py:121` reads
  `updated_at` from rows that do not select it; the pass raises after it has scored
  the page, the watermark stays, and the next pass meets the same page. Only the
  drain goes on scoring.
- *A drain cut between a chunk's commit and its recompute leaves actors out of
  date*, although `runner.py:209` says that a restart loses nothing: the sessions are
  no longer pending and no watermark leads back to them.
- *A session can fall below its own percentile.* Python compares the score before it
  is rounded for the column, calibration computes the thresholds from rounded ones.
- *The copy of the window ends the lookback of `product_intent_daily`.*
  `rollups.py:67` says that the most recent days are always recomputed, but with the
  copy (the default) the days before the window read nothing and keep their rows.
- *Read directly, `product_intent_daily` and `product_behavior_daily` of the lookback
  days are computed in different runs*, so they may differ by late events.
- *A skipped run may leave a summary that is short.* `rollups.py:1899` says that the
  tables are right when nothing was added since a complete run, but a run that could not
  read the open sessions is complete too; the hour in the signature ends it.
- *A session that closes long after midnight* counts on the day it began, which no
  window may hold any more: the summary and the paths of that day miss it.
- *A trigger is answered completed although its rollups failed*: `_process_mapped_brand`
  swallows the exception (`orchestration.py:88`).
- *Without a schedule a trigger whose firing is skipped waits for the next trigger*,
  and each run serves one id, so the queue stays one behind.
- *A column that is already there can hide others of the same statement* from the
  migrations runner; no file of `migrations/` meets the case, but for columns of one
  kind added partly by hand.

The documents still describe consumer groups, an ordering domain check and seeking, which the
code no longer has.

## 4. Proofs

Every theorem is about the specification without fairness, for all constants that
satisfy the module's `ASSUME` and the hypotheses named here.

| Module | Theorem | For every reachable state, or step |
|---|---|---|
| `IntentIngestProofs` | `TypeCorrect` | `TypeOK` |
| | `OffsetsAlwaysCovered` | no committed offset covers unfinished work, whether or not the run lock holds |
| | `OneCycleAlways` | cycles exclude each other while the lock's connection lives |
| | `DrainedAlwaysCommitted` | nothing released is forgotten between two batches, while that connection lives |
| | `BatchAlwaysSettles` | without a fault a batch is settled in `MaxAttempts` passes |
| | `HealthyNeverLost` | healthy records are never quarantined |
| | `IngestImplementsLedger` | the cycle implements `OffsetLedger` |
| `OrderedDrainProofs` | `DrainTyped` | `TypeOK` |
| | `LatenessAlwaysBounded` | no record is applied after one younger than itself by more than the longest delivery (`Delay`) |
| | `SendOrderKept` | records are applied in send order when each partition is in send order and no delivery is slower than the slack |
| `DrainBufferProofs` | `BufferAlwaysBounded` | the buffer holds less than its maximum and one poll for every partition |
| `SessionProofs` | `WriterTyped` | `TypeOK` of the writer, beside the sweep |
| | `EventsAlwaysInSessions` | stored events and the steps of sessions correspond one to one |
| | `ClosedStaysFinal` | `ClosedIsFinal`, a property of steps |
| | `NothingEverVanishes` | what is below the committed offset is accounted for |
| | `OnlyRefusedEverDropped` | only what MySQL refuses costs its actor a record |
| | `SessionsAlwaysApart` | `SessionsApart`, if `TimeoutSuffices`: no visit is cut or merged |
| | `ClaimsAlwaysBacked` | `ClaimsBacked`, if `TimeoutSuffices` |
| | `SweepAlwaysTransparent` | `SweepTransparent`, if `TimeoutSuffices`: replays and sweeps change no visit |
| `IntentScoringProofs` | `ScoringTyped` | `TypeOK` |
| | `WatermarkOnlyAdvances` | `WatermarkAdvances`, a property of steps: the watermark goes back only after two windowed passes without the lock ran side by side |
| | `WatermarkAlwaysCovers` | `WatermarkCovers`, if `OverlapSuffices` |
| `ScoringRowsProofs` | `StaleAlwaysRevisited` | `StaleActorsRevisited`, if `OverlapSuffices` |
| | `BucketsAlwaysAgree` | `BucketsAgree` |
| `RollupsProofs` | `RollupsTyped` | `TypeOK` |
| | `NothingIsMissed` | what came in time is counted for good |
| | `RememberedIsRight` | `RememberedIsCurrent`: skipping a run loses nothing, levels and unread open sessions aside |
| | `AnsweredIsFresh` | `TriggerFresh` |
| | `LevelsAlwaysAddUp` | on days that are not torn each product fact is at one level per basis |
| | `LevelsAlwaysSettle` | `LevelsSettle`: after a quiet run the levels are those of now |
| `ContainersProofs` | `ContainersTyped` | `TypeOK` |
| | `RecordedAlwaysWhole` | what is recorded as applied is there whole |
| | `StopsClean` | a clean stop leaves no batch in hand |
| | `RowsAlwaysFollow` | `RowsFollowSchema` |

**IntentIngest.** `OffsetsCovered` is not inductive: whether an offset commit is
right depends on what the worker holds. `IngestInv` adds, per worker, that what
it counts as resolved is at rest in MySQL or the DLQ (`ResolvedIsDurable`), that
batch and buffer fit the phase (`HandMatchesPhase`), and that between
the offset the cycle started from and its position nothing is skipped: every
record is at rest, buffered or in the batch, in order (`NothingSkipped`,
`HandInOrder`, `WithinLog`). The leading run of resolved records of a batch then
covers only records at rest. None of this mentions the lock, which is why losing
it cannot lose records. `OrderedInv` adds, when the lock cannot drop, that an
active worker holds it and that the committed offset does not exceed what it
holds; this gives mutual exclusion and monotone offsets, the two obligations of
the refinement that need it. Its mirror image `HandAhead` — what was fetched from the
committed offset on is in hand — gives `DrainedIsCommitted`: a batch is dropped only
with nothing unresolved, and then its leading run is all of it. `PassInv` counts: an
unresolved record of a batch without a fault has been rejected once in each pass,
in this one too if its brand's turn is over, and one that reached the limit is
quarantined before the pass ends. `QuarantineInv` keeps healthy records out of `spent`.

**OrderedDrain.** The buffer sorts a record by the highest time its partition has
shown so far, so its key is never below its own time and above it by at most what
delivery allows: `Gap`, which is `Delay` once some partition is out of order or a
slow delivery has happened, and 0 before. `OrderInv` carries this bound from the log (`Delivered`)
to the keys in the queues (`Keyed`), to what lies beyond the cycle's range
(`InRange`), to what has left the buffer (`Settled`, `Merged`). The merge releases the
lowest key, and only when every partition with nothing in the buffer is read to the end of its
range, so whatever comes later has a key at least as high. `worst` never exceeds `Gap`, which is `LatenessBounded`; with `Gap` 0 it is
`SendOrder`. That the buffer is bounded needs more than its size: while the
pressure is on, the partitions still read have nothing in the queue but the current poll
(`Filled`), so what each partition has beyond one poll never sums to the maximum.

**SessionWriter and SessionSweep.** The theorems are about `SweepSpec`, whose steps
include all of the writer's own. `Sound` says of a database and its open sessions that an
open session was made for its actor, is made of records of that actor and is not
written yet (`OpenSound`); that no two rows share an id (`ClosedSound`); that events are the steps
of sessions, once each (`StepsSound`); and that who claimed a product has stored it
(`ClaimsSound`, without which a discarded add-to-cart could vanish). Every view that may
become the committed database is sound: the database itself, the transaction with the
cursor in memory put in its place (`ViewSound`), and the savepoint of the group, to which a refused
cursor returns (`MarkSound`). The last two have what the database has and nothing new for
its closed sessions (`Extends`), which is `ClosedIsFinal` at the commit; and each
record applied so far is rejected or `Held` by them, which is `NothingVanishes`. What
makes this inductive is that an id is made once (`Made`): uuids are fresh, per
record and transaction. `MessageTreated` is `_apply_one` for an identified actor, in all
its outcomes; `SweepSound` is a chunk of the sweep, after which each actor has the
sessions it had.

Three more theorems relate sessions to time, under `TimeoutSuffices`: `Tolerance <= Timeout` (30 s
against 1800 s by default, `config.py`). That the margin of the sweep is at least the tolerance is
`SweepAssumption` (60 s against 30 s). A *visit* of an actor is a stretch of its records without a
pause longer than the timeout. `VisitInv` says that a session's last event is its latest, that stored
events are of records of the log, and that a claimed product was in a record of the session's
visit; `Whole` and `Kept` that a batch leaves an actor's records all applied or all to come, unless refused.
`OrderInv` then compares what is stored with what is to come: sessions
are apart, claims backed, and a record still to come is not earlier than what is stored by more than
the tolerance, or belongs to another visit if no session is open, or its actor is stuck on a refused row. `SweepInOrder`
says why the sweep may close: whatever is still to come is a timeout after the cutoff, since the newest
event is at most the tolerance, hence the margin, ahead of it. `SweepTransparent` needs a simulation: `Agrees(N)` says that everything done lies
in the first `N` records, and for each actor the tables are the `Same` as `Once[N]`, or the sweep
has closed the session that `Once[N]` still has open and whatever comes is in another visit
(`Over`). An open transaction is the same as `Once[n]` for each actor it has reached, at an `n` of
the actor's own (`UpTo`): records of others change nothing of its rows (`OnceQuiet`). `NextAlike` applies a new record
to both sides, `AgainAlike` one that comes again to the tables alone.
**IntentScoring.** `WatermarkCovers` needs `OverlapSuffices`: `MeasuredOffset + MaxLag <=
DbOffset + Overlap`. A session closed while a pass reads is stamped with the
database's clock and may be missing from the replica; the next window begins
`Overlap` before the watermark, which must make up for the lag and for what rounding
adds to the measured offset. The code overlaps by an hour (`config.py:96`) and rounds to
a quarter of an hour (`db_clock.py:20`), so up to 52.5 minutes of lag are covered.
`CoverInv` says that of the pending sessions older than the end of a running window's overlap
each is still to be read, was refused, or lies before the first lookback. None of it
mentions the lock. `WatermarkOnlyAdvances` does: while no two windowed passes have
crossed, at most one is running, and it began no earlier than the watermark.
`StaleInv` follows an actor whose row is out of date: it is among the actors
a pass is about to recompute, or it has a settled session in the next window; with
it go that a second scoring gives the verdict of the first (`Verdicts`) and that
no two containers are in a pass unless `hist.overlapped` (`AtMostOne`): a calibration takes
no lock, and a pass whose `GET_LOCK` raised has none.
`BucketInv` follows a calibration from the cuts it computed (`CutsSet`) through the
thresholds it wrote (`CutsWritten`) to the buckets it has yet to assign; every row of
a calibrated day fits them in the end. `PercentileIn` supports the types: a
nearest-rank percentile is a value of the sample, for a sample of any size.

**Rollups.** `RollupInv` has four parts. `Framed` is about records and windows: an id is
queued once (`QueuedOnce`); a window ends with its run (`RunWindow`, `LastWindow`); a signature
counts at most the rows there are (`Signs`), so that one which still matches saw them
all (`NoneSince`, `ArrivalShows`). `Written` is about tables: a day that has facts keeps some
(`DaysHave`), and therefore a stage replaces it whole; the copy has what the run was asked for and
is exact while no row comes (`CopySound`); what the run has written, and what is
remembered, is current while no row comes (`RunCurrent`, `LastCurrent`). `Served` is about
rows: one that came in time is counted, too old, or in the next window (`OwedDue`), a run's
window has what it was asked for (`RunOwed`), and its stages have counted it
(`RunCounted`); who asked is answered by a run that was asked for what he wanted (`Answers`). `Owing` is
about skipped runs: a run that no row came since was asked for all that is owed, and once it is
remembered that is counted, or too old (`SkippedCounted`). Days in
`hist.blind` are kept out of `RunCurrent` and `LastCurrent` for the summary only. Days
are handled by monotonicity of division, so day length, overlap and lookbacks are any
numbers; of the scenes it is assumed that they have finitely many rows, each in one of the three
tables and told apart by its `row` (its table and primary key), and that times and session ids are
numbers (`ScenesAssumption`); `NoneAssumption` says that `None` is no run, no copy and
nothing that could be remembered. Two cases need care. When the longest window is shorter than the overlap,
some day is left out by every run; `Window` says it is no later than the day from which rows
are promised. A skipped run moves no watermark: the signature holds the hour, so the
last run was within it (`SkipAtWatermark`).
`LevelInv` is about the two tables with levels. They are written by two stages, from a copy
or from the tables, and a day's facts are replaced only if new ones are computed for it. So a day with facts keeps
having an event to count (`Supported`), in the copy too (`CopyOfWindow`), and both stages of a clean run replace
the same days from the same events: products first, then their levels (`RunMatched`).
`torn` has every other day that a stage may write (`TornWindow`), and the days outside it
are left alone or matched whole (`SoundMatched`), which is `LevelsAddUp`. While all is quiet the copy is exact and the levels
a run has written are those of now (`RunSettled`, then `LastSettled`). That `product_intent_daily`
reaches back further than its copy does no harm: a copy has rows of the window only, so it
computes nothing for the days before (`CopyRead`).

**Containers.** `RecordedIsWhole` needs what a container that migrates has behind it: the files
before the one it is at, and the statements of that file, are in place (`Progress`).
A statement that stops at "already exists" keeps this only if what it adds was there
whole (`AllOrNothing`), which holds because MySQL applies an `ALTER` whole or not at
all and because two statements add the same things or nothing in common. The last is
an assumption about the files in `migrations/` and about what an operator applies by
hand: a statement taken apart by hand breaks it, and then the file is recorded although
part of it is missing. `MigrationInv` does not mention the named lock: objects are
never dropped, so the lock saves errors and repeated work, not correctness. `StopInv`
says that the job in a cycle holds `_busy` and that after a clean wait none has a
batch in hand: the wait saw the lock free after the stop event was set, and a job that
takes the lock later looks at the event before it reads a batch. `RowInv` dates what
the cache says: a *yes* was read with the columns in place, and a *no* was true
or unread when it was read, and is read again after `Recheck`; a row without columns
that were there is therefore younger than that.

TLC checked each of these invariants before it was proved, on the bounds of the runs:
`IngestInv`, `OrderedInv`, `PassInv` and `HandAhead` (883,390 states of `ingest_faults`, 193,996 of
`ingest_two_workers`), `OrderInv` and `Filled` (995,098 of `order_drain`, and 2,582,150 with
larger batches), `SweepInv`, `PlainInv`, `WellInv` and `TransInv` (1,219,760 of `sessions`; the last also on 348,020
with longer logs), `CoverInv`, `StaleInv` and `BucketInv` (384,247 of
`scoring`), `TypeInv` and `RowInv` (551,286 of `containers`), `RollupInv` and `LevelInv` (2,607,208 of `rollups` with an hour more
for the cap of a day and for the triggers; the first also on
2,540,803 with a window shorter than the overlap, and on 2,932,555 without a first lookback).

**Data.** The induction theorems of the library take an operator as a
parameter, which the installed provers cannot instantiate. What is needed of sums over
partitions (`UpTo`, `SumExists`), of the first elements of an ordered set (`FirstOnes`) and of
percentiles is proved instead from the least element of a set of natural
numbers (`Least`, `FirstPosition`), where a counterexample would have to be. `Once` is defined by recursion on
the log: that it exists and satisfies its equation (`FollowsExists`, `OnceIs`) is proved the same way, from the
least prefix of the log without such a function.

**Model-checked only.** Everything under fairness (`OffsetsCatchUp`, `CycleEnds`,
`KeepsIngesting`), since liveness is out of the prover's reach; and that `order_alarm` and
`sessions_discarded_atc` are violated, which is for TLC to show. Every other property of a run has a theorem.

## 5. Not modelled, and the plan

In order:

1. `BulkWriter`: the bulk algorithm over a batch, equal to the per-message
   result for all small databases and batches. It runs only with
   `INTENT_WRITE_MODE=batch`.
2. Several brands in one scoring or rollup pass, and the order of the startup runs.

Left out for good: field validation and row formatting (data the properties do
not tell apart), the text of paths and user agents, reading and decrypting
configuration, connecting, TLS and metrics, the HTTP server, one-off scripts, and
code nothing imports.
