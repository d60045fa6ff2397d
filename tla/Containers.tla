------------------------------- MODULE Containers -------------------------------
(***************************************************************************)
(* What happens in the containers around the ingest cycle, for one brand:   *)
(* each applies the pending migrations when it starts (pipeline/            *)
(* migrations.py); the Kafka worker (workers/intent_kafka_worker.py) then   *)
(* verifies the schema, runs cycles on two triggers, remembers which        *)
(* columns the database has (pipeline/intent_kafka_db.py) and stops on a    *)
(* signal.  What a cycle reads and commits is IntentIngest's subject: here  *)
(* a batch is a row with or without the columns a migration adds.           *)
(***************************************************************************)
EXTENDS Integers, Sequences, FiniteSets, FiniteSetsExt

CONSTANTS
  None,
  Worker, Others,   \* the Kafka worker; containers that only migrate
  Migrations,       \* discover(): [adds: a set per statement, tolerant, requires]
  Required,         \* what verify_schema asks for
  Needs,            \* what each optional feature of the rows needs: utm, first utm
  Scenes,           \* [schema, recorded, supported, rebuild, messages, until] to start from
  Recheck,          \* UTM_RECHECK_S, in ticks
  Batch,            \* INTENT_EVENTS_BATCH
  MaxFaults         \* bound on crashes, failed statements, checks and cycles

ASSUME ContainersAssumption ==
  /\ Worker \notin Others /\ None \notin {"schedule", "batch"}
  /\ None \notin Int /\ None \notin Others \cup {Worker}
  /\ \A s \in Scenes : s.messages \in Nat /\ s.until \in Nat
  /\ {Recheck, Batch} \subseteq Nat \ {0} /\ MaxFaults \in Nat

Jobs == {"schedule", "batch"}
Container == Others \cup {Worker}
Feature == DOMAIN Needs
Files == DOMAIN Migrations
Adds(n) == UNION { Migrations[n].adds[k] : k \in DOMAIN Migrations[n].adds }

Whole(files, objects) == \A n \in files : \A m \in 1 .. n : Adds(m) \subseteq objects

\* A statement that stops at an "already exists" finds all it adds, or nothing.
AllOrNothing(objects) ==
  \A n \in Files : \A k \in DOMAIN Migrations[n].adds :
    \/ Migrations[n].tolerant
    \/ Migrations[n].adds[k] \subseteq objects
    \/ Migrations[n].adds[k] \cap objects = {}

ASSUME MigrationsAssumption ==
  /\ Files = 1 .. Len(Migrations) /\ Len(Migrations) \in Nat
  /\ \A n \in Files : DOMAIN Migrations[n].adds = 1 .. Len(Migrations[n].adds)
                      /\ Len(Migrations[n].adds) \in Nat
  /\ \A m, n \in Files : \A j \in DOMAIN Migrations[m].adds, k \in DOMAIN Migrations[n].adds :
       \/ Migrations[m].adds[j] = Migrations[n].adds[k]
       \/ Migrations[m].adds[j] \cap Migrations[n].adds[k] = {}
  /\ \A s \in Scenes : s.recorded \subseteq Files /\ Whole(s.recorded, s.schema) /\ AllOrNothing(s.schema)

VARIABLES
  clock,
  scene,
  schema,    \* columns, keys and tables of the brand database
  recorded,  \* intent_schema_migrations
  lock,      \* GET_LOCK("intent-migrations")
  at,        \* where each container is: down, lock, migrate, started, up
  step,      \* in migrate: the file and statement it is at, what it read as recorded
  pending,   \* messages waiting in Kafka
  busy,      \* CycleController._busy: the job that holds it
  job,       \* where the two jobs of the scheduler are
  main,      \* the main thread: running, draining, clean, late
  cache,     \* BrandConnections._utm, _first_utm
  rows,      \* batches committed: when, and with which features
  since,     \* history: when each feature's columns were complete, and when a check last failed
  faults

migration == <<schema, recorded, lock, at, step>>
cycles == <<pending, busy, job, main, cache, rows>>
vars == <<clock, scene, migration, cycles, since, faults>>

NoStep == [file |-> 0, statement |-> 0, done |-> {}]
NoCache == [f \in Feature |-> None]

Complete(objects) == { f \in Feature : Needs[f] \subseteq objects }
Fault == faults < MaxFaults /\ faults' = faults + 1

Init ==
  /\ clock = 0 /\ faults = 0
  /\ scene \in Scenes
  /\ schema = scene.schema /\ recorded = scene.recorded /\ pending = scene.messages
  /\ lock = None /\ at = [c \in Container |-> "down"] /\ step = [c \in Container |-> NoStep]
  /\ busy = None /\ job = [j \in Jobs |-> "idle"] /\ main = "running"
  /\ cache = NoCache /\ rows = {}
  /\ since = [complete |-> [f \in Feature |-> IF f \in Complete(schema) THEN 0 ELSE None],
              unread |-> [f \in Feature |-> None]]

Tick ==
  /\ clock < scene.until /\ clock' = clock + 1
  /\ UNCHANGED <<scene, migration, cycles, since, faults>>

-----------------------------------------------------------------------------
(* Migrations *)

Boot(c) ==
  /\ at[c] = "down" /\ at' = [at EXCEPT ![c] = "lock"]
  /\ IF c = Worker THEN main' = "running" /\ cache' = NoCache ELSE UNCHANGED <<main, cache>>
  /\ UNCHANGED <<clock, scene, schema, recorded, lock, step, pending, busy, job, rows, since, faults>>

\* migrate_connection: the lock, then what is recorded.
GetLock(c) ==
  /\ at[c] = "lock" /\ lock = None
  /\ lock' = c
  /\ at' = [at EXCEPT ![c] = "migrate"]
  /\ step' = [step EXCEPT ![c] = [file |-> 1, statement |-> 1, done |-> recorded]]
  /\ UNCHANGED <<clock, scene, schema, recorded, cycles, since, faults>>

\* GET_LOCK times out, or the database cannot be reached: logged, and on it goes.
NoLock(c) ==
  /\ at[c] = "lock"
  /\ \/ lock # None /\ UNCHANGED faults
     \/ lock = None /\ Fault
  /\ at' = [at EXCEPT ![c] = "started"]
  /\ UNCHANGED <<clock, scene, schema, recorded, lock, step, cycles, since>>

Here(c) == step[c].file
Deferred(n) == Migrations[n].requires /\ ~scene.supported /\ ~scene.rebuild
Altered(objects) ==
  since' = [since EXCEPT !.complete =
              [f \in Feature |-> IF @[f] = None /\ f \in Complete(objects) THEN clock ELSE @[f]]]

\* The loop over the files goes on; the lock is held.
Migrating(c) == at[c] = "migrate" /\ Here(c) \in Files
NextFile(c) == step' = [step EXCEPT ![c] = [file |-> Here(c) + 1, statement |-> 1, done |-> step[c].done]]
NextStatement(c) == [step[c] EXCEPT !.statement = @ + 1]

SkipRecorded(c) ==
  /\ Migrating(c) /\ Here(c) \in step[c].done
  /\ NextFile(c)
  /\ UNCHANGED <<clock, scene, schema, recorded, lock, at, cycles, since, faults>>

\* Mutant: an "already exists" error means the file is in place.
AfterAdoptedFile(c) == [step[c] EXCEPT !.statement = Len(Migrations[Here(c)].adds) + 1]

\* After an "already exists" error _apply goes on with the next statement.
AfterAdopted(c) == NextStatement(c)

\* One statement of a file: it adds all it names, or nothing if any of it is there
\* (ADOPTED_ERRNOS), or what is missing if it says IF NOT EXISTS.
Statement(c) ==
  /\ Migrating(c) /\ Here(c) \notin step[c].done /\ ~Deferred(Here(c))
  /\ step[c].statement \in DOMAIN Migrations[Here(c)].adds
  /\ LET objects == Migrations[Here(c)].adds[step[c].statement]
         adopted == objects \cap schema # {} /\ ~Migrations[Here(c)].tolerant
     IN  /\ schema' = IF adopted THEN schema ELSE schema \cup objects
         /\ step' = [step EXCEPT ![c] = IF adopted THEN AfterAdopted(c) ELSE NextStatement(c)]
  /\ Altered(schema')
  /\ UNCHANGED <<clock, scene, recorded, lock, at, cycles, faults>>

Record(c) ==
  /\ Migrating(c) /\ Here(c) \notin step[c].done /\ ~Deferred(Here(c))
  /\ step[c].statement \notin DOMAIN Migrations[Here(c)].adds
  /\ recorded' = recorded \cup {Here(c)}
  /\ NextFile(c)
  /\ UNCHANGED <<clock, scene, schema, lock, at, cycles, since, faults>>

\* The run for this brand stops: all files seen, one deferred ("later files may
\* depend on this one"), or one failed, its connection perhaps with it.
StopMigrating(c) ==
  /\ at[c] = "migrate"
  /\ \/ Here(c) \notin Files /\ UNCHANGED faults
     \/ Here(c) \in Files \ step[c].done /\ Deferred(Here(c)) /\ UNCHANGED faults
     \/ Here(c) \in Files /\ Fault
  /\ lock' = None
  /\ at' = [at EXCEPT ![c] = "started"]
  /\ step' = [step EXCEPT ![c] = NoStep]
  /\ UNCHANGED <<clock, scene, schema, recorded, cycles, since>>

\* The operator applies a deferred file, statement by statement, not its record.
ByHand ==
  /\ \E n \in Files \ recorded : \E k \in DOMAIN Migrations[n].adds :
       /\ Deferred(n)
       /\ \A m \in 1 .. k - 1 : Migrations[n].adds[m] \subseteq schema
       /\ Migrations[n].adds[k] \cap schema = {}
       /\ schema' = schema \cup Migrations[n].adds[k]
  /\ Altered(schema')
  /\ UNCHANGED <<clock, scene, recorded, lock, at, step, cycles, faults>>

\* Mutant: the worker starts whatever the migrations left undone.
StartUnverified(c) ==
  /\ at[c] = "started"
  /\ at' = [at EXCEPT ![c] = "up"]
  /\ UNCHANGED <<clock, scene, schema, recorded, lock, step, cycles, since, faults>>

\* run_on_start never raises.  The worker then verifies the schema and the topics,
\* and exits if something is missing; docker restarts it.
Start(c) ==
  /\ at[c] = "started"
  /\ \/ /\ c = Worker => Required \subseteq schema
        /\ at' = [at EXCEPT ![c] = "up"] /\ UNCHANGED faults
     \/ c = Worker /\ ~(Required \subseteq schema) /\ at' = [at EXCEPT ![c] = "down"] /\ UNCHANGED faults
     \/ c = Worker /\ Fault /\ at' = [at EXCEPT ![c] = "down"]
  /\ UNCHANGED <<clock, scene, schema, recorded, lock, step, cycles, since>>

-----------------------------------------------------------------------------
(* CycleController and its two jobs *)

Up == at[Worker] = "up"
Stopping == main # "running"
Move(j, to) == job' = [job EXCEPT ![j] = to]
OnlyJobs == UNCHANGED <<clock, scene, migration, main, cache, rows, since>>

\* The scheduler fires: the schedule job runs a cycle, the batch job looks at the
\* stop event and the lock first.
Fire(j) ==
  /\ Up /\ main = "running" /\ job[j] = "idle"
  /\ IF j = "schedule" THEN Move(j, "run") ELSE busy = None /\ Move(j, "count")
  /\ OnlyJobs /\ UNCHANGED <<pending, busy, faults>>

\* check_batch reads the lag with no lock; the check may fail.
Count ==
  /\ job["batch"] = "count"
  /\ \/ Move("batch", IF pending >= Batch THEN "run" ELSE "idle") /\ UNCHANGED faults
     \/ Move("batch", "idle") /\ Fault
  /\ OnlyJobs /\ UNCHANGED <<pending, busy>>

\* run: not once stopping, then the lock without waiting.
Enter(j) ==
  /\ job[j] = "run"
  /\ Move(j, IF Stopping THEN "idle" ELSE "acquire")
  /\ OnlyJobs /\ UNCHANGED <<pending, busy, faults>>

Acquire(j) ==
  /\ job[j] = "acquire"
  /\ IF busy = None THEN busy' = j /\ Move(j, "cycle") ELSE UNCHANGED busy /\ Move(j, "idle")
  /\ OnlyJobs /\ UNCHANGED <<pending, faults>>

\* Mutant: a batch is taken whether or not a stop was requested.
MayTakeBatchAlways == TRUE

\* _drain looks at the stop event between batches.
MayTakeBatch == ~Stopping

TakeBatch(j) ==
  /\ job[j] = "cycle" /\ pending > 0 /\ MayTakeBatch
  /\ Move(j, "batch")
  /\ OnlyJobs /\ UNCHANGED <<pending, busy, faults>>

\* Mutant: only the events table is looked at.
PresentInOne(f) == Needs[f] \cap schema # {}

\* utm_columns_present, first_utm_column_present
Present(f) == Needs[f] \subseteq schema

\* _has_utm, _has_first_utm: a yes is kept for ever, a no for a while; a check that
\* fails is a no.
Fresh(f) == cache[f] # None /\ (cache[f].present \/ clock - cache[f].when < Recheck)
Looked(f, unread) ==
  IF Fresh(f) THEN cache[f] ELSE [when |-> clock, present |-> f \notin unread /\ Present(f)]

\* transaction: what the database has is looked up, then the batch is committed.
Commit(j) ==
  /\ job[j] = "batch"
  /\ \E unread \in {{}} \cup { {f} : f \in { g \in Feature : ~Fresh(g) } } :
       /\ IF unread = {} THEN UNCHANGED faults ELSE Fault
       /\ cache' = [f \in Feature |-> Looked(f, unread)]
       /\ since' = [since EXCEPT !.unread = [f \in Feature |-> IF f \in unread THEN clock ELSE @[f]]]
  /\ rows' = rows \cup {[when |-> clock, with |-> { f \in Feature : cache'[f].present }]}
  /\ pending' = pending - 1
  /\ Move(j, "cycle")
  /\ UNCHANGED <<clock, scene, migration, busy, main>>

\* Mutant: an exception leaves the lock behind.
FreedUnless(raised) == IF raised THEN busy ELSE None

\* run releases the lock in any case.
Freed(raised) == None

\* The cycle ends: nothing more in its range, a stop, or an error that is logged.
EndCycle(j) ==
  /\ job[j] \in {"cycle", "batch"}
  /\ \E raised \in BOOLEAN :
       /\ IF raised THEN Fault ELSE job[j] = "cycle" /\ (pending = 0 \/ Stopping) /\ UNCHANGED faults
       /\ busy' = Freed(raised)
  /\ Move(j, "idle")
  /\ OnlyJobs /\ UNCHANGED pending

\* SIGTERM: no more firings; jobs under way go on.
Stop ==
  /\ Up /\ main = "running"
  /\ main' = "draining"
  /\ UNCHANGED <<clock, scene, migration, pending, busy, job, cache, rows, since, faults>>

\* drain: the lock is free for a moment, or the wait times out.
Drained ==
  /\ main = "draining"
  /\ main' = IF busy = None THEN "clean" ELSE "late"
  /\ UNCHANGED <<clock, scene, migration, pending, busy, job, cache, rows, since, faults>>

\* The process ends when its threads have.
Exit ==
  /\ main \in {"clean", "late"} /\ \A j \in Jobs : job[j] = "idle"
  /\ at' = [at EXCEPT ![Worker] = "down"]
  /\ main' = "running"
  /\ UNCHANGED <<clock, scene, schema, recorded, lock, step, pending, busy, job, cache, rows, since, faults>>

\* A container dies; MySQL frees its lock, and its last statement is done or not.
Crash(c) ==
  /\ at[c] # "down" /\ Fault
  /\ at' = [at EXCEPT ![c] = "down"]
  /\ step' = [step EXCEPT ![c] = NoStep]
  /\ lock' = IF lock = c THEN None ELSE lock
  /\ IF c = Worker
     THEN job' = [j \in Jobs |-> "idle"] /\ busy' = None /\ main' = "running"
     ELSE UNCHANGED <<job, busy, main>>
  /\ UNCHANGED <<clock, scene, schema, recorded, pending, cache, rows, since>>

Next ==
  \/ Tick
  \/ \E c \in Container :
       \/ Boot(c) \/ GetLock(c) \/ NoLock(c) \/ SkipRecorded(c) \/ Statement(c) \/ Record(c)
       \/ StopMigrating(c) \/ Start(c) \/ Crash(c)
  \/ ByHand
  \/ \E j \in Jobs : Fire(j) \/ Enter(j) \/ Acquire(j) \/ TakeBatch(j) \/ Commit(j) \/ EndCycle(j)
  \/ Count \/ Stop \/ Drained \/ Exit

\* The schedule keeps firing and a thread that can go on does; nothing makes the
\* batch job fire, a container crash or an operator act.
Fairness ==
  /\ WF_vars(Fire("schedule"))
  /\ \A j \in Jobs : WF_vars(Enter(j)) /\ WF_vars(Acquire(j)) /\ WF_vars(TakeBatch(j))
                     /\ WF_vars(Commit(j)) /\ WF_vars(EndCycle(j))

Spec == Init /\ [][Next]_vars /\ Fairness

-----------------------------------------------------------------------------
(* Properties *)

\* Every variable stays in its domain, and the lock's holder is the one that
\* migrates.
TypeOK ==
  /\ clock \in 0 .. scene.until /\ faults \in 0 .. MaxFaults /\ scene \in Scenes
  /\ recorded \subseteq Files
  /\ at \in [Container -> {"down", "lock", "migrate", "started", "up"}]
  /\ lock \in {None} \cup Container
  /\ \A c \in Container : at[c] = "migrate" <=> lock = c
  /\ pending \in 0 .. scene.messages
  /\ job \in [Jobs -> {"idle", "count", "run", "acquire", "cycle", "batch"}]
  /\ main \in {"running", "draining", "clean", "late"}
  /\ \A j \in Jobs : job[j] \in {"cycle", "batch"} => busy = j
  /\ Up => Required \subseteq schema

\* A recorded file is never looked at again, so everything it and the files before
\* it add is there, whoever applied it, wherever a run broke off before.
RecordedIsWhole == Whole(recorded, schema)

\* A batch is written with the columns only if the database has them all; without
\* them only if they were not complete, or a check failed, at most Recheck before.
RowsFollowSchema ==
  \A r \in rows, f \in Feature :
    IF f \in r.with
    THEN since.complete[f] # None /\ since.complete[f] <= r.when
    ELSE \/ since.complete[f] = None \/ r.when - since.complete[f] < Recheck
         \/ since.unread[f] # None /\ r.when - since.unread[f] < Recheck

\* After "stopped cleanly" no batch is committed, although a job may have passed the
\* first look at the stop event before it was set.
CleanStop == [][main = "clean" => rows' = rows /\ pending' = pending]_vars

\* While the worker runs, messages are ingested, whatever cycles fail: "a failed
\* cycle must never stop the scheduler".
KeepsIngesting == (Up /\ main = "running" /\ pending > 0) ~> (pending = 0 \/ main # "running" \/ ~Up)
=============================================================================
