---------------------------- MODULE ContainersProofs ----------------------------
(***************************************************************************)
(* Theorems about Containers, for any migrations, databases, containers and *)
(* numbers of faults that satisfy the assumptions.                          *)
(***************************************************************************)
EXTENDS Containers, TLAPS

-----------------------------------------------------------------------------
(* What migrations record *)

\* A container that migrates has gone, or been led, past what is in place: the
\* files before the one it is at and the statements of that file behind it.
Progress(c) ==
  at[c] = "migrate" =>
    /\ step[c].done \subseteq recorded
    /\ step[c].statement >= 1
    /\ \A m \in Files : m < step[c].file => Adds(m) \subseteq schema
    /\ step[c].file \in Files =>
         \A k \in DOMAIN Migrations[step[c].file].adds :
           k < step[c].statement => Migrations[step[c].file].adds[k] \subseteq schema

\* Steps are records of the start-up.
StepOK ==
  /\ at \in [Container -> {"down", "lock", "migrate", "started", "up"}]
  /\ step \in [Container -> [file : Nat, statement : Nat, done : SUBSET Files]]
  /\ recorded \subseteq Files

MigrationInv ==
  /\ StepOK
  /\ RecordedIsWhole
  /\ AllOrNothing(schema)
  /\ \A c \in Container : Progress(c)

\* The objects of the schema are never dropped, and what is added is what one
\* statement adds.
LEMMA SchemaGrows ==
  ASSUME NEW n \in Files, NEW k \in DOMAIN Migrations[n].adds, AllOrNothing(schema),
         schema' = schema \cup Migrations[n].adds[k]
  PROVE  AllOrNothing(schema)'
<1> SUFFICES ASSUME NEW m \in Files, NEW j \in DOMAIN Migrations[m].adds,
                    ~Migrations[m].tolerant
             PROVE  \/ Migrations[m].adds[j] \subseteq schema'
                    \/ Migrations[m].adds[j] \cap schema' = {}
  BY DEF AllOrNothing
<1>1. \/ Migrations[m].adds[j] = Migrations[n].adds[k]
      \/ Migrations[m].adds[j] \cap Migrations[n].adds[k] = {}
  BY MigrationsAssumption
<1>2. \/ Migrations[m].adds[j] \subseteq schema
      \/ Migrations[m].adds[j] \cap schema = {}
  BY DEF AllOrNothing
<1> QED BY <1>1, <1>2

\* A larger schema and at least the same records keep what a container knows.
LEMMA ProgressKept ==
  ASSUME NEW c \in Container, Progress(c), schema \subseteq schema', recorded \subseteq recorded',
         at'[c] = at[c], step'[c] = step[c]
  PROVE  Progress(c)'
BY DEF Progress

LEMMA RecordsKept ==
  ASSUME RecordedIsWhole, schema \subseteq schema', recorded' = recorded
  PROVE  RecordedIsWhole'
BY DEF RecordedIsWhole, Whole

\* A container that does not migrate knows nothing.
LEMMA NoProgress ==
  ASSUME NEW c \in Container, at'[c] # "migrate"
  PROVE  Progress(c)'
BY DEF Progress

\* Where a file ends, everything it and the files before it add is in place.
LEMMA FileDone ==
  ASSUME MigrationInv, NEW c \in Container, Migrating(c),
         Here(c) \in recorded \/ step[c].statement \notin DOMAIN Migrations[Here(c)].adds
  PROVE  \A m \in 1 .. Here(c) : Adds(m) \subseteq schema
<1> DEFINE n == Here(c)
<1>1. n \in Files /\ n \in Nat /\ n = step[c].file /\ Progress(c) /\ at[c] = "migrate"
  BY MigrationsAssumption DEF Migrating, Here, MigrationInv
<1>2. CASE n \in recorded
  BY <1>2 DEF MigrationInv, RecordedIsWhole, Whole
<1>3. CASE n \notin recorded
  <2>1. DOMAIN Migrations[n].adds = 1 .. Len(Migrations[n].adds) /\ Len(Migrations[n].adds) \in Nat
    BY <1>1, MigrationsAssumption
  <2>2. step[c].statement \in Nat /\ step[c].statement >= 1
    BY <1>1 DEF MigrationInv, StepOK, Progress
  <2>3. \A k \in DOMAIN Migrations[n].adds : k < step[c].statement
    BY <1>3, <2>1, <2>2
  <2>4. Adds(n) \subseteq schema
    BY <1>1, <2>3 DEF Progress, Adds
  <2>5. \A m \in Files : m < n => Adds(m) \subseteq schema
    BY <1>1 DEF Progress
  <2> QED
    BY <1>1, <2>4, <2>5, MigrationsAssumption
<1> QED BY <1>2, <1>3

\* Going on to the next file, or the next statement, keeps the steps well-formed.
LEMMA NextFileStep ==
  ASSUME StepOK, NEW c \in Container, Here(c) \in Files, NextFile(c)
  PROVE  /\ step'[c] = [file |-> Here(c) + 1, statement |-> 1, done |-> step[c].done]
         /\ \A d \in Container \ {c} : step'[d] = step[d]
         /\ step' \in [Container -> [file : Nat, statement : Nat, done : SUBSET Files]]
<1>1. step[c].file \in Nat /\ step[c].done \subseteq Files
  BY DEF StepOK
<1>2. [file |-> Here(c) + 1, statement |-> 1, done |-> step[c].done]
        \in [file : Nat, statement : Nat, done : SUBSET Files]
  BY <1>1 DEF Here
<1>3. step' = [step EXCEPT ![c] = [file |-> Here(c) + 1, statement |-> 1, done |-> step[c].done]]
  BY DEF NextFile
<1> QED BY <1>2, <1>3 DEF StepOK

\* A container that goes on to the next file knows what the files behind it add.
LEMMA NextFileProgress ==
  ASSUME NEW c \in Container, Here(c) \in Files,
         \A m \in 1 .. Here(c) : Adds(m) \subseteq schema,
         step[c].done \subseteq recorded, schema' = schema, recorded \subseteq recorded',
         step'[c] = [file |-> Here(c) + 1, statement |-> 1, done |-> step[c].done]
  PROVE  Progress(c)'
<1>1. step'[c].file = Here(c) + 1 /\ step'[c].statement = 1 /\ step'[c].done = step[c].done
  OBVIOUS
<1>2. \A m \in Files : m < Here(c) + 1 => Adds(m) \subseteq schema
  BY MigrationsAssumption
<1>3. \A k \in DOMAIN Migrations[Here(c) + 1].adds :
        Here(c) + 1 \in Files => ~(k < 1)
  BY MigrationsAssumption
<1>4. \A m : Adds(m)' = Adds(m)
  BY DEF Adds
<1> QED BY <1>1, <1>2, <1>3, <1>4 DEF Progress

LEMMA MigrationInit == Init => MigrationInv
<1> SUFFICES ASSUME Init PROVE MigrationInv
  OBVIOUS
<1>1. StepOK
  BY MigrationsAssumption DEF Init, StepOK, NoStep
<1>2. RecordedIsWhole /\ AllOrNothing(schema)
  BY MigrationsAssumption DEF Init, RecordedIsWhole
<1>3. \A c \in Container : Progress(c)
  BY DEF Init, Progress
<1> QED BY <1>1, <1>2, <1>3 DEF MigrationInv

LEMMA MigrationStep == MigrationInv /\ [Next]_vars => MigrationInv'
<1> SUFFICES ASSUME MigrationInv, [Next]_vars PROVE MigrationInv'
  OBVIOUS
<1> USE DEF MigrationInv
\* What every step but Statement, Record and ByHand does to a container.
<1>0. ASSUME NEW c \in Container, UNCHANGED <<schema, recorded>>, StepOK',
             \A d \in Container \ {c} : at'[d] = at[d] /\ step'[d] = step[d],
             Progress(c)'
      PROVE  MigrationInv'
  <2>1. RecordedIsWhole' /\ AllOrNothing(schema)'
    BY <1>0, RecordsKept DEF AllOrNothing
  <2>2. \A d \in Container \ {c} : Progress(d)'
    BY <1>0, ProgressKept
  <2> QED BY <1>0, <2>1, <2>2
<1>1. ASSUME UNCHANGED migration PROVE MigrationInv'
  <2>1. StepOK' /\ RecordedIsWhole' /\ AllOrNothing(schema)'
    BY <1>1, RecordsKept DEF migration, StepOK, AllOrNothing
  <2>2. \A c \in Container : Progress(c)'
    BY <1>1, ProgressKept DEF migration
  <2> QED BY <2>1, <2>2
<1>2. ASSUME NEW c \in Container, Boot(c) PROVE MigrationInv'
  <2>1. StepOK'
    BY <1>2 DEF Boot, StepOK
  <2>2. at'[c] # "migrate"
    BY <1>2 DEF Boot, StepOK
  <2> QED BY <1>0, <1>2, <2>1, <2>2, NoProgress DEF Boot, StepOK
<1>3. ASSUME NEW c \in Container, GetLock(c) PROVE MigrationInv'
  <2>1. StepOK'
    BY <1>3 DEF GetLock, StepOK
  <2>2. step'[c] = [file |-> 1, statement |-> 1, done |-> recorded]
    BY <1>3 DEF GetLock, StepOK
  <2>3. Progress(c)'
    BY <1>3, <2>2, MigrationsAssumption DEF GetLock, Progress
  <2> QED BY <1>0, <1>3, <2>1, <2>3 DEF GetLock, StepOK
<1>4. ASSUME NEW c \in Container, NoLock(c) PROVE MigrationInv'
  <2>1. StepOK'
    BY <1>4 DEF NoLock, StepOK
  <2>2. at'[c] # "migrate"
    BY <1>4 DEF NoLock, StepOK
  <2> QED BY <1>0, <1>4, <2>1, <2>2, NoProgress DEF NoLock, StepOK
<1>5. ASSUME NEW c \in Container, SkipRecorded(c) PROVE MigrationInv'
  <2>1. at[c] = "migrate" /\ Progress(c) /\ Here(c) \in recorded /\ Here(c) \in Nat /\ Here(c) \in Files
    BY <1>5, MigrationsAssumption DEF SkipRecorded, Migrating, Progress
  <2>2. \A m \in 1 .. Here(c) : Adds(m) \subseteq schema
    BY <1>5, <2>1, FileDone DEF SkipRecorded
  <2>3. NextFile(c) /\ UNCHANGED <<schema, recorded, at>>
    BY <1>5 DEF SkipRecorded
  <2>4. /\ step'[c] = [file |-> Here(c) + 1, statement |-> 1, done |-> step[c].done]
        /\ \A d \in Container \ {c} : step'[d] = step[d]
        /\ step' \in [Container -> [file : Nat, statement : Nat, done : SUBSET Files]]
    BY <2>1, <2>3, NextFileStep
  <2>5. StepOK'
    BY <2>3, <2>4 DEF StepOK
  <2>6. Progress(c)'
    BY <2>1, <2>2, <2>3, <2>4, NextFileProgress DEF Progress
  <2> QED BY <1>0, <2>3, <2>4, <2>5, <2>6
<1>6. ASSUME NEW c \in Container, Statement(c) PROVE MigrationInv'
  <2> DEFINE n == Here(c)
             k == step[c].statement
             objects == Migrations[n].adds[k]
  <2>1. /\ at[c] = "migrate" /\ n \in Files /\ k \in DOMAIN Migrations[n].adds /\ k \in Nat
        /\ n = step[c].file /\ Progress(c) /\ UNCHANGED <<recorded, at>>
    BY <1>6 DEF Statement, Migrating, Here, StepOK
  <2>2. schema' = schema \cup objects
    BY <1>6, <2>1 DEF Statement, AllOrNothing
  <2>3. step' = [step EXCEPT ![c] = [step[c] EXCEPT !.statement = k + 1]]
    BY <1>6 DEF Statement, AfterAdopted, NextStatement
  <2>4. /\ step'[c].file = n /\ step'[c].statement = k + 1 /\ step'[c].done = step[c].done
        /\ \A d \in Container \ {c} : step'[d] = step[d]
    BY <2>1, <2>3 DEF StepOK, Here
  <2>5. StepOK'
    <3>1. [step[c] EXCEPT !.statement = k + 1] \in [file : Nat, statement : Nat, done : SUBSET Files]
      BY <2>1 DEF StepOK
    <3> QED BY <2>1, <2>3, <3>1 DEF StepOK
  <2>6. AllOrNothing(schema)'
    BY <2>1, <2>2, SchemaGrows
  <2>7. Progress(c)'
    <3>1. \A j \in DOMAIN Migrations[n].adds : j < k + 1 => j < k \/ j = k
      BY <2>1, MigrationsAssumption
    <3> QED BY <2>1, <2>2, <2>4, <3>1 DEF Progress
  <2>8. \A d \in Container \ {c} : Progress(d)'
    BY <2>1, <2>2, <2>4, ProgressKept
  <2> QED BY <2>1, <2>2, <2>5, <2>6, <2>7, <2>8, RecordsKept
<1>7. ASSUME NEW c \in Container, Record(c) PROVE MigrationInv'
  <2>1. at[c] = "migrate" /\ Progress(c) /\ Here(c) \in Nat /\ Here(c) \in Files /\ UNCHANGED <<schema, at>>
    BY <1>7, MigrationsAssumption DEF Record, Migrating
  <2>2. \A m \in 1 .. Here(c) : Adds(m) \subseteq schema
    BY <1>7, FileDone DEF Record
  <2>3. NextFile(c)
    BY <1>7 DEF Record
  <2>4. /\ step'[c] = [file |-> Here(c) + 1, statement |-> 1, done |-> step[c].done]
        /\ \A d \in Container \ {c} : step'[d] = step[d]
        /\ step' \in [Container -> [file : Nat, statement : Nat, done : SUBSET Files]]
    BY <2>1, <2>3, NextFileStep
  <2>5. recorded' = recorded \cup {Here(c)}
    BY <1>7 DEF Record
  <2>6. StepOK'
    BY <2>1, <2>4, <2>5 DEF StepOK
  <2>7. RecordedIsWhole'
    BY <2>1, <2>2, <2>5 DEF RecordedIsWhole, Whole
  <2>8. Progress(c)'
    BY <2>1, <2>2, <2>4, <2>5, NextFileProgress DEF Progress
  <2>9. \A d \in Container \ {c} : Progress(d)'
    BY <2>1, <2>4, <2>5, ProgressKept
  <2>10. AllOrNothing(schema)'
    BY <2>1 DEF AllOrNothing
  <2> QED BY <2>6, <2>7, <2>8, <2>9, <2>10
<1>8. ASSUME NEW c \in Container, StopMigrating(c) PROVE MigrationInv'
  <2>1. StepOK' /\ at'[c] # "migrate"
    BY <1>8 DEF StopMigrating, StepOK, NoStep
  <2> QED BY <1>0, <1>8, <2>1, NoProgress DEF StopMigrating, StepOK
<1>9. ASSUME NEW c \in Container, Start(c) PROVE MigrationInv'
  <2>1. StepOK' /\ at'[c] # "migrate"
    BY <1>9 DEF Start, StepOK
  <2>2. \A d \in Container \ {c} : at'[d] = at[d] /\ step'[d] = step[d]
    BY <1>9 DEF Start, StepOK
  <2> QED BY <1>0, <1>9, <2>1, <2>2, NoProgress DEF Start
<1>10. ASSUME NEW c \in Container, Crash(c) PROVE MigrationInv'
  <2>1. StepOK' /\ at'[c] # "migrate"
    BY <1>10 DEF Crash, StepOK, NoStep
  <2> QED BY <1>0, <1>10, <2>1, NoProgress DEF Crash, StepOK
<1>11. ASSUME ByHand PROVE MigrationInv'
  <2>1. PICK n \in Files : \E k \in DOMAIN Migrations[n].adds : schema' = schema \cup Migrations[n].adds[k]
    BY <1>11 DEF ByHand
  <2>2. UNCHANGED <<recorded, at, step>>
    BY <1>11 DEF ByHand
  <2>3. AllOrNothing(schema)'
    BY <2>1, SchemaGrows
  <2>4. \A c \in Container : Progress(c)'
    BY <2>1, <2>2, ProgressKept
  <2> QED BY <2>1, <2>2, <2>3, <2>4, RecordsKept DEF StepOK
<1>12. ASSUME Exit PROVE MigrationInv'
  <2>1. StepOK' /\ at'[Worker] # "migrate" /\ Worker \in Container
    BY <1>12 DEF Exit, StepOK, Container
  <2> QED BY <1>0, <1>12, <2>1, NoProgress DEF Exit, StepOK
<1>13. ASSUME UNCHANGED vars \/ Tick \/ Count \/ Stop \/ Drained
              \/ \E j \in Jobs : Fire(j) \/ Enter(j) \/ Acquire(j) \/ TakeBatch(j) \/ Commit(j) \/ EndCycle(j)
       PROVE  UNCHANGED migration
  BY <1>13 DEF vars, Tick, Count, Stop, Drained, Fire, Enter, Acquire, TakeBatch, Commit, EndCycle, OnlyJobs
<1> QED
  BY <1>1, <1>2, <1>3, <1>4, <1>5, <1>6, <1>7, <1>8, <1>9, <1>10, <1>11, <1>12, <1>13 DEF Next

\* A recorded file and those before it are in place, for any migrations whose
\* statements share all they add or nothing, any number of containers that start,
\* fail and crash together, and whatever the operator applies by hand.  The proof
\* does not need the named lock: what a container read as recorded stays so.
THEOREM RecordedAlwaysWhole == Spec => []RecordedIsWhole
<1>1. MigrationInv => RecordedIsWhole
  BY DEF MigrationInv
<1> QED BY MigrationInit, MigrationStep, <1>1, PTL DEF Spec

-----------------------------------------------------------------------------
(* Stopping *)

\* The job that is in a cycle holds the lock, and once the wait for it is over
\* no batch is in hand.
StopInv ==
  /\ job \in [Jobs -> {"idle", "count", "run", "acquire", "cycle", "batch"}]
  /\ \A j \in Jobs : job[j] \in {"cycle", "batch"} => busy = j
  /\ main = "clean" => \A j \in Jobs : job[j] # "batch"

LEMMA StopInit == Init => StopInv
BY DEF Init, StopInv

LEMMA StopStep == StopInv /\ [Next]_vars => StopInv'
<1> SUFFICES ASSUME StopInv, [Next]_vars PROVE StopInv'
  OBVIOUS
<1> USE DEF StopInv
<1>1. ASSUME UNCHANGED <<job, busy, main>> PROVE StopInv'
  BY <1>1
<1>2. ASSUME NEW j \in Jobs, Fire(j) PROVE StopInv'
  BY <1>2 DEF Fire, Move, OnlyJobs, Jobs
<1>3. CASE Count
  BY <1>3 DEF Count, Move, OnlyJobs, Jobs
<1>4. ASSUME NEW j \in Jobs, Enter(j) PROVE StopInv'
  BY <1>4 DEF Enter, Move, OnlyJobs
<1>5. ASSUME NEW j \in Jobs, Acquire(j) PROVE StopInv'
  <2>1. CASE busy = None
    BY <1>5, <2>1, ContainersAssumption DEF Acquire, Move, OnlyJobs, Jobs
  <2>2. CASE busy # None
    BY <1>5, <2>2 DEF Acquire, Move, OnlyJobs, Jobs
  <2> QED BY <2>1, <2>2
<1>6. ASSUME NEW j \in Jobs, TakeBatch(j) PROVE StopInv'
  BY <1>6 DEF TakeBatch, MayTakeBatch, Stopping, Move, OnlyJobs
<1>7. ASSUME NEW j \in Jobs, Commit(j) PROVE StopInv'
  BY <1>7 DEF Commit, Move
<1>8. ASSUME NEW j \in Jobs, EndCycle(j) PROVE StopInv'
  BY <1>8 DEF EndCycle, Freed, Move, OnlyJobs
<1>9. CASE Stop
  BY <1>9 DEF Stop
<1>10. CASE Drained
  BY <1>10, ContainersAssumption DEF Drained, Jobs
<1>11. CASE Exit
  BY <1>11 DEF Exit
<1>12. ASSUME NEW c \in Container, Boot(c) PROVE StopInv'
  BY <1>12 DEF Boot
<1>13. ASSUME NEW c \in Container, Crash(c) PROVE StopInv'
  BY <1>13 DEF Crash
<1>14. ASSUME UNCHANGED vars \/ Tick \/ ByHand
              \/ \E c \in Container : GetLock(c) \/ NoLock(c) \/ SkipRecorded(c) \/ Statement(c)
                                      \/ Record(c) \/ StopMigrating(c) \/ Start(c)
       PROVE  UNCHANGED <<job, busy, main>>
  BY <1>14 DEF vars, cycles, Tick, ByHand, GetLock, NoLock, SkipRecorded, Statement, Record, StopMigrating, Start
<1> QED
  BY <1>1, <1>2, <1>3, <1>4, <1>5, <1>6, <1>7, <1>8, <1>9, <1>10, <1>11, <1>12, <1>13, <1>14 DEF Next

\* The rows and the messages waiting change only with a batch in hand.
LEMMA OnlyCommits ==
  ASSUME [Next]_vars, \A j \in Jobs : job[j] # "batch"
  PROVE  rows' = rows /\ pending' = pending
<1>1. CASE \/ UNCHANGED vars \/ Tick \/ ByHand \/ Count \/ Stop \/ Drained \/ Exit
           \/ \E j \in Jobs : Fire(j) \/ Enter(j) \/ Acquire(j) \/ TakeBatch(j) \/ EndCycle(j)
  BY <1>1 DEF vars, cycles, Tick, ByHand, Count, Stop, Drained, Exit, Fire, Enter, Acquire,
              TakeBatch, EndCycle, OnlyJobs
<1>2. CASE \E c \in Container : \/ Boot(c) \/ GetLock(c) \/ NoLock(c) \/ SkipRecorded(c) \/ Statement(c)
                                \/ Record(c) \/ StopMigrating(c) \/ Start(c) \/ Crash(c)
  BY <1>2 DEF cycles, Boot, GetLock, NoLock, SkipRecorded, Statement, Record, StopMigrating, Start, Crash
<1>3. CASE \E j \in Jobs : Commit(j)
  BY <1>3 DEF Commit
<1> QED BY <1>1, <1>2, <1>3 DEF Next

\* After "stopped cleanly" no batch is committed and no message leaves the queue,
\* however the triggers, the signal and the wait for the lock interleave, for any
\* batch size, any number of messages and whatever fails.
THEOREM StopsClean == Spec => CleanStop
<1>1. StopInv /\ [Next]_vars => [main = "clean" => rows' = rows /\ pending' = pending]_vars
  BY OnlyCommits DEF StopInv
<1> QED BY StopInit, StopStep, <1>1, PTL DEF Spec, CleanStop
-----------------------------------------------------------------------------
(* Types *)

Counters == clock \in 0 .. scene.until /\ faults \in 0 .. MaxFaults /\ scene \in Scenes

\* The container that migrates holds the lock, the worker runs on what it needs,
\* and what stops is a worker that runs.
Startup ==
  /\ at \in [Container -> {"down", "lock", "migrate", "started", "up"}]
  /\ lock \in {None} \cup Container
  /\ \A c \in Container : at[c] = "migrate" <=> lock = c
  /\ Up => Required \subseteq schema
  /\ Stopping => Up

\* A batch in hand has a message.
Queue ==
  /\ pending \in 0 .. scene.messages
  /\ \A j \in Jobs : job[j] = "batch" => pending > 0

TypeInv ==
  /\ Counters
  /\ Startup
  /\ Queue
  /\ recorded \subseteq Files
  /\ main \in {"running", "draining", "clean", "late"}
  /\ StopInv

LEMMA TypeInit == Init => TypeInv
<1> SUFFICES ASSUME Init PROVE TypeInv
  OBVIOUS
<1>1. scene \in Scenes /\ scene.messages \in Nat /\ scene.until \in Nat /\ MaxFaults \in Nat
  BY ContainersAssumption DEF Init
<1>2. Startup
  BY ContainersAssumption DEF Init, Startup, Up, Stopping, Container
<1>3. recorded \subseteq Files
  BY <1>1, MigrationsAssumption DEF Init
<1>4. Counters /\ Queue
  BY <1>1 DEF Init, Counters, Queue
<1> QED BY <1>2, <1>3, <1>4, StopInit DEF Init, TypeInv

\* The clock goes on until the scene ends, and faults to their bound.
LEMMA CountersStep == Counters /\ [Next]_vars => Counters'
<1> SUFFICES ASSUME Counters, [Next]_vars PROVE Counters'
  OBVIOUS
<1>1. scene \in Scenes /\ scene.until \in Nat /\ MaxFaults \in Nat /\ clock \in 0 .. scene.until /\ faults \in 0 .. MaxFaults
  BY ContainersAssumption DEF Counters
<1>2. CASE Tick
  BY <1>1, <1>2 DEF Tick, Counters
<1>3. ASSUME UNCHANGED <<clock, scene>>, Fault \/ faults' = faults
      PROVE  Counters'
  BY <1>1, <1>3 DEF Fault, Counters
<1>4. ASSUME NEW c \in Container,
             \/ Boot(c) \/ GetLock(c) \/ NoLock(c) \/ SkipRecorded(c) \/ Statement(c) \/ Record(c)
             \/ StopMigrating(c) \/ Start(c) \/ Crash(c)
      PROVE  UNCHANGED <<clock, scene>> /\ (Fault \/ faults' = faults)
  BY <1>4 DEF Boot, GetLock, NoLock, SkipRecorded, Statement, Record, StopMigrating, Start, Crash
<1>5. ASSUME NEW j \in Jobs, Fire(j) \/ Enter(j) \/ Acquire(j) \/ TakeBatch(j) \/ Commit(j) \/ EndCycle(j)
      PROVE  UNCHANGED <<clock, scene>> /\ (Fault \/ faults' = faults)
  <2>1. CASE Commit(j)
    BY <2>1 DEF Commit
  <2>2. CASE EndCycle(j)
    BY <2>2 DEF EndCycle, OnlyJobs
  <2>3. CASE Fire(j) \/ Enter(j) \/ Acquire(j) \/ TakeBatch(j)
    BY <2>3 DEF Fire, Enter, Acquire, TakeBatch, OnlyJobs
  <2> QED BY <1>5, <2>1, <2>2, <2>3
<1>6. ASSUME ByHand \/ Count \/ Stop \/ Drained \/ Exit \/ UNCHANGED vars
      PROVE  UNCHANGED <<clock, scene>> /\ (Fault \/ faults' = faults)
  BY <1>6 DEF ByHand, Count, Stop, Drained, Exit, OnlyJobs, vars
<1> QED BY <1>2, <1>3, <1>4, <1>5, <1>6 DEF Next

LEMMA StartupStep == Startup /\ [Next]_vars => Startup'
<1> SUFFICES ASSUME Startup, [Next]_vars PROVE Startup'
  OBVIOUS
<1>0. None \notin Container /\ Worker \in Container
  BY ContainersAssumption DEF Container
<1>1. CASE UNCHANGED <<at, lock, schema, main>>
  BY <1>1 DEF Startup, Up, Stopping
<1>2. ASSUME NEW c \in Container, Boot(c) PROVE Startup'
  BY <1>2, <1>0 DEF Boot, Startup, Up, Stopping
<1>3. ASSUME NEW c \in Container, GetLock(c) PROVE Startup'
  BY <1>3, <1>0 DEF GetLock, cycles, Startup, Up, Stopping
<1>4. ASSUME NEW c \in Container, NoLock(c) PROVE Startup'
  BY <1>4, <1>0 DEF NoLock, cycles, Startup, Up, Stopping
<1>5. ASSUME NEW c \in Container, SkipRecorded(c) \/ Record(c) PROVE UNCHANGED <<at, lock, schema, main>>
  BY <1>5 DEF SkipRecorded, Record, cycles
<1>6. ASSUME NEW c \in Container, Statement(c) PROVE Startup'
  <2>1. UNCHANGED <<at, lock, main>> /\ schema \subseteq schema'
    BY <1>6 DEF Statement, cycles
  <2> QED BY <2>1 DEF Startup, Up, Stopping
<1>7. ASSUME NEW c \in Container, StopMigrating(c) PROVE Startup'
  BY <1>7, <1>0 DEF StopMigrating, cycles, Startup, Up, Stopping
<1>8. ASSUME NEW c \in Container, Start(c) PROVE Startup'
  BY <1>8, <1>0 DEF Start, cycles, Startup, Up, Stopping
<1>9. ASSUME NEW c \in Container, Crash(c) PROVE Startup'
  BY <1>9, <1>0 DEF Crash, Startup, Up, Stopping
<1>10. CASE ByHand
  <2>1. UNCHANGED <<at, lock, main>> /\ schema \subseteq schema'
    BY <1>10 DEF ByHand, cycles
  <2> QED BY <2>1 DEF Startup, Up, Stopping
<1>11. CASE Exit
  <2>1. /\ UNCHANGED <<lock, schema>> /\ at' = [at EXCEPT ![Worker] = "down"]
        /\ main # "running" /\ main' = "running"
    BY <1>11 DEF Exit
  <2> QED BY <2>1, <1>0 DEF Startup, Up, Stopping
<1>12. ASSUME UNCHANGED vars \/ Tick \/ Count
              \/ \E j \in Jobs : Fire(j) \/ Enter(j) \/ Acquire(j) \/ TakeBatch(j) \/ Commit(j) \/ EndCycle(j)
       PROVE  UNCHANGED <<at, lock, schema, main>>
  BY <1>12 DEF vars, migration, cycles, Tick, Count, Fire, Enter, Acquire, TakeBatch, Commit, EndCycle, OnlyJobs
<1>13. CASE Stop
  BY <1>13 DEF Stop, migration, Startup, Up, Stopping
<1>14. CASE Drained
  BY <1>14 DEF Drained, migration, Startup, Up, Stopping
<1> QED
  BY <1>1, <1>2, <1>3, <1>4, <1>5, <1>6, <1>7, <1>8, <1>9, <1>10, <1>11, <1>12, <1>13, <1>14 DEF Next

LEMMA QueueStep == Counters /\ StopInv /\ Queue /\ [Next]_vars => Queue'
<1> SUFFICES ASSUME Counters, StopInv, Queue, [Next]_vars PROVE Queue'
  OBVIOUS
<1>0. scene.messages \in Nat /\ pending \in 0 .. scene.messages
  BY ContainersAssumption DEF Counters, Queue
<1>1. CASE UNCHANGED <<scene, pending, job>>
  BY <1>1 DEF Queue
<1>2. ASSUME NEW j \in Jobs, NEW to, to # "batch", Move(j, to), UNCHANGED <<scene, pending>>
      PROVE  Queue'
  BY <1>2 DEF Move, Queue, StopInv
<1>3. ASSUME NEW j \in Jobs, TakeBatch(j) PROVE Queue'
  BY <1>3 DEF TakeBatch, Move, OnlyJobs, Queue, StopInv
<1>4. ASSUME NEW j \in Jobs, Commit(j) PROVE Queue'
  <2>1. /\ job[j] = "batch" /\ pending' = pending - 1 /\ job' = [job EXCEPT ![j] = "cycle"] /\ scene' = scene
    BY <1>4 DEF Commit, Move
  <2>2. pending > 0 /\ \A k \in Jobs : job'[k] # "batch"
    BY <2>1 DEF Queue, StopInv
  <2> QED BY <1>0, <2>1, <2>2 DEF Queue
<1>5. ASSUME NEW j \in Jobs, Fire(j) \/ Enter(j) \/ Acquire(j) \/ EndCycle(j) PROVE Queue'
  <2>1. UNCHANGED <<scene, pending>>
    BY <1>5 DEF Fire, Enter, Acquire, EndCycle, OnlyJobs
  <2>2. \E to \in {"run", "count", "idle", "acquire", "cycle"} : Move(j, to)
    BY <1>5 DEF Fire, Enter, Acquire, EndCycle
  <2> QED BY <1>2, <2>1, <2>2
<1>6. CASE Count
  <2>1. UNCHANGED <<scene, pending>>
    BY <1>6 DEF Count, OnlyJobs
  <2>2. Move("batch", "run") \/ Move("batch", "idle")
    BY <1>6 DEF Count
  <2>3. "batch" \in Jobs
    BY DEF Jobs
  <2> QED BY <1>2, <2>1, <2>2, <2>3
<1>7. ASSUME NEW c \in Container, Crash(c) PROVE Queue'
  BY <1>7 DEF Crash, Queue
<1>8. ASSUME NEW c \in Container,
             \/ Boot(c) \/ GetLock(c) \/ NoLock(c) \/ SkipRecorded(c) \/ Statement(c)
             \/ Record(c) \/ StopMigrating(c) \/ Start(c)
      PROVE  UNCHANGED <<scene, pending, job>>
  BY <1>8 DEF cycles, Boot, GetLock, NoLock, SkipRecorded, Statement, Record, StopMigrating, Start
<1>9. ASSUME UNCHANGED vars \/ Tick \/ ByHand \/ Stop \/ Drained \/ Exit
      PROVE  UNCHANGED <<scene, pending, job>>
  BY <1>9 DEF vars, cycles, Tick, ByHand, Stop, Drained, Exit
<1> QED BY <1>1, <1>3, <1>4, <1>5, <1>6, <1>7, <1>8, <1>9 DEF Next

LEMMA TypeStep == TypeInv /\ [Next]_vars => TypeInv'
<1> SUFFICES ASSUME TypeInv, [Next]_vars PROVE TypeInv'
  OBVIOUS
<1>1. Counters' /\ Startup' /\ Queue' /\ StopInv'
  BY CountersStep, StartupStep, QueueStep, StopStep DEF TypeInv
<1>2. recorded' = recorded \/ \E c \in Container : Record(c)
  <2>1. ASSUME NEW c \in Container,
               \/ Boot(c) \/ GetLock(c) \/ NoLock(c) \/ SkipRecorded(c) \/ Statement(c)
               \/ StopMigrating(c) \/ Start(c) \/ Crash(c)
        PROVE  recorded' = recorded
    BY <2>1 DEF Boot, GetLock, NoLock, SkipRecorded, Statement, StopMigrating, Start, Crash
  <2>2. ASSUME \/ UNCHANGED vars \/ Tick \/ ByHand \/ Count \/ Stop \/ Drained \/ Exit
               \/ \E j \in Jobs : Fire(j) \/ Enter(j) \/ Acquire(j) \/ TakeBatch(j) \/ Commit(j) \/ EndCycle(j)
        PROVE  recorded' = recorded
    BY <2>2 DEF vars, migration, Tick, ByHand, Count, Stop, Drained, Exit, Fire, Enter, Acquire,
                TakeBatch, Commit, EndCycle, OnlyJobs
  <2> QED BY <2>1, <2>2 DEF Next
<1>3. recorded' \subseteq Files
  BY <1>2 DEF TypeInv, Record, Migrating
<1>4. main' = main \/ main' \in {"running", "draining", "clean", "late"}
  <2>1. ASSUME NEW c \in Container,
               \/ Boot(c) \/ GetLock(c) \/ NoLock(c) \/ SkipRecorded(c) \/ Statement(c) \/ Record(c)
               \/ StopMigrating(c) \/ Start(c) \/ Crash(c)
        PROVE  main' = main \/ main' = "running"
    BY <2>1 DEF cycles, Boot, GetLock, NoLock, SkipRecorded, Statement, Record, StopMigrating, Start, Crash
  <2>2. ASSUME \/ UNCHANGED vars \/ Tick \/ ByHand \/ Count
               \/ \E j \in Jobs : Fire(j) \/ Enter(j) \/ Acquire(j) \/ TakeBatch(j) \/ Commit(j) \/ EndCycle(j)
        PROVE  main' = main
    BY <2>2 DEF vars, cycles, Tick, ByHand, Count, Fire, Enter, Acquire, TakeBatch, Commit, EndCycle, OnlyJobs
  <2>3. CASE Stop \/ Drained \/ Exit
    BY <2>3 DEF Stop, Drained, Exit
  <2> QED BY <2>1, <2>2, <2>3 DEF Next
<1> QED BY <1>1, <1>3, <1>4 DEF TypeInv

LEMMA TypesAlways == Spec => []TypeInv
BY TypeInit, TypeStep, PTL DEF Spec

\* Every variable stays in its domain, the container that migrates is the one that
\* holds the named lock, and the worker only runs on the columns it needs.
THEOREM ContainersTyped == Spec => []TypeOK
<1>1. TypeInv => TypeOK
  BY DEF TypeInv, Counters, Startup, Queue, StopInv, TypeOK
<1> QED BY TypesAlways, <1>1, PTL

-----------------------------------------------------------------------------
(* What the rows carry *)

Histories ==
  /\ since \in [complete : [Feature -> Nat \cup {None}], unread : [Feature -> Nat \cup {None}]]
  /\ \A f \in Feature : /\ since.complete[f] # None => since.complete[f] <= clock
                        /\ since.unread[f] # None => since.unread[f] <= clock
  /\ \A f \in Feature : since.complete[f] = None <=> f \notin Complete(schema)

\* A yes was read when the columns were there; a no when they were not or the
\* check failed.
CacheRight(f) ==
  cache[f] # None =>
    /\ cache[f] \in [when : Nat, present : BOOLEAN] /\ cache[f].when <= clock
    /\ cache[f].present => since.complete[f] # None
    /\ ~cache[f].present =>
         \/ since.complete[f] = None \/ since.complete[f] >= cache[f].when
         \/ since.unread[f] # None /\ since.unread[f] >= cache[f].when

RowRight(r) ==
  /\ r.when \in Nat /\ r.when <= clock
  /\ \A f \in Feature :
       IF f \in r.with
       THEN since.complete[f] # None /\ since.complete[f] <= r.when
       ELSE \/ since.complete[f] = None \/ r.when - since.complete[f] < Recheck
            \/ since.unread[f] # None /\ r.when - since.unread[f] < Recheck

RowInv ==
  /\ Histories
  /\ DOMAIN cache = Feature
  /\ \A f \in Feature : CacheRight(f)
  /\ \A r \in rows : RowRight(r)

LEMMA RowInit == Init => RowInv
<1> SUFFICES ASSUME Init PROVE RowInv
  OBVIOUS
<1>1. None \notin Nat /\ 0 \in Nat
  BY ContainersAssumption
<1>2. PICK C : C = Complete(schema)
  OBVIOUS
<1>3. since = [complete |-> [f \in Feature |-> IF f \in C THEN 0 ELSE None],
               unread |-> [f \in Feature |-> None]] /\ clock = 0
  BY <1>2 DEF Init
<1>4. Histories
  BY <1>1, <1>2, <1>3 DEF Histories
<1> QED BY <1>4 DEF Init, NoCache, RowInv, CacheRight

\* Columns come, never go: what was noted when a feature's were complete stays.
LEMMA SchemaHistory ==
  ASSUME Counters, Histories, UNCHANGED clock, schema \subseteq schema', Altered(schema')
  PROVE  /\ Histories'
         /\ since'.unread = since.unread
         /\ \A f \in Feature : \/ since'.complete[f] = since.complete[f]
                               \/ since.complete[f] = None /\ since'.complete[f] = clock
<1>1. None \notin Nat /\ clock \in Nat
  BY ContainersAssumption DEF Counters
<1>2. PICK C : C = Complete(schema')
  OBVIOUS
<1>3. since' = [since EXCEPT !.complete = [f \in Feature |-> IF since.complete[f] = None /\ f \in C THEN clock ELSE since.complete[f]]]
  BY <1>2 DEF Altered
<1>4. /\ since'.unread = since.unread /\ since' \in [complete : [Feature -> Nat \cup {None}], unread : [Feature -> Nat \cup {None}]]
      /\ \A f \in Feature : since'.complete[f] = IF since.complete[f] = None /\ f \in C THEN clock ELSE since.complete[f]
  BY <1>1, <1>3 DEF Histories
<1>5. \A f \in Feature : f \in Complete(schema) => f \in C
  BY <1>2 DEF Complete
<1>6. \A f \in Feature : /\ since'.complete[f] # None => since'.complete[f] <= clock
                         /\ since'.unread[f] # None => since'.unread[f] <= clock
  BY <1>1, <1>4 DEF Histories
<1>7. \A f \in Feature : since'.complete[f] = None <=> f \notin C
  BY <1>1, <1>4, <1>5 DEF Histories
<1>8. C = Complete(schema)'
  BY <1>2 DEF Complete
<1> QED BY <1>4, <1>6, <1>7, <1>8 DEF Histories

\* Rows and what the worker remembers stay right while time goes on, columns are
\* completed and checks fail.
LEMMA RowsKept ==
  ASSUME Counters, RowInv, Histories', clock' >= clock, clock' \in Nat,
         \A f \in Feature : \/ since'.complete[f] = since.complete[f]
                            \/ since.complete[f] = None /\ since'.complete[f] = clock,
         \A f \in Feature : since'.unread[f] = since.unread[f] \/ since'.unread[f] = clock
  PROVE  /\ \A r \in rows : RowRight(r)'
         /\ \A f \in Feature : cache'[f] = cache[f] => CacheRight(f)'
<1>0. None \notin Int /\ Recheck \in Nat \ {0} /\ clock \in Nat
  BY ContainersAssumption DEF Counters
<1>1. PICK done, unread : /\ done \in [Feature -> Nat \cup {None}] /\ unread \in [Feature -> Nat \cup {None}]
                          /\ since.complete = done /\ since.unread = unread
  BY DEF RowInv, Histories
<1>2. PICK done2, unread2 : /\ done2 \in [Feature -> Nat \cup {None}] /\ unread2 \in [Feature -> Nat \cup {None}]
                            /\ since'.complete = done2 /\ since'.unread = unread2
  BY DEF Histories
<1>3. \A f \in Feature : /\ done2[f] = done[f] \/ (done[f] = None /\ done2[f] = clock)
                         /\ unread2[f] = unread[f] \/ unread2[f] = clock
                         /\ unread[f] # None => unread[f] <= clock
  BY <1>1, <1>2 DEF RowInv, Histories
<1>4. ASSUME NEW r \in rows
      PROVE  RowRight(r)'
  <2>1. PICK w \in Nat : w = r.when /\ w <= clock
    BY DEF RowInv, RowRight
  <2>2. \A f \in Feature : f \in r.with => done[f] # None /\ done[f] <= w
    BY <1>1, <2>1 DEF RowInv, RowRight
  <2>3. \A f \in Feature : f \notin r.with =>
          \/ done[f] = None \/ w - done[f] < Recheck
          \/ unread[f] # None /\ w - unread[f] < Recheck
    BY <1>1, <2>1 DEF RowInv, RowRight
  <2>4. \A f \in Feature : f \in r.with => done2[f] # None /\ done2[f] <= w
    BY <1>3, <2>2
  <2>5. \A f \in Feature : f \notin r.with =>
          \/ done2[f] = None \/ w - done2[f] < Recheck
          \/ unread2[f] # None /\ w - unread2[f] < Recheck
    <3>1. SUFFICES ASSUME NEW f \in Feature, f \notin r.with,
                          done2[f] # None, ~(w - done2[f] < Recheck)
                   PROVE  unread2[f] # None /\ w - unread2[f] < Recheck
      OBVIOUS
    <3>2. done2[f] = done[f]
      BY <1>0, <1>3, <2>1, <3>1
    <3>3. unread[f] # None /\ w - unread[f] < Recheck
      BY <2>3, <3>1, <3>2
    <3>4. unread2[f] = unread[f] \/ unread2[f] = clock
      BY <1>3
    <3>5. w - clock < Recheck /\ clock # None
      BY <1>0, <2>1
    <3> QED BY <3>3, <3>4, <3>5
  <2>6. w <= clock'
    BY <1>0, <2>1
  <2> QED BY <1>2, <2>1, <2>4, <2>5, <2>6 DEF RowRight
<1>5. ASSUME NEW f \in Feature, cache'[f] = cache[f], cache[f] # None
      PROVE  CacheRight(f)'
  <2>1. PICK w \in Nat, p \in BOOLEAN : cache[f] = [when |-> w, present |-> p]
    BY <1>5 DEF RowInv, CacheRight
  <2>2. /\ w <= clock
        /\ p => done[f] # None
        /\ ~p => \/ done[f] = None \/ done[f] >= w
                 \/ unread[f] # None /\ unread[f] >= w
    BY <1>1, <1>5, <2>1 DEF RowInv, CacheRight
  <2>3. /\ p => done2[f] # None
        /\ ~p => \/ done2[f] = None \/ done2[f] >= w
                 \/ unread2[f] # None /\ unread2[f] >= w
    BY <1>0, <1>3, <2>2
  <2>4. w <= clock'
    BY <1>0, <2>2
  <2> QED BY <1>2, <1>5, <2>1, <2>3, <2>4 DEF CacheRight
<1>6. \A f \in Feature : cache'[f] = cache[f] => CacheRight(f)'
  <2>1. ASSUME NEW f \in Feature, cache'[f] = cache[f], cache[f] = None
        PROVE  CacheRight(f)'
    BY <2>1 DEF CacheRight
  <2> QED BY <1>5, <2>1
<1> QED BY <1>4, <1>6

\* A step that changes neither the columns, the rows nor what is remembered.
LEMMA RowsIdle ==
  ASSUME Counters, RowInv, UNCHANGED <<schema, since, rows>>, clock' >= clock, clock' \in Nat,
         cache' = cache \/ cache' = NoCache
  PROVE  RowInv'
<1>1. Histories'
  <2>1. \A f \in Feature : /\ since.complete[f] # None => since.complete[f] <= clock'
                           /\ since.unread[f] # None => since.unread[f] <= clock'
    BY DEF RowInv, Histories, Counters
  <2> QED BY <2>1 DEF RowInv, Histories, Complete
<1>2. \A r \in rows : RowRight(r)'
  BY <1>1, RowsKept
<1>3. \A f \in Feature : CacheRight(f)'
  <2>1. ASSUME NEW f \in Feature
        PROVE  CacheRight(f)'
    <3>1. CASE cache' = cache
      BY <1>1, <3>1, RowsKept
    <3>2. CASE cache' = NoCache
      BY <3>2 DEF NoCache, CacheRight
    <3> QED BY <3>1, <3>2
  <2> QED BY <2>1
<1>4. DOMAIN cache' = Feature
  BY DEF RowInv, NoCache
<1> QED BY <1>1, <1>2, <1>3, <1>4 DEF RowInv

\* Columns are added.
LEMMA RowsAltered ==
  ASSUME Counters, RowInv, UNCHANGED <<clock, rows, cache>>, schema \subseteq schema', Altered(schema')
  PROVE  RowInv'
<1>1. /\ Histories' /\ since'.unread = since.unread
      /\ \A f \in Feature : \/ since'.complete[f] = since.complete[f]
                            \/ since.complete[f] = None /\ since'.complete[f] = clock
  BY SchemaHistory DEF RowInv
<1>2. clock' >= clock /\ clock' \in Nat
  BY ContainersAssumption DEF Counters
<1>3. (\A r \in rows : RowRight(r)') /\ (\A f \in Feature : CacheRight(f)')
  BY <1>1, <1>2, RowsKept
<1> QED BY <1>1, <1>3 DEF RowInv

\* A batch is committed with the columns that are remembered or looked up.
LEMMA RowsCommitted ==
  ASSUME Counters, RowInv, NEW j \in Jobs, Commit(j)
  PROVE  RowInv'
<1>0. None \notin Int /\ Recheck \in Nat \ {0} /\ clock \in Nat
  BY ContainersAssumption DEF Counters
<1>1. PICK unread \in {{}} \cup { {f} : f \in { g \in Feature : ~Fresh(g) } } :
                    /\ cache' = [f \in Feature |-> Looked(f, unread)]
                    /\ since' = [since EXCEPT !.unread = [f \in Feature |-> IF f \in unread THEN clock ELSE since.unread[f]]]
  BY DEF Commit
<1>2. /\ rows' = rows \cup {[when |-> clock, with |-> { f \in Feature : cache'[f].present }]}
      /\ UNCHANGED <<clock, schema>>
  BY DEF Commit, migration
<1>3. /\ since'.complete = since.complete
      /\ since' \in [complete : [Feature -> Nat \cup {None}], unread : [Feature -> Nat \cup {None}]]
      /\ \A f \in Feature : since'.unread[f] = IF f \in unread THEN clock ELSE since.unread[f]
  BY <1>0, <1>1 DEF RowInv, Histories
<1>4. Histories'
  BY <1>0, <1>2, <1>3 DEF RowInv, Histories, Complete
<1>5. (\A r \in rows : RowRight(r)') /\ (\A f \in Feature : cache'[f] = cache[f] => CacheRight(f)')
  <2>1. \A f \in Feature : since'.unread[f] = since.unread[f] \/ since'.unread[f] = clock
    BY <1>3
  <2> QED BY <1>0, <1>2, <1>3, <1>4, <2>1, RowsKept
<1>6. ASSUME NEW f \in Feature
      PROVE  /\ CacheRight(f)'
             /\ cache'[f].present => since'.complete[f] # None
             /\ ~cache'[f].present => \/ since'.complete[f] = None \/ clock - since'.complete[f] < Recheck
                                      \/ since'.unread[f] # None /\ clock - since'.unread[f] < Recheck
  <2>1. CASE Fresh(f)
    <3>1. cache'[f] = cache[f] /\ CacheRight(f)'
      BY <1>1, <1>5, <2>1 DEF Looked
    <3>2. PICK w \in Nat, p \in BOOLEAN : cache'[f] = [when |-> w, present |-> p]
      BY <2>1, <3>1 DEF Fresh, CacheRight
    <3>3. p \/ clock - w < Recheck
      BY <2>1, <3>1, <3>2 DEF Fresh
    <3>4. /\ cache'[f] # None
          /\ p => since'.complete[f] # None
          /\ ~p => \/ since'.complete[f] = None \/ since'.complete[f] >= w
                   \/ since'.unread[f] # None /\ since'.unread[f] >= w
      BY <2>1, <3>1, <3>2 DEF Fresh, CacheRight
    <3>5. /\ since'.complete[f] \in Nat \cup {None}
          /\ since'.unread[f] \in Nat \cup {None}
      BY <1>3
    <3> QED BY <1>0, <3>1, <3>2, <3>3, <3>4, <3>5
  <2>2. CASE ~Fresh(f)
    <3>1. cache'[f] = [when |-> clock, present |-> f \notin unread /\ Present(f)]
      BY <1>1, <2>2 DEF Looked
    <3>2. f \in unread => since'.unread[f] = clock
      BY <1>3
    <3>3. Present(f) <=> since'.complete[f] # None
      BY <1>3 DEF RowInv, Histories, Present, Complete
    <3>4. PICK p \in BOOLEAN : p <=> f \notin unread /\ Present(f)
      OBVIOUS
    <3>5. cache'[f] = [when |-> clock, present |-> p]
      BY <3>1, <3>4
    <3>6. /\ p => since'.complete[f] # None
          /\ ~p => since'.complete[f] = None \/ since'.unread[f] = clock
      BY <3>2, <3>3, <3>4
    <3>7. CacheRight(f)'
      BY <1>0, <1>2, <3>5, <3>6 DEF CacheRight
    <3> QED BY <1>0, <3>5, <3>6, <3>7
  <2> QED BY <2>1, <2>2
<1>7. PICK row : row = [when |-> clock, with |-> { f \in Feature : cache'[f].present }]
  OBVIOUS
<1>8. RowRight(row)'
  <2>1. \A f \in Feature : since'.complete[f] # None => since'.complete[f] <= clock
    BY <1>2, <1>4 DEF Histories
  <2>2. PICK with : with = { f \in Feature : cache'[f].present }
    OBVIOUS
  <2>3. \A f \in Feature : f \in with <=> cache'[f].present
    BY <2>2
  <2>4. \A f \in Feature :
          IF f \in with
          THEN since'.complete[f] # None /\ since'.complete[f] <= clock
          ELSE \/ since'.complete[f] = None \/ clock - since'.complete[f] < Recheck
               \/ since'.unread[f] # None /\ clock - since'.unread[f] < Recheck
    BY <1>6, <2>1, <2>3
  <2>5. row.when = clock /\ row.with = with
    BY <1>7, <2>2
  <2> QED BY <1>0, <1>2, <2>4, <2>5 DEF RowRight
<1>9. DOMAIN cache' = Feature
  BY <1>1
<1>10. \A r \in rows' : RowRight(r)'
  BY <1>2, <1>5, <1>7, <1>8
<1>11. \A f \in Feature : CacheRight(f)'
  BY <1>6
<1> QED BY <1>4, <1>9, <1>10, <1>11 DEF RowInv

LEMMA RowStep == Counters /\ RowInv /\ [Next]_vars => RowInv'
<1> SUFFICES ASSUME Counters, RowInv, [Next]_vars PROVE RowInv'
  OBVIOUS
<1>0. clock \in Nat
  BY DEF Counters
<1>1. ASSUME \/ UNCHANGED vars \/ Tick \/ Count \/ Stop \/ Drained \/ Exit
             \/ \E j \in Jobs : Fire(j) \/ Enter(j) \/ Acquire(j) \/ TakeBatch(j) \/ EndCycle(j)
      PROVE  UNCHANGED <<schema, since, rows, cache>> /\ clock' \in {clock, clock + 1}
  BY <1>1 DEF vars, cycles, migration, Tick, Count, Stop, Drained, Exit, Fire, Enter, Acquire,
              TakeBatch, EndCycle, OnlyJobs
<1>2. ASSUME NEW c \in Container,
             \/ Boot(c) \/ GetLock(c) \/ NoLock(c) \/ SkipRecorded(c) \/ Record(c)
             \/ StopMigrating(c) \/ Start(c) \/ Crash(c)
      PROVE  UNCHANGED <<schema, since, rows>> /\ (cache' = cache \/ cache' = NoCache) /\ clock' = clock
  BY <1>2 DEF cycles, Boot, GetLock, NoLock, SkipRecorded, Record, StopMigrating, Start, Crash
<1>3. ASSUME NEW c \in Container, Statement(c) \/ ByHand
      PROVE  UNCHANGED <<clock, rows, cache>> /\ schema \subseteq schema' /\ Altered(schema')
  BY <1>3 DEF Statement, ByHand, cycles
<1>4. Container # {}
  BY DEF Container
<1> QED
  BY <1>0, <1>1, <1>2, <1>3, <1>4, RowsIdle, RowsAltered, RowsCommitted DEF Next

\* A row is written with a feature's columns only when they had all been added by
\* then, and without them only when they had not, or Recheck before they had not or
\* a check failed: for any features, migrations, batches and interleaving of the
\* start-up with the cycles.
THEOREM RowsAlwaysFollow == Spec => []RowsFollowSchema
<1>1. RowInv => RowsFollowSchema
  BY DEF RowInv, RowRight, RowsFollowSchema
<1>2. TypeInv => Counters
  BY DEF TypeInv
<1> QED BY RowInit, RowStep, TypesAlways, <1>1, <1>2, PTL DEF Spec

=============================================================================
