-------------------------------- MODULE Rollups --------------------------------
(***************************************************************************)
(* The aggregation container (aws_background.py) for one brand: runs of     *)
(* pipeline/orchestration.py, from the schedule or POST /trigger, each of   *)
(* which recomputes the rollup tables of the affected days while the        *)
(* ingest worker adds rows and the scoring worker rewrites levels.          *)
(***************************************************************************)
EXTENDS RollupFacts, TLC

CONSTANTS
  None,
  Scenes,          \* what may happen: [rows, ids, selfRun, levels, until]
  Overlap,         \* ROLLUP_OVERLAP, in ticks
  FirstLookback,   \* ROLLUP_DEFAULT_LOOKBACK
  MaxWindow,       \* ROLLUP_MAX_WINDOW_DAYS
  IntentLookback,  \* PRODUCT_INTENT_LOOKBACK_DAYS, in days
  HeatmapLookback, \* HEATMAP_INTENT_LOOKBACK_DAYS
  MaxFaults        \* bound on failures, crashes and changes of a session's level

\* The run of a brand: its locals, and what the properties say of it.
Runs ==
  [next : Nat, now : Nat, dates : SUBSET Nat, sig : {None} \cup (Nat \X Nat \X Nat \X Nat),
   source : {None} \cup SUBSET UNION { sc.rows : sc \in ToSet(Scenes) },
   failed : BOOLEAN, clean : BOOLEAN,
   id : {None} \cup UNION { sc.ids : sc \in ToSet(Scenes) }, from : Nat]

ASSUME RollupsAssumption ==
  /\ {DayLen, MaxSteps, MaxPerDate, IntentLookback, HeatmapLookback} \subseteq Nat \ {0}
  /\ {Overlap, FirstLookback, MaxWindow, MaxFaults} \subseteq Nat

\* No run, nothing remembered and no copy is None.
ASSUME NoneAssumption ==
  /\ None \notin Runs \cup [dates : SUBSET Nat, sig : Nat \X Nat \X Nat \X Nat]
  /\ \A sc \in ToSet(Scenes) : \A copy \in SUBSET sc.rows : copy # None

\* Rows are in one of three tables, at a time, and told apart by their "row";
\* sessions have an AUTO_INCREMENT id.
ASSUME ScenesAssumption ==
  \A sc \in ToSet(Scenes) :
    /\ sc.until \in Nat /\ IsFiniteSet(sc.rows)
    /\ \A r, q \in sc.rows : r.row = q.row => r = q
    /\ \A r \in sc.rows :
         /\ r.time \in Nat /\ r.kind \in {"events", "clicks", "sessions"}
         /\ r.kind = "sessions" => r.id \in Nat

VARIABLES
  clock,      \* a tick is the hour of the signature
  scene,      \* which of Scenes this is; its "until" bounds the clock
  arrived,    \* rows committed by the ingest worker
  score,      \* what scoring has written for each session
  watermark,  \* pipeline_metadata[ROLLUP_METADATA_KEY]
  table,      \* stage -> the facts its table counts
  proc,       \* process memory: _last_run, _temp_unavailable
  run,        \* the run of the brand, if any
  trig,       \* MANUAL_TRIGGER_QUEUE, the job's next_run_time, requests under way, answers
  hist,       \* history for the properties
  faults

vars == <<clock, scene, arrived, score, watermark, table, proc, run, trig, hist, faults>>

\* _ROLLUP_STAGES, in order.
Stages == <<"summary", "pages", "clicks", "products", "intent", "paths", "heatmap">>
ReadsCopy == {"pages", "clicks", "products", "intent"}

Row == scene.rows
Closed == Sessions(arrived)
Open == { s \in Sessions(Row) \ arrived : \E r \in arrived : r.row = s.opener }

-----------------------------------------------------------------------------
(* The window *)

Days(from, to) == DayOf(from) .. DayOf(to)

\* Mutant: the window starts at the watermark.
WindowStartBare(now) ==
  Max({0, now - MaxWindow, IF watermark = None THEN now - FirstLookback ELSE watermark})

\* _determine_affected_dates; ticks before 0 belong to day 0.
WindowStart(now) ==
  Max({0, now - MaxWindow, IF watermark = None THEN now - FirstLookback ELSE watermark - Overlap})

\* _product_intent_dates
Extended(dates, lookback) == Min(dates \cup {Max({0, Max(dates) - lookback + 1})}) .. Max(dates)

\* Mutant: the heatmap recomputes the days of the window only.
StageDatesNoLookback(stage, dates) ==
  IF stage = "intent" THEN Extended(dates, IntentLookback) ELSE dates

StageDates(stage, dates) ==
  CASE stage = "intent" -> Extended(dates, IntentLookback)
    [] stage = "heatmap" -> Extended(dates, HeatmapLookback)
    [] OTHER -> dates

On(rows, days) == { r \in rows : DayOf(r.time) \in days }

\* _change_signature: MAX(id) of the three tables (one writer at a time: the rows
\* so far) and the hour.
Signature == <<Cardinality(Events(arrived)), Cardinality(Clicks(arrived)), Cardinality(Closed), clock>>

-----------------------------------------------------------------------------
(* The stages *)

\* _src: some stages read the copy of the window, if there is one.
ReadFrom(stage, source) == IF stage \in ReadsCopy /\ source # None THEN source ELSE arrived

\* What a stage computes for its days; levels come from the closed sessions of now.
\* "both": whether the summary could read the open sessions, the heatmap the levels.
Computed(stage, dates, source, both) ==
  LET days == StageDates(stage, dates)
      from == On(ReadFrom(stage, source), days)
  IN  CASE stage = "summary" -> SummaryFacts(from, IF both THEN On(Open, days) ELSE {})
        [] stage = "pages" -> PageFacts(from)
        [] stage = "clicks" -> ClickFacts(from)
        [] stage = "products" -> ProductFacts(from)
        [] stage = "intent" -> IntentFacts(from, Closed, score)
        [] stage = "paths" -> PathFacts(from)
        [] stage = "heatmap" -> HeatmapFacts(from, Closed, score, both)

SameRow(f, g) == f.day = g.day /\ f.key = g.key

\* executemany_chunked: rows of the same key are overwritten, others stay.  The
\* heatmap without levels leaves the stored levels alone.
Upserted(stage, old, new, both) ==
  { f \in old : \/ ~\E g \in new : SameRow(f, g)
                \/ stage = "heatmap" /\ ~both /\ f.of[2] # "view" } \cup new

\* Mutant: without the stale-key cleanup.
StoredNoCleanup(stage, old, new, both) == Upserted(stage, old, new, both)

\* _upsert_rollup_rows: then rows of other keys go, on days with some computed row.
Stored(stage, old, new, both) ==
  { f \in Upserted(stage, old, new, both) :
      \/ \E g \in new : SameRow(f, g)
      \/ ~\E g \in new : g.day = f.day }

-----------------------------------------------------------------------------
(* The rows and the levels *)

Init ==
  /\ clock = 0 /\ faults = 0
  /\ scene \in ToSet(Scenes)
  /\ arrived = {} /\ watermark = None /\ run = None
  /\ score = [s \in { r.row : r \in Sessions(scene.rows) } |-> "pending"]
  /\ table = [stage \in ToSet(Stages) |-> {}]
  /\ proc = [last |-> None, refused |-> FALSE]
  /\ trig = [queue |-> <<>>, due |-> FALSE, asking |-> {}, told |-> [id \in scene.ids |-> "unknown"]]
  /\ hist = [from |-> 0, owed |-> {}, asked |-> {}, covered |-> {}, quiet |-> FALSE,
             torn |-> {}, blind |-> {}, wanted |-> [id \in scene.ids |-> {}], unlucky |-> {}]

Fault == faults < MaxFaults /\ faults' = faults + 1

Tick ==
  /\ clock < scene.until /\ clock' = clock + 1
  /\ UNCHANGED <<scene, arrived, score, watermark, table, proc, run, trig, hist, faults>>

\* The ingest worker commits a row: a session closes once it has been opened.  The
\* overlap is there for rows no later than it.
Arrive(r) ==
  /\ r.time <= clock
  /\ r.kind = "sessions" => r \in Open
  /\ arrived' = arrived \cup {r}
  /\ hist' = [hist EXCEPT
                !.quiet = FALSE,
                !.owed = IF DayOf(r.time) >= DayOf(Max({0, clock - Overlap})) THEN @ \cup {r} ELSE @]
  /\ UNCHANGED <<clock, scene, score, watermark, table, proc, run, trig, faults>>

\* The scoring worker writes a closed session's level in place, maybe again.
Rescore(s, level) ==
  /\ s \in Closed /\ score[s.row] # level
  /\ IF score[s.row] = "pending" THEN UNCHANGED faults ELSE Fault
  /\ score' = [score EXCEPT ![s.row] = level]
  /\ hist' = [hist EXCEPT !.quiet = FALSE]
  /\ UNCHANGED <<clock, scene, arrived, watermark, table, proc, run, trig>>

-----------------------------------------------------------------------------
(* Triggers and the beginning of a run *)

\* manual_trigger: the id is queued.
Trigger(id) ==
  /\ trig.told[id] = "unknown"
  /\ trig' = [trig EXCEPT !.queue = Append(@, id), !.asking = @ \cup {id}, !.told[id] = "queued"]
  /\ hist' = [hist EXCEPT !.wanted[id] = hist.owed]
  /\ UNCHANGED <<clock, scene, arrived, score, watermark, table, proc, run, faults>>

\* Then the job is told to fire now, or that fails: the id stays queued, for the
\* next run.  Without a schedule a finished job is gone and is added again.
Fire(id) ==
  /\ id \in trig.asking
  /\ \/ trig' = [trig EXCEPT !.asking = @ \ {id}, !.due = TRUE] /\ UNCHANGED faults
     \/ trig' = [trig EXCEPT !.asking = @ \ {id}] /\ Fault
  /\ UNCHANGED <<clock, scene, arrived, score, watermark, table, proc, run, hist>>

\* max_instances = 1: a firing during a run is dropped, its id stays queued.
FiringSkipped ==
  /\ run # None /\ trig.due
  /\ trig' = [trig EXCEPT !.due = FALSE]
  /\ UNCHANGED <<clock, scene, arrived, score, watermark, table, proc, run, hist, faults>>

\* run_data_pipeline takes one id, if there is one, as it begins.
NextId(t) == IF t.queue = <<>> THEN None ELSE Head(t.queue)
Answered(t, id, status) == IF id = None THEN t ELSE [t EXCEPT !.told[id] = status]
\* Mutant: the id stays in the queue.
BegunKeepingId(t) == [Answered(t, NextId(t), "running") EXCEPT !.due = FALSE]

Begun(t) == [Answered(t, NextId(t), "running") EXCEPT
               !.queue = IF t.queue = <<>> THEN <<>> ELSE Tail(t.queue), !.due = FALSE]

MayBegin == run = None /\ (scene.selfRun \/ trig.due)
Unlucky(id) == IF id = None THEN hist.unlucky ELSE hist.unlucky \cup {id}

\* initialize_brand_configs fails: the run fails.
ConfigFails ==
  /\ MayBegin /\ Fault
  /\ trig' = Answered(Begun(trig), NextId(trig), "failed")
  /\ UNCHANGED <<clock, scene, arrived, score, watermark, table, proc, run, hist>>

\* _process_mapped_brand swallows what run_rollups_for_brand raises, here before
\* its first stage: the run is reported completed.
BrandFails ==
  /\ MayBegin /\ Fault
  /\ trig' = Answered(Begun(trig), NextId(trig), "completed")
  /\ hist' = [hist EXCEPT !.unlucky = Unlucky(NextId(trig))]
  /\ UNCHANGED <<clock, scene, arrived, score, watermark, table, proc, run>>

\* The signature, or None when it cannot be read.
Signed(sig) ==
  \/ sig = Signature /\ UNCHANGED faults
  \/ sig = None /\ Fault

Unchanged(dates, sig) == sig # None /\ watermark # None /\ proc.last = [dates |-> dates, sig |-> sig]

\* Nothing arrived since the last complete run over the same days.
SkipRun ==
  /\ MayBegin
  /\ Unchanged(Days(WindowStart(clock), clock), Signature)
  /\ watermark' = clock
  /\ trig' = Answered(Begun(trig), NextId(trig), "completed")
  /\ hist' = [hist EXCEPT !.covered = { r \in hist.owed : DayOf(r.time) >= hist.from }]
  /\ UNCHANGED <<clock, scene, arrived, score, table, proc, run, faults>>

StartRun(sig) ==
  LET dates == Days(WindowStart(clock), clock)
      bounded == watermark = None \/ clock - MaxWindow > watermark - Overlap
  IN  /\ MayBegin
      /\ Signed(sig) /\ ~Unchanged(dates, sig)
      /\ run' = [next |-> 0, now |-> clock, dates |-> dates, sig |-> sig, source |-> None,
                 failed |-> FALSE, clean |-> TRUE, id |-> NextId(trig),
                 from |-> IF bounded THEN Max({hist.from, Min(dates)}) ELSE hist.from]
      /\ trig' = Begun(trig)
      /\ hist' = [hist EXCEPT !.asked = hist.owed, !.quiet = TRUE]
      /\ UNCHANGED <<clock, scene, arrived, score, watermark, table, proc>>

-----------------------------------------------------------------------------
(* The run *)

\* _prepare_source: a copy of the window's events and clicks, or none, for this
\* run or for the rest of the process.
PrepareSource ==
  /\ run # None /\ run.next = 0
  /\ \/ /\ ~proc.refused
        /\ run' = [run EXCEPT !.next = 1, !.source = On(arrived, run.dates) \ Closed]
        /\ hist' = [hist EXCEPT !.torn = @ \cup run.dates]
        /\ UNCHANGED <<proc, faults>>
     \/ /\ run' = [run EXCEPT !.next = 1, !.clean = FALSE]
        /\ hist' = [hist EXCEPT !.torn = @ \cup Extended(run.dates, IntentLookback)]
        /\ \/ proc.refused /\ UNCHANGED <<proc, faults>>
           \/ ~proc.refused /\ Fault /\ \E refused \in BOOLEAN : proc' = [proc EXCEPT !.refused = refused]
  /\ UNCHANGED <<clock, scene, arrived, score, watermark, table, trig>>

InStage == run # None /\ run.next \in DOMAIN Stages
Here == Stages[run.next]

\* The stage's effect on its table.
Write(source, both) ==
  table' = [table EXCEPT ![Here] = Stored(Here, @, Computed(Here, run.dates, source, both), both)]

\* The days whose summary was last written without the open sessions.
StillBlind == IF Here = "summary" THEN hist.blind \ run.dates ELSE hist.blind

Stage ==
  /\ InStage
  /\ Write(run.source, TRUE)
  /\ run' = [run EXCEPT !.next = @ + 1]
  /\ hist' = [hist EXCEPT !.blind = StillBlind]
  /\ UNCHANGED <<clock, scene, arrived, score, watermark, proc, trig, faults>>

\* _open_sessions_by_date fails: only closed sessions are counted, and the stage
\* succeeds.
OpenUnread ==
  /\ InStage /\ Here = "summary" /\ Fault
  /\ Write(run.source, FALSE)
  /\ run' = [run EXCEPT !.next = @ + 1]
  /\ hist' = [hist EXCEPT !.blind = @ \cup run.dates]
  /\ UNCHANGED <<clock, scene, arrived, score, watermark, proc, trig>>

\* The joined read of the heatmap fails: views only, and the stage succeeds.
LevelsUnread ==
  /\ InStage /\ Here = "heatmap" /\ Fault
  /\ Write(run.source, FALSE)
  /\ run' = [run EXCEPT !.next = @ + 1]
  /\ hist' = [hist EXCEPT !.quiet = FALSE]
  /\ UNCHANGED <<clock, scene, arrived, score, watermark, proc, trig>>

\* _run_stage: a failure with a copy at hand is retried on the real tables, where
\* product_intent_daily reaches all its days.
StageRetried ==
  /\ InStage /\ run.source # None /\ Fault
  /\ Write(None, TRUE)
  /\ run' = [run EXCEPT !.next = @ + 1, !.clean = FALSE]
  /\ hist' = [hist EXCEPT !.torn = @ \cup StageDates(Here, run.dates), !.blind = StillBlind]
  /\ UNCHANGED <<clock, scene, arrived, score, watermark, proc, trig>>

\* The table of a stage that writes only these rows and cleans up only these days.
Partly(stage, old, rows, days) ==
  { f \in Upserted(stage, old, rows, TRUE) : f.day \in days => f \in Stored(stage, old, rows, TRUE) }

\* A stage fails, on the copy or on the real tables, before it writes or part-way:
\* every chunk of rows is committed, and paths go day by day with their cleanup.
\* The other stages still run unless it is the connection that is gone.
StageFails ==
  /\ InStage /\ Fault
  /\ \E source \in {run.source, None} :
       LET new == Computed(Here, run.dates, source, TRUE)
       IN  /\ \E keys \in SUBSET { <<f.day, f.key>> : f \in new }, days \in SUBSET { f.day : f \in new } :
                LET rows == { f \in new : <<f.day, f.key>> \in keys }
                IN  /\ \A f \in new : f.day \in days => f \in rows
                    /\ table' = [table EXCEPT ![Here] = Partly(Here, @, rows, days)]
           /\ hist' = [hist EXCEPT
                         !.quiet = FALSE,
                         !.torn = IF source = run.source THEN @ ELSE @ \cup StageDates(Here, run.dates)]
  /\ \E next \in {run.next + 1, Len(Stages) + 1} :
       run' = [run EXCEPT !.next = next, !.failed = TRUE, !.clean = FALSE]
  /\ UNCHANGED <<clock, scene, arrived, score, watermark, proc, trig>>

\* Mutant: the signature is taken again when the run ends.
RememberNow(sig) == IF sig = None THEN None ELSE [dates |-> run.dates, sig |-> Signature]

\* The signature to remember is the one taken before the stages ran.
Remember(sig) == IF sig = None THEN None ELSE [dates |-> run.dates, sig |-> sig]

Completed == ~run.failed

\* Mutant: the queue is read when the run ends.
RunIdAtEnd == NextId(trig)

\* The id a run answers for is the one it took as it began.
RunId == run.id

\* The watermark moves only after a run in which every stage succeeded; the
\* manager is told completed in any case.
EndRun ==
  /\ run # None /\ run.next = Len(Stages) + 1
  /\ IF Completed
     THEN /\ watermark' = run.now
          /\ proc' = [proc EXCEPT !.last = Remember(run.sig)]
          /\ hist' = [hist EXCEPT
                        !.from = run.from,
                        !.covered = { r \in hist.asked : DayOf(r.time) >= run.from },
                        !.torn = IF run.clean THEN @ \ run.dates ELSE @]
     ELSE /\ proc' = [proc EXCEPT !.last = None]
          /\ hist' = [hist EXCEPT !.unlucky = Unlucky(RunId)]
          /\ UNCHANGED watermark
  /\ trig' = Answered(trig, RunId, "completed")
  /\ run' = None
  /\ UNCHANGED <<clock, scene, arrived, score, table, faults>>

\* The watermark cannot be written: run_rollups_for_brand raises.
WatermarkFails ==
  /\ run # None /\ run.next = Len(Stages) + 1 /\ Completed /\ Fault
  /\ trig' = Answered(trig, RunId, "completed")
  /\ hist' = [hist EXCEPT !.unlucky = Unlucky(RunId), !.quiet = FALSE]
  /\ run' = None
  /\ UNCHANGED <<clock, scene, arrived, score, watermark, table, proc>>

\* The container restarts: its memory, the queue and the run are gone.
Crash ==
  /\ Fault
  /\ proc' = [last |-> None, refused |-> FALSE]
  /\ run' = None
  /\ trig' = [trig EXCEPT !.queue = <<>>, !.due = FALSE, !.asking = {}]
  /\ hist' = [hist EXCEPT !.quiet = FALSE]
  /\ UNCHANGED <<clock, scene, arrived, score, watermark, table>>

Next ==
  \/ Tick
  \/ \E r \in Row \ arrived : Arrive(r)
  \/ \E s \in Closed, level \in scene.levels : Rescore(s, level)
  \/ \E id \in scene.ids : Trigger(id) \/ Fire(id)
  \/ FiringSkipped
  \/ ConfigFails \/ BrandFails \/ SkipRun
  \/ \E sig \in {Signature, None} : StartRun(sig)
  \/ PrepareSource
  \/ Stage \/ OpenUnread \/ LevelsUnread \/ StageRetried \/ StageFails
  \/ EndRun \/ WatermarkFails
  \/ Crash

Spec == Init /\ [][Next]_vars

-----------------------------------------------------------------------------
(* Properties *)

Levelled == {"intent", "heatmap"}

\* The days of a stage that its table counts with all it should have read.
Seen(stage, days) == IF stage = "summary" THEN days \ hist.blind ELSE days
At(stage, days) == { f \in table[stage] : f.day \in days }

\* Every variable stays in its domain.
TypeOK ==
  /\ clock \in 0 .. scene.until /\ faults \in 0 .. MaxFaults
  /\ scene \in ToSet(Scenes) /\ arrived \subseteq Row
  /\ watermark \in {None} \cup 0 .. clock
  /\ \A stage \in ToSet(Stages) : \A f \in table[stage] : f.day \in Days(0, clock)
  /\ run # None => run.next \in 0 .. Len(Stages) + 1 /\ Max(run.dates) = DayOf(run.now) /\ run.now <= clock
  /\ ToSet(trig.queue) \subseteq { id \in scene.ids : trig.told[id] = "queued" }
  /\ hist.covered \subseteq hist.owed /\ hist.asked \subseteq hist.owed /\ hist.owed \subseteq arrived

Counted(r) ==
  /\ SummaryFacts({r}, {}) \subseteq table["summary"]
  /\ PageFacts({r}) \subseteq table["pages"]
  /\ ClickFacts({r}) \subseteq table["clicks"]
  /\ ProductFacts({r}) \subseteq table["products"]

\* What arrived within the overlap before a run that set the watermark is in the
\* rollups for good, whatever failed, was skipped or restarted since: days are
\* replaced whole and the watermark never passes a row that was not counted.
NothingMissed == \A r \in hist.covered : Counted(r)

\* A run is skipped because of what _last_run remembers: as long as no row has
\* come since that signature, the rollups of those days are exactly what a run
\* would compute now, levels aside, and days counted without their open sessions.
RememberedIsCurrent ==
  proc.last # None /\ Front(proc.last.sig) = Front(Signature) =>
    \A stage \in ToSet(Stages) \ Levelled :
      LET days == Seen(stage, proc.last.dates)
      IN  At(stage, days) = Computed(stage, days, None, TRUE)

\* "The levels of a product always add up to its product_behavior_daily row": on
\* days last written by a clean run on a copy, each product fact is at exactly one
\* level per basis, and every level's fact is a product fact.
LevelsAddUp ==
  LET sound == { f \in table["products"] : f.day \notin hist.torn }
      at(f, basis) == { g \in table["intent"] : /\ g.day = f.day /\ g.of = f.of
                                                /\ g.key[1] = basis /\ g.key[3] = f.key }
  IN  /\ \A f \in sound, basis \in {"behavior", "score"} : Cardinality(at(f, basis)) = 1
      /\ \A g \in table["intent"] : g.day \notin hist.torn =>
           [day |-> g.day, key |-> g.key[3], of |-> g.of] \in sound

\* After a complete run with nothing new since it began, levels are those of now:
\* the heatmap's for its lookback, which a session closing after midnight needs,
\* product_intent_daily's for the days of the window.
LevelsSettle ==
  run = None /\ proc.last # None /\ hist.quiet =>
    LET dates == proc.last.dates
        days == StageDates("heatmap", dates) \cup Extended(dates, HeatmapLookback)
    IN  /\ At("heatmap", days) = HeatmapFacts(On(arrived, days), Closed, score, TRUE)
        /\ At("intent", dates) = IntentFacts(On(arrived, dates), Closed, score)

\* A manual trigger answered "completed" had a run that began after it, so what
\* was there when it was sent is counted, unless the rollups failed.
TriggerFresh ==
  \A id \in scene.ids : trig.told[id] = "completed" /\ id \notin hist.unlucky =>
    \A r \in hist.wanted[id] : DayOf(r.time) >= hist.from => Counted(r)
=============================================================================
