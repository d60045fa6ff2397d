----------------------------- MODULE IntentScoring -----------------------------
(***************************************************************************)
(* The scoring engine of one brand (intent_engine/, the brands are          *)
(* independent): the windowed pass, the drain of pending sessions, the      *)
(* daily calibration and the actor recompute that ends each of them, in one *)
(* or more containers of workers/intent_scoring_worker.py, reading from the *)
(* primary or from a replica that lags.                                     *)
(***************************************************************************)
EXTENDS ScoreFormulas

CONSTANTS
  Containers,     \* processes of the scoring worker
  Visits,         \* visitor histories to start from: sequences of visit records
  PageSize,       \* INTENT_SCORING_WINDOW_CHUNK
  ChunkSize,      \* INTENT_SCORING_CATCHUP_CHUNK
  Overlap,        \* SCORING_OVERLAP, in ticks
  FirstLookback,  \* SCORING_DEFAULT_LOOKBACK
  DrainLookback,  \* days of pending sessions the drains look back, as ticks
  DayLen,         \* ticks per day
  DbOffset,       \* the database's clock minus IST
  OffsetUnit,     \* OFFSET_ROUNDING_S
  MaxLag,         \* bound on the replica's lag; 0: no replica
  MaxTime,        \* bound on the clock
  MaxFaults       \* bound on failed statements and connections, crashes, overlaps

ASSUME ScoringAssumption ==
  /\ {PageSize, ChunkSize, DayLen, OffsetUnit} \subseteq Nat \ {0}
  /\ {Overlap, FirstLookback, DrainLookback, MaxLag, MaxTime, MaxFaults, DbOffset} \subseteq Nat
  /\ \A h \in DOMAIN Visits : Visits[h] \in Seq(Visit)
  /\ None \notin Containers

VARIABLES
  clock,          \* IST wall clock
  cast,           \* which of Visits this is about
  sess,           \* intent_sessions: a row per closed session
  thr,            \* intent_thresholds_daily
  actors,         \* intent_actors
  watermark,      \* pipeline_metadata[SCORING_METADATA_KEY]
  replica,        \* what the replica has of sess and thr, and since when
  lock,           \* GET_LOCK("intent-scoring:...")
  job,            \* the pass each container is in (_heavy_lock: one at most)
  hist,           \* history: what failures and overlaps have spoiled so far
  faults

vars == <<clock, cast, sess, thr, actors, watermark, replica, lock, job, hist, faults>>

visits == Visits[cast]
Session == DOMAIN visits
Actor == { visits[s].actor : s \in Session }
DayOf(t) == t \div DayLen
Days == 0 .. DayOf(MaxTime)
SessionDay(s) == DayOf(visits[s].start)

\* "at": when a windowed pass began, or the date a calibration is for; "first":
\* a windowed pass that found no watermark.
Idle == [kind |-> "idle", step |-> "idle", at |-> 0, first |-> FALSE, thr |-> <<>>,
         todo |-> {}, touched |-> {}, cuts |-> None]

NoSession == [status |-> "open", upd |-> 0, score |-> None, bucket |-> None, oper |-> None]

Closed(rows) == { s \in Session : rows[s].status # "open" }

-----------------------------------------------------------------------------
(* db_clock.py *)

DbClock(t) == t + DbOffset
MeasuredOffset == RoundHalfEven(DbOffset, OffsetUnit) * OffsetUnit
ToDbClock(t) == t + MeasuredOffset

(* repository.py: the reads. *)

\* fetch_eligible_sessions: closed sessions updated in the window, read in
\* pages, oldest first.
EligibleSessions(rows, from, to) == { s \in Closed(rows) : rows[s].upd >= from /\ rows[s].upd < to }
UpdatedBefore(s, t) == sess[s].upd < sess[t].upd \/ (sess[s].upd = sess[t].upd /\ s < t)

\* fetch_pending_sessions_by_start: pending ones, newest start first.
PendingByStart(rows, since) ==
  { s \in Session : rows[s].status = "pending" /\ visits[s].start >= since }
StartedAfter(s, t) == visits[s].start > visits[t].start \/ (visits[s].start = visits[t].start /\ s > t)

ScoredOf(a) == { s \in Session : visits[s].actor = a /\ sess[s].status = "scored" }

\* recompute_actors for one actor; MySQL breaks ties as it likes.
ActorRows(a) ==
  LET mine == ScoredOf(a)
      best == { s \in mine : \A t \in mine : sess[s].score >= sess[t].score }
  IN  IF mine = {}
      THEN {[score |-> None, bucket |-> None, best |-> None, count |-> 0]}
      ELSE { [score |-> sess[s].score, bucket |-> sess[s].bucket, best |-> s,
              count |-> Cardinality(mine)] : s \in best }

ActorCurrent(a) ==
  \/ \A s \in Session : visits[s].actor = a => sess[s].status \in {"open", "pending"}
  \/ actors[a] \in ActorRows(a)

\* What a read connection sees: one snapshot for the whole pass.
Readers ==
  LET primary == [sess |-> sess, thr |-> thr]
  IN  {primary} \cup IF MaxLag = 0 THEN {} ELSE {[sess |-> replica.sess, thr |-> replica.thr]}

\* Mutant: no overlap.
WindowStartBare(now) == IF watermark = None THEN now - FirstLookback ELSE watermark

WindowStart(now) == IF watermark = None THEN now - FirstLookback ELSE watermark - Overlap

\* The next windowed pass, whenever it runs, reads this session.
InNextWindow(s) == watermark # None /\ sess[s].upd >= ToDbClock(watermark - Overlap)

TypeOK ==
  /\ clock \in 0 .. MaxTime
  /\ \A s \in Session :
       /\ sess[s].status \in {"open", "pending", "scored", "excluded"}
       /\ (sess[s].score # None) <=> (sess[s].status = "scored")
       /\ (sess[s].bucket # None) <=> (sess[s].status = "scored")
  /\ DOMAIN thr = Days
  /\ watermark = None \/ watermark \in 0 .. clock
  /\ lock \in Containers \cup {None}
  /\ \A c \in Containers :
       /\ job[c].kind \in {"idle", "window", "drain", "calibration"}
       /\ job[c].step \in {"idle", "page", "actors", "thresholds", "reassign"}
       /\ lock = c => job[c].kind \in {"window", "drain"}

Init ==
  /\ clock = 0
  /\ cast \in DOMAIN Visits
  /\ sess = [s \in Session |-> NoSession]
  /\ thr = [d \in Days |-> None]
  /\ actors = [a \in Actor |-> None]
  /\ watermark = None
  /\ replica = [sess |-> sess, thr |-> thr, at |-> 0]
  /\ lock = None
  /\ job = [c \in Containers |-> Idle]
  /\ hist = [early |-> {}, refused |-> {}, lost |-> {}, stale |-> {},
             overlapped |-> FALSE, crossed |-> FALSE]
  /\ faults = 0

-----------------------------------------------------------------------------
(* The world around the engine. *)

\* With a replica, each tick finds it caught up or, within MaxLag, as it was.
Tick ==
  /\ clock < MaxTime
  /\ clock' = clock + 1
  /\ \/ replica' = [sess |-> sess, thr |-> thr, at |-> clock']
     \/ replica.at + MaxLag > clock /\ UNCHANGED replica
  /\ UNCHANGED <<cast, sess, thr, actors, watermark, lock, job, hist, faults>>

\* The writer or the sweep inserts the row of a session that has ended.
CloseSession(s) ==
  /\ sess[s].status = "open"
  /\ visits[s].start <= clock
  /\ sess' = [sess EXCEPT ![s].status = "pending", ![s].upd = DbClock(clock)]
  /\ UNCHANGED <<clock, cast, thr, actors, watermark, replica, lock, job, hist, faults>>

-----------------------------------------------------------------------------
(* Starting a pass.  A container busy with one skips or waits (_heavy_lock); *)
(* a pass that is refused the brand's lock leaves everything as it is.        *)

\* History: scoring passes of c and d that the brand's lock does not keep apart.
Unguarded(c, d) == lock' # c \/ lock # d

Beside(c, kind) ==
  \E d \in Containers \ {c} :
    /\ job[d].kind # "idle"
    /\ "calibration" \in {kind, job[d].kind} \/ Unguarded(c, d)

Crossing(c, kind) ==
  \E d \in Containers \ {c} : {kind, job[d].kind} = {"window"} /\ Unguarded(c, d)

\* Bounded as a fault: a redeployment, with a second container beside a busy one,
\* or a lock that cannot be asked for.
Start(c, pass) ==
  /\ job[c] = Idle
  /\ faults' = faults + IF (\A d \in Containers : job[d] = Idle) /\ (pass.kind = "calibration" \/ lock' = c)
                       THEN 0 ELSE 1
  /\ faults' <= MaxFaults
  /\ job' = [job EXCEPT ![c] = pass]
  /\ hist' = [hist EXCEPT !.overlapped = @ \/ Beside(c, pass.kind),
                          !.crossed = @ \/ Crossing(c, pass.kind)]
  /\ UNCHANGED <<clock, cast, sess, thr, actors, watermark, replica>>

\* Mutant: the lock is not looked at.
TakeLockAnyway(c) == lock' = c

\* GET_LOCK, without waiting; when it raises the pass goes on without the lock.
TakeLock(c) ==
  \/ lock = None /\ lock' = c
  \/ UNCHANGED lock

StartWindow(c) ==
  /\ TakeLock(c)
  /\ \E r \in Readers :
       LET todo == EligibleSessions(r.sess, ToDbClock(WindowStart(clock)), ToDbClock(clock))
       IN  Start(c, [Idle EXCEPT !.kind = "window", !.at = clock, !.first = watermark = None,
                                 !.thr = r.thr, !.todo = todo,
                                 !.step = IF todo = {} THEN "actors" ELSE "page"])

StartDrain(c) ==
  /\ TakeLock(c)
  /\ \E r \in Readers :
       LET todo == PendingByStart(r.sess, clock - DrainLookback)
       IN  /\ todo # {}
           /\ Start(c, [Idle EXCEPT !.kind = "drain", !.thr = r.thr, !.todo = todo, !.step = "page"])

StartCalibration(c) ==
  /\ DayOf(clock) > 0
  /\ \E r \in Readers :
       LET yesterday == DayOf(clock) - 1
           day == { s \in Closed(r.sess) : SessionDay(s) = yesterday }
           scored == { s \in day : r.sess[s].status = "scored" }
       IN  Start(c, [Idle EXCEPT !.kind = "calibration", !.step = "thresholds", !.at = yesterday,
                       !.cuts = Calibrated([s \in scored |-> r.sess[s].score], [s \in day |-> visits[s]])])
  /\ UNCHANGED lock

-----------------------------------------------------------------------------
(* The steps of a pass. *)

\* Mutant: the brand's lock is kept.
LeaveLocked(c) ==
  /\ job' = [job EXCEPT ![c] = Idle]
  /\ UNCHANGED lock

\* The pass of c is over: locks and connections are given back.
Leave(c) ==
  /\ job' = [job EXCEPT ![c] = Idle]
  /\ lock' = IF lock = c THEN None ELSE lock

Page(c) ==
  LET ahead(s) == { t \in job[c].todo : IF job[c].kind = "window" THEN UpdatedBefore(t, s)
                                        ELSE StartedAfter(t, s) }
      size == IF job[c].kind = "window" THEN PageSize ELSE ChunkSize
  IN  { s \in job[c].todo : Cardinality(ahead(s)) < size }

ActorsOf(S) == { visits[s].actor : s \in S }

\* Rows that a page writes for the sessions in S; updated_at keeps its value.
WriteScores(c, S) ==
  LET row(s) == ScoreRow(visits[s], EffectiveThresholds(job[c].thr, SessionDay(s)))
  IN  sess' = [s \in Session |->
                 IF s \in S
                 THEN [sess[s] EXCEPT !.status = row(s).status, !.score = row(s).score,
                                      !.bucket = row(s).bucket, !.oper = row(s).oper]
                 ELSE sess[s]]

\* History: days some of S were scored for with other thresholds than MySQL holds.
OutOfDate(c, S) ==
  { d \in { SessionDay(s) : s \in S } :
      EffectiveThresholds(job[c].thr, d) # EffectiveThresholds(thr, d) }

\* History: actors whose recompute is lost when the pass of c stops here.  A
\* windowed pass leaves its watermark, so its window comes again.
Forgotten(c, who) == IF job[c].kind = "window" /\ watermark # None THEN {} ELSE who

\* score_sessions_isolated.  The page is halved until only sessions that
\* fail are left out; a session may fail alone after the update of a larger
\* group had written it ("unseen"), or an earlier pass.  A full page ends the windowed pass: the key
\* of the next page is a column the query does not return.
ScorePage(c, failed, unseen) ==
  LET page == Page(c)
      ok == page \ failed
      breaks == job[c].kind = "window" /\ Cardinality(page) = PageSize
  IN  /\ job[c].step = "page"
      /\ faults' = faults + Cardinality(failed)
      /\ faults' <= MaxFaults
      /\ failed \subseteq page
      /\ unseen \subseteq failed
      /\ unseen # {} => Cardinality(page) > 1
      /\ WriteScores(c, ok \cup unseen)
      /\ hist' = [hist EXCEPT
                    !.refused = { s \in (@ \cup failed) \ (ok \cup unseen) : sess[s].status = "pending" },
                    !.stale = @ \cup OutOfDate(c, ok \cup unseen),
                    !.lost = @ \cup ActorsOf(unseen \cup { s \in failed : sess[s].status # "pending" })
                               \cup IF breaks THEN Forgotten(c, ActorsOf(ok)) ELSE {}]
      /\ IF breaks THEN Leave(c)
         ELSE /\ job' = [job EXCEPT ![c].todo = @ \ page, ![c].touched = ActorsOf(ok),
                                    ![c].step = "actors"]
              /\ UNCHANGED lock
      /\ UNCHANGED <<clock, cast, thr, actors, watermark, replica>>

\* Mutant: a calibration recomputes nobody.
AffectedByPages(c) == job[c].touched

\* Which actors a pass recomputes.
Affected(c) ==
  IF job[c].kind = "calibration"
  THEN ActorsOf({ s \in Session : sess[s].status = "scored"
                                  /\ SessionDay(s) = job[c].at })
  ELSE job[c].touched

\* History: sessions closed too early for a windowed pass that finds no watermark.
BeforeLookback(now) == { s \in Closed(sess) : sess[s].upd < ToDbClock(now - FirstLookback) }

\* recompute_actors, in one step: only a pass of another container, a calibration
\* or one that went on without the lock, could change a scored row between its
\* read and its write.  It ends a chunk of a drain and a calibration; a windowed
\* pass then sets the watermark to the time it began, whatever it is by now.
RecomputeActors(c) ==
  /\ job[c].step = "actors"
  /\ \E rows \in { f \in [Affected(c) -> UNION { ActorRows(a) : a \in Affected(c) }] :
                     \A a \in Affected(c) : f[a] \in ActorRows(a) } :
       actors' = [a \in Actor |-> IF a \in Affected(c) THEN rows[a] ELSE actors[a]]
  /\ hist' = [hist EXCEPT !.lost = @ \ Affected(c),
                          !.early = @ \cup IF job[c].first THEN BeforeLookback(job[c].at) ELSE {}]
  /\ watermark' = IF job[c].kind = "window" THEN job[c].at ELSE watermark
  /\ IF job[c].kind = "drain" /\ job[c].todo # {}
     THEN /\ job' = [job EXCEPT ![c].touched = {}, ![c].step = "page"]
          /\ UNCHANGED lock
     ELSE Leave(c)
  /\ UNCHANGED <<clock, cast, sess, thr, replica, faults>>

\* The budget of a drain is spent before its next chunk.
DrainStops(c) ==
  /\ job[c].kind = "drain" /\ job[c].step = "page"
  /\ Leave(c)
  /\ UNCHANGED <<clock, cast, sess, thr, actors, watermark, replica, hist, faults>>

\* calibrate_date_for_brand: its two writes, each committed.
WriteThresholds(c) ==
  /\ job[c].step = "thresholds"
  /\ thr' = [thr EXCEPT ![job[c].at] = job[c].cuts]
  /\ job' = [job EXCEPT ![c].step = "reassign"]
  /\ UNCHANGED <<clock, cast, sess, actors, watermark, replica, lock, hist, faults>>

ReassignBuckets(c) ==
  LET day == job[c].at
      bucket(s) == AssignBucket(sess[s].score, job[c].cuts.p35, job[c].cuts.p72)
  IN  /\ job[c].step = "reassign"
      /\ sess' = [s \in Session |->
                    IF sess[s].status = "scored" /\ SessionDay(s) = day
                    THEN [sess[s] EXCEPT !.bucket = bucket(s), !.oper = Override(visits[s], bucket(s))]
                    ELSE sess[s]]
      /\ hist' = [hist EXCEPT !.stale = @ \ {day}]
      /\ job' = [job EXCEPT ![c].step = "actors"]
      /\ UNCHANGED <<clock, cast, thr, actors, watermark, replica, lock, faults>>

-----------------------------------------------------------------------------
(* Failures: a statement or a connection raises, or the process dies. *)

Fail(c) ==
  /\ job[c].step # "idle"
  /\ faults < MaxFaults
  /\ faults' = faults + 1
  /\ Leave(c)
  /\ hist' = [hist EXCEPT
                !.lost = @ \cup IF job[c].step = "actors" THEN Forgotten(c, Affected(c)) ELSE {},
                !.stale = @ \cup IF job[c].step = "reassign" THEN {job[c].at} ELSE {}]
  /\ UNCHANGED <<clock, cast, sess, thr, actors, watermark, replica>>

\* A page is cut after the rows of S were committed.
FailInPage(c, S) ==
  /\ job[c].step = "page"
  /\ faults < MaxFaults
  /\ faults' = faults + 1
  /\ S # {} /\ S \subseteq Page(c)
  /\ WriteScores(c, S)
  /\ Leave(c)
  /\ hist' = [hist EXCEPT !.lost = @ \cup Forgotten(c, ActorsOf(S)), !.stale = @ \cup OutOfDate(c, S)]
  /\ UNCHANGED <<clock, cast, thr, actors, watermark, replica>>

-----------------------------------------------------------------------------

Next ==
  \/ Tick
  \/ \E s \in Session : CloseSession(s)
  \/ \E c \in Containers :
       \/ StartWindow(c)
       \/ StartDrain(c)
       \/ StartCalibration(c)
       \/ ScorePage(c, {}, {})
       \/ RecomputeActors(c)
       \/ WriteThresholds(c)
       \/ ReassignBuckets(c)
       \/ DrainStops(c)
       \/ \E failed \in SUBSET Session \ {{}} : \E unseen \in SUBSET failed : ScorePage(c, failed, unseen)
       \/ Fail(c)
       \/ \E S \in SUBSET Session : FailInPage(c, S)

Spec == Init /\ [][Next]_vars

-----------------------------------------------------------------------------
(* Properties *)

\* The watermark never leaves a closed session behind: a pending session is
\* in the window of the next pass, or some pass reported that it failed on
\* it, or it was closed before the lookback of a pass that found no watermark.  This
\* is what the overlap is for: the lag of the replica lets a pass miss sessions of
\* its window.  It does not take the brand's lock: passes may run side by side.
WatermarkCovers ==
  \A s \in Session :
    sess[s].status = "pending" /\ watermark # None =>
      \/ InNextWindow(s)
      \/ s \in hist.refused
      \/ s \in hist.early

\* An actor whose row does not show the best of its scored sessions is about
\* to be recomputed: a pass that touched it is on its way to the write, or the
\* next window holds one of its sessions.  The exceptions are named: a drain
\* or a calibration cut between its two commits (or a first window), and a pass
\* beside another container's, which calibrations and lost locks allow.
StaleActorsRevisited ==
  \A a \in Actor \ hist.lost :
    \/ ActorCurrent(a)
    \/ hist.overlapped
    \/ \E c \in Containers : job[c].step \in {"reassign", "actors"} /\ a \in Affected(c)
    \/ \E s \in Session : visits[s].actor = a /\ InNextWindow(s)

\* The stored score, and the one it was rounded from.
AsStored(s) ==
  { exact \in {1000 * sess[s].score} \cup { PredictiveScore(visits[s], thr[d].p90) :
                                            d \in { e \in Days : thr[e] # None } }
                \cup {PredictiveScore(visits[s], None)} :
      RoundHalfEven(exact, 1000) = sess[s].score }

\* Every scored session of a calibrated day is in the bucket its day's
\* thresholds give, whichever of the Python formula and the SQL CASE put it
\* there, unless it was scored from a snapshot older than the thresholds, or the
\* calibration was cut or overlapped.  Python compares the score before rounding:
\* the session that is the percentile itself can fall below its own cut.
BucketsAgree ==
  \A s \in Session :
    LET day == SessionDay(s)
    IN  /\ sess[s].status = "scored" /\ thr[day] # None
        /\ day \notin hist.stale /\ ~hist.overlapped
        /\ \A c \in Containers : job[c].step # "reassign"
        => /\ \E exact \in AsStored(s) :
                sess[s].bucket = AssignBucket(exact, 1000 * thr[day].p35, 1000 * thr[day].p72)
           /\ sess[s].oper = Override(visits[s], sess[s].bucket)

\* The scoring watermark never goes back, with any number of containers, unless
\* GET_LOCK raised for one of two windowed passes that ran side by side: then the
\* older may write its start over that of the younger.
WatermarkAdvances ==
  [][watermark # None => watermark' >= watermark \/ hist.crossed]_vars
=============================================================================
