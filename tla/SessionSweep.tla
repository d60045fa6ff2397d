---------------------------- MODULE SessionSweep -----------------------------
(***************************************************************************)
(* The idle sweep (src/pipeline/intent_session_sweep.py) beside the writer *)
(* that shares its tables.  After a cycle that read everything it meant to *)
(* the worker closes, chunk by chunk, sessions whose last event is far     *)
(* older than the newest event of the brand.  It runs under the run lock,  *)
(* so no transaction of the writer comes between.                          *)
(***************************************************************************)
EXTENDS SessionWriter

CONSTANTS
  Margin,             \* SWEEP_MARGIN_S
  Chunk,              \* SWEEP_CHUNK
  MaxPerRun,          \* sweep_max_per_run
  Horizon,            \* the latest time a store clock can have reached
  UnreadableSession,  \* events whose closed session row cannot even be built
  NoSweep             \* no sweep is under way

ASSUME SweepAssumption ==
  /\ Margin \in Nat
  /\ Tolerance <= Margin
  /\ Chunk \in Nat \ {0}
  /\ MaxPerRun \in Nat \ {0}
  /\ Horizon \in Int
  /\ UnreadableSession \subseteq RefusedSession

VARIABLES
  cutoff,   \* of the sweep that runs, or NoSweep
  swept     \* sessions it has closed

sweepVars == <<cutoff, swept>>
allVars == <<vars, sweepVars>>

-----------------------------------------------------------------------------
Open == {a \in Actor : db.cursors[a] # NoCursor}

\* Open sessions whose last event says how far ingestion has got.
Current == {a \in Open : db.cursors[a].last <= Horizon}

\* latest_cursor_time
Latest == CHOOSE t \in {db.cursors[a].last : a \in Current} :
            \A a \in Current : db.cursors[a].last <= t

\* Mutant: without the slack for skew.
CutoffWithoutMargin == Latest - Timeout

\* sweep_cutoff
Cutoff == Latest - Timeout - Margin

\* idle_cursors, without its limit
Idle == {a \in Open : db.cursors[a].last < cutoff}

Least(S) == CHOOSE n \in S : \A k \in S : n <= k

\* idle_cursors: oldest first, up to the chunk and what is left of the run.
IsChunk(S) ==
  /\ S \subseteq Idle
  /\ \A a \in S, b \in Idle \ S : db.cursors[a].last <= db.cursors[b].last
  /\ Cardinality(S) = Least({Cardinality(Idle), Chunk, MaxPerRun - swept})

Holds(a, ids) == Ids(db.cursors[a].seq) \cap ids # {}

Readable(S) == {a \in S : ~Holds(a, UnreadableSession)}

\* upsert_sessions, delete_cursors
CloseAll(S) ==
  [db EXCEPT !.sessions = {s \in @ : \A a \in S : s.sid # db.cursors[a].sid}
                            \cup {Closed(a, db.cursors[a]) : a \in S},
             !.cursors = [a \in Actor |-> IF a \in S THEN NoCursor ELSE @[a]]]

-----------------------------------------------------------------------------
\* The cycle is "done": everything it released is below the committed offsets.
CycleDone ==
  /\ batch = {}
  /\ \E n \in 0 .. Len(log) : done = 1 .. n
  /\ Stored(db) \subseteq {log[i].id : i \in done}

StartSweep ==
  /\ CycleDone
  /\ cutoff = NoSweep
  /\ Current # {}
  /\ cutoff' = Cutoff
  /\ swept' = 0
  /\ UNCHANGED vars

EndSweep == cutoff' = NoSweep /\ swept' = 0

\* sweep_chunk in its transaction, and the loop's condition after it.
SweepChunk(S) ==
  /\ cutoff # NoSweep
  /\ IsChunk(S)
  /\ \A a \in Readable(S) : ~Holds(a, RefusedSession)
  /\ db' = CloseAll(Readable(S))
  /\ IF Readable(S) = {} \/ swept + Cardinality(Readable(S)) >= MaxPerRun
     THEN EndSweep
     ELSE swept' = swept + Cardinality(Readable(S)) /\ UNCHANGED cutoff
  /\ UNCHANGED <<log, done, dropped, batch, left, tx, failed, groupVars, runs>>

\* MySQL refuses a row of the chunk, a database error, a stop request or a crash.
SweepEnds ==
  /\ cutoff # NoSweep
  /\ EndSweep
  /\ UNCHANGED vars

SweepInit == Init /\ cutoff = NoSweep /\ swept = 0

SweepNext ==
  \/ cutoff = NoSweep /\ Next /\ UNCHANGED sweepVars
  \/ StartSweep
  \/ \E S \in SUBSET Actor : SweepChunk(S)
  \/ SweepEnds

SweepSpec == SweepInit /\ [][SweepNext]_allVars

-----------------------------------------------------------------------------
\* What a brand's tables say: the events, and the visits, closed or open, up to
\* the names of sessions.
Visits(d) == Content(d).events \cup
  UNION {{[s EXCEPT !.sid = @[1]] : s \in SessionsOf(d, a)} : a \in Actor}

\* SendOrdered, but for records with a bogus time in the future.
ClockOrdered ==
  \A i, j \in {k \in 1 .. Len(log) : log[k].at <= Horizon} :
    i < j /\ (\A k \in 1 .. j - 1 : log[k] # log[j]) => log[i].at <= log[j].at + Tolerance

\* "A swept session is exactly what the normal close would have written had the
\* actor returned later" (intent_session_sweep.py:8): with any sweeps between
\* the cycles, and any replays, the tables hold the visits that applying each
\* record once makes without a sweep, of records that replays cannot discard.
\* A bogus time in the future does not make live sessions look idle.
SweepTransparent ==
  ClockOrdered /\ NothingRefused /\ IdsNameMessages /\ NoneDiscarded =>
    \E n \in 0 .. Len(log) : done \subseteq 1 .. n /\ Visits(db) = Visits(Once[n])
=============================================================================
