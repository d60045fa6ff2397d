---------------------------- MODULE SessionWriter ----------------------------
(***************************************************************************)
(* The per-message writer (src/pipeline/intent_kafka_writer.py) with the   *)
(* session state machine it drives (intent_session_state.py), for one      *)
(* brand database (intent_kafka_store.py).                                 *)
(*                                                                         *)
(* A transaction takes the next records, applies them actor by actor, each *)
(* message and each actor group in a savepoint, and commits.  What may be  *)
(* lost is the commit of a partition's offsets that follows (IntentIngest  *)
(* says when): then its records come again, in batches that need not be    *)
(* cut at the same places.                                                 *)
(***************************************************************************)
EXTENDS Integers, Sequences, FiniteSets

CONSTANTS
  EventId,          \* event_id values
  Actor,            \* identities (actor_id, else client_id)
  NoActor,          \* a message without identity
  Product,          \* product ids of ATC messages
  NoProduct,        \* any other message
  Timeout,          \* SESSION_TIMEOUT
  Tolerance,        \* NEGATIVE_GAP_TOLERANCE_S
  Logs,             \* the records of the brand, in the order they are released
  RefusedEvent,     \* events whose row MySQL refuses
  RefusedSession,   \* events whose closed session row MySQL refuses
  RefusedCursor,    \* events whose actor's cursor row MySQL refuses
  BatchMax,         \* INTENT_EVENTS_BATCH
  MaxRuns,          \* bound: transactions that are begun
  NoCursor          \* the actor has no session (a missing or placeholder row)

\* occurred_at is a number of seconds.
Message == [id : EventId, actor : Actor \cup {NoActor},
            product : Product \cup {NoProduct}, at : Int]

ASSUME WriterAssumption ==
  /\ NoActor \notin Actor
  /\ NoProduct \notin Product
  /\ Timeout \in Nat
  /\ Tolerance \in Nat
  /\ Logs \subseteq Seq(Message)
  /\ RefusedEvent \subseteq EventId
  /\ RefusedSession \subseteq EventId
  /\ RefusedCursor \subseteq EventId
  /\ BatchMax \in Nat \ {0}
  /\ MaxRuns \in Nat
  /\ NoCursor \notin [sid : Nat \X Nat, start : Int, last : Int, seq : Seq(EventId)]

VARIABLES
  log,          \* the brand's records; fixed at the start
  db,           \* the committed database
  done,         \* records below their partition's committed offset
  dropped,      \* records quarantined
  batch,        \* records of the open transaction
  left,         \* those not applied yet
  tx,           \* the transaction's view of the database
  failed,       \* BrandResult.failed
  group,        \* actor whose group is being applied
  cur,          \* that actor's cursor in memory
  changed,      \* whether it has to be saved
  mark,         \* the database at the group's savepoint
  runs          \* transactions begun

dbVars == <<db, done, dropped>>
groupVars == <<group, cur, changed, mark>>
vars == <<log, dbVars, batch, left, tx, failed, groupVars, runs>>

-----------------------------------------------------------------------------
(* The session state machine *)

\* Mutant: a new session takes over the id of the one it closes.
ResolveKeepsId(c, at, fresh) ==
  IF c # NoCursor /\ at - c.last \in -Tolerance .. Timeout
  THEN [sid |-> c.sid, start |-> c.start, new |-> FALSE]
  ELSE [sid |-> IF c = NoCursor THEN fresh ELSE c.sid, start |-> at, new |-> TRUE]

\* A session id is a fresh uuid: the record and the transaction that made it.
\* resolve_timing: a gap above the timeout, or too far back, starts a session.
ResolveTiming(c, at, fresh) ==
  IF c = NoCursor \/ at - c.last > Timeout \/ at - c.last < -Tolerance
  THEN [sid |-> fresh, start |-> at, new |-> TRUE]
  ELSE [sid |-> c.sid, start |-> c.start, new |-> FALSE]

Later(s, t) == IF s > t THEN s ELSE t

\* Mutant: a tolerated late event moves the latest-event time back.
CommitBack(c, timing, m) ==
  [sid |-> timing.sid, start |-> timing.start, last |-> m.at,
   seq |-> IF timing.new THEN <<m.id>> ELSE Append(c.seq, m.id)]

\* commit_event: the cursor after a newly stored event.
CommitEvent(c, timing, m) ==
  [sid   |-> timing.sid,
   start |-> timing.start,
   last  |-> IF timing.new THEN m.at ELSE Later(c.last, m.at),
   seq   |-> IF timing.new THEN <<m.id>> ELSE Append(c.seq, m.id)]

\* closed_session_doc: the intent_sessions row a cursor becomes.
Closed(a, c) == [actor |-> a, sid |-> c.sid, start |-> c.start, end |-> c.last, seq |-> c.seq]

-----------------------------------------------------------------------------
(* The store *)

Ids(seq) == {seq[i] : i \in 1 .. Len(seq)}

\* claim_atc: per session and product, the first one wins.
Claimed(d, sid, p) == <<sid, p>> \in d.claims

Claim(d, sid, p) == [d EXCEPT !.claims = @ \cup {<<sid, p>>}]

\* insert_event: the event's row carries its session.
Insert(d, m, sid) == [d EXCEPT !.events = @ \cup {[id |-> m.id, actor |-> m.actor, sid |-> sid]}]

Stored(d) == {e.id : e \in d.events}

\* upsert_session: session_id is unique, a second write replaces the row.
UpsertSession(d, row) ==
  [d EXCEPT !.sessions = {s \in @ : s.sid # row.sid} \cup {row}]

-----------------------------------------------------------------------------
(* One message *)

\* Mutant: a duplicate row is taken for a newly stored event.
NeverDuplicate(d, m) == FALSE

\* insert_event of an event that is there already changes nothing.
IsDuplicate(d, m) == m.id \in Stored(d)

\* Mutant: what the message has already written stays.
KeepPart(before, during) == during

\* ROLLBACK TO SAVEPOINT
RolledBack(before, during) == before

\* _apply_one in its savepoint: the database and the cursor after a message,
\* and what became of it.
ApplyOne(d, c, m, fresh) ==
  LET t       == ResolveTiming(c, m.at, fresh)
      isAtc   == m.product # NoProduct
      claimed == IF isAtc THEN Claim(d, t.sid, m.product) ELSE d
      stored  == Insert(claimed, m, t.sid)
      closes  == m.actor # NoActor /\ t.new /\ c # NoCursor
      result(e, k, o) == [db |-> e, cursor |-> k, outcome |-> o]
  IN  IF isAtc /\ Claimed(d, t.sid, m.product) THEN result(d, c, "deduped")
      ELSE IF m.id \in RefusedEvent THEN result(RolledBack(d, claimed), c, "refused")
      ELSE IF IsDuplicate(d, m) THEN result(claimed, c, "duplicate")
      ELSE IF closes /\ Ids(c.seq) \cap RefusedSession # {}
           THEN result(RolledBack(d, stored), c, "refused")
      ELSE result(IF closes THEN UpsertSession(stored, Closed(m.actor, c)) ELSE stored,
                  IF m.actor = NoActor THEN c ELSE CommitEvent(c, t, m),
                  "applied")

-----------------------------------------------------------------------------
EmptyDb == [claims |-> {}, events |-> {}, sessions |-> {},
            cursors |-> [a \in Actor |-> NoCursor]]

Init ==
  /\ log \in Logs
  /\ db = EmptyDb
  /\ done = {}
  /\ dropped = {}
  /\ batch = {}
  /\ left = {}
  /\ tx = EmptyDb
  /\ failed = {}
  /\ group = NoActor
  /\ cur = NoCursor
  /\ changed = FALSE
  /\ mark = EmptyDb
  /\ runs = 0

\* Add-to-cart messages have a topic of their own.
SamePartition(i, j) == (log[i].product = NoProduct) <=> (log[j].product = NoProduct)

\* The records still to come, up to the i-th.
Upcoming(i) == (1 .. i) \ done

\* transaction(): the next records in release order.
Begin(i) ==
  /\ batch = {}
  /\ runs < MaxRuns
  /\ i \notin done
  /\ Cardinality(Upcoming(i)) <= BatchMax
  /\ batch' = Upcoming(i)
  /\ left' = batch'
  /\ tx' = db
  /\ runs' = runs + 1
  /\ UNCHANGED <<log, dbVars, failed, groupVars>>

\* Mutant: a rejected message counts as done.
FailedForgotten(i, outcome) == failed

\* BrandResult.failed after a message.
FailedWith(i, outcome) == IF outcome = "refused" THEN failed \cup {i} ELSE failed

OfActor(records, a) == {i \in records : log[i].actor = a}

FirstOf(i, records) == i \in records /\ \A j \in records : i <= j

\* A message without identity, in a session of its own.  These come first.
ApplyActorless(i) ==
  /\ FirstOf(i, OfActor(left, NoActor))
  /\ LET r == ApplyOne(tx, NoCursor, log[i], <<i, runs>>)
     IN  /\ tx' = r.db
         /\ failed' = FailedWith(i, r.outcome)
  /\ left' = left \ {i}
  /\ UNCHANGED <<log, dbVars, batch, groupVars, runs>>

\* get_cursor_for_update, under the group's savepoint.
OpenGroup(a) ==
  /\ group = NoActor
  /\ OfActor(left, NoActor) = {}
  /\ OfActor(left, a) # {}
  /\ group' = a
  /\ cur' = tx.cursors[a]
  /\ mark' = tx
  /\ UNCHANGED <<log, dbVars, batch, left, tx, failed, changed, runs>>

\* The next message of the group, under its own savepoint.
ApplyMessage(i) ==
  /\ group # NoActor
  /\ FirstOf(i, OfActor(left, group))
  /\ LET r == ApplyOne(tx, cur, log[i], <<i, runs>>)
     IN  /\ tx' = r.db
         /\ cur' = r.cursor
         /\ changed' = (changed \/ r.outcome = "applied")
         /\ failed' = FailedWith(i, r.outcome)
  /\ left' = left \ {i}
  /\ UNCHANGED <<log, dbVars, batch, group, mark, runs>>

CursorRefused == changed /\ Ids(cur.seq) \cap RefusedCursor # {}

\* save_cursor; a refused cursor row rolls the whole group back.
Saved ==
  IF CursorRefused THEN mark
  ELSE IF changed THEN [tx EXCEPT !.cursors[group] = cur]
  ELSE tx

\* Mutant: the whole batch is reported.
FailedByBatch == IF CursorRefused THEN batch ELSE failed

\* Mutant: records of other batches are reported too.
FailedByActor == IF CursorRefused THEN failed \cup OfActor(1 .. Len(log), group) ELSE failed

FailedByGroup == IF CursorRefused THEN failed \cup OfActor(batch, group) ELSE failed

GroupEnds ==
  /\ group' = NoActor
  /\ cur' = NoCursor
  /\ changed' = FALSE
  /\ mark' = EmptyDb

CloseGroup ==
  /\ group # NoActor
  /\ OfActor(left, group) = {}
  /\ tx' = Saved
  /\ failed' = FailedByGroup
  /\ GroupEnds
  /\ UNCHANGED <<log, dbVars, batch, left, runs>>

TransactionEnds ==
  /\ batch' = {}
  /\ left' = {}
  /\ tx' = EmptyDb
  /\ failed' = {}
  /\ GroupEnds
  /\ UNCHANGED <<log, runs>>

\* COMMIT, then the offsets: of each partition, those of a leading part of its
\* records, the rejected ones among them having been quarantined.
Commit(kept) ==
  /\ batch # {}
  /\ left = {}
  /\ group = NoActor
  /\ \A i \in kept, j \in batch : j < i /\ SamePartition(i, j) => j \in kept
  /\ db' = tx
  /\ done' = done \cup kept
  /\ dropped' = dropped \cup (failed \cap kept)
  /\ TransactionEnds

\* A crash, or an error that is not a data error: everything is rolled back.
Rollback ==
  /\ batch # {}
  /\ TransactionEnds
  /\ UNCHANGED dbVars

Next ==
  \/ \E i \in 1 .. Len(log) : Begin(i)
  \/ \E i \in left : ApplyActorless(i) \/ ApplyMessage(i)
  \/ \E a \in Actor : OpenGroup(a)
  \/ CloseGroup
  \/ \E kept \in SUBSET batch : Commit(kept)
  \/ Rollback

Spec == Init /\ [][Next]_vars

-----------------------------------------------------------------------------
SessionId == (1 .. Len(log)) \X (1 .. MaxRuns)

Cursor == [sid : SessionId, start : Int, last : Int, seq : Seq(EventId)] \cup {NoCursor}

Database ==
  [claims : SUBSET (SessionId \X Product),
   events : SUBSET [id : EventId, actor : Actor \cup {NoActor}, sid : SessionId],
   sessions : SUBSET [actor : Actor, sid : SessionId, start : Int, end : Int, seq : Seq(EventId)],
   cursors : [Actor -> Cursor]]

\* The writer's state is well typed.
TypeOK ==
  /\ log \in Seq(Message)
  /\ db \in Database
  /\ tx \in Database
  /\ mark \in Database
  /\ cur \in Cursor
  /\ group \in Actor \cup {NoActor}
  /\ changed \in BOOLEAN
  /\ batch \subseteq 1 .. Len(log)
  /\ left \subseteq batch
  /\ failed \subseteq batch
  /\ dropped \subseteq done
  /\ done \subseteq 1 .. Len(log)
  /\ runs \in 0 .. MaxRuns

\* All sessions of an actor in a database: the closed ones and the open one.
SessionsOf(d, a) ==
  {s \in d.sessions : s.actor = a} \cup
    (IF d.cursors[a] = NoCursor THEN {} ELSE {Closed(a, d.cursors[a])})

\* Every stored event of an identified actor is a step of exactly one session,
\* the one its row names, and exactly once; a session has no other steps, and
\* ends no earlier than it starts.  Holds after every commit, whatever was
\* rejected: an event whose session is lost, or is counted twice, would change
\* every number computed from the sessions.
EventsInSessions ==
  /\ \A e \in db.events : e.actor # NoActor =>
       \E s \in SessionsOf(db, e.actor) :
         s.sid = e.sid /\ Cardinality({n \in 1 .. Len(s.seq) : s.seq[n] = e.id}) = 1
  /\ \A a \in Actor : \A s \in SessionsOf(db, a) :
       /\ s.start <= s.end
       /\ \A t \in SessionsOf(db, a) : s.sid = t.sid => s = t
       /\ \A n \in 1 .. Len(s.seq) : [id |-> s.seq[n], actor |-> a, sid |-> s.sid] \in db.events

\* A session written to intent_sessions is final: no later event joins it and
\* no later write changes its row.  The rollups and the scoring read closed
\* sessions as soon as they appear.
ClosedIsFinal ==
  [][/\ db.sessions \subseteq db'.sessions
     /\ \A s \in db.sessions : \A e \in db'.events : e.sid = s.sid => e \in db.events]_vars

\* What becomes of a message whose offset is committed: it is stored, or
\* quarantined, or it is an add-to-cart that repeats one its actor has stored.
NothingVanishes ==
  \A i \in done :
    \/ log[i].id \in Stored(db)
    \/ i \in dropped
    \/ \E e \in db.events, j \in 1 .. Len(log) :
         /\ e.id = log[j].id
         /\ log[j].actor = log[i].actor
         /\ log[j].product = log[i].product
         /\ log[i].product # NoProduct

\* Nobody's records are quarantined but those MySQL refuses, and those of an
\* actor whose closed session or cursor it refuses.
OnlyRefusedDropped ==
  \A i \in dropped :
    \/ log[i].id \in RefusedEvent
    \/ \E j \in 1 .. Len(log) : log[j].actor = log[i].actor
                                 /\ log[j].id \in RefusedSession \cup RefusedCursor

\* Every record first comes in send order, give or take the tolerance.
SendOrdered ==
  \A i, j \in 1 .. Len(log) :
    i < j /\ (\A k \in 1 .. j - 1 : log[k] # log[j]) => log[i].at <= log[j].at + Tolerance

\* Records with one event id are one message, published again.
IdsNameMessages == \A i, j \in 1 .. Len(log) : log[i].id = log[j].id => log[i] = log[j]

\* After t the actor sends nothing for longer than the timeout.
Pause(a, t) == \A k \in OfActor(1 .. Len(log), a) : log[k].at <= t \/ log[k].at > t + Timeout

\* No pause of the actor lies between the two times.
NoPause(a, s, t) == \A g \in {log[k].at : k \in 1 .. Len(log)} : Pause(a, g) => (s <= g <=> t <= g)

\* No visitor puts one product twice into the cart without a pause between.
NoneDiscarded ==
  \A i, j \in {k \in 1 .. Len(log) : log[k].id \notin RefusedEvent} :
    /\ log[i].actor = log[j].actor /\ log[i].actor # NoActor
    /\ log[i].product = log[j].product /\ log[i].product # NoProduct
    /\ NoPause(log[i].actor, log[i].at, log[j].at)
    => log[i].id = log[j].id

\* MySQL refuses no session or cursor of whose messages are published again.
RefusedOnce ==
  \A i, j, k \in 1 .. Len(log) :
    i # j /\ log[i].id = log[j].id /\ log[k].actor = log[i].actor =>
      log[k].id \notin RefusedSession \cup RefusedCursor

\* Logs that replays and refusals cannot bring out of order.
WellSent == SendOrdered /\ IdsNameMessages /\ NoneDiscarded /\ RefusedOnce

\* An add-to-cart is discarded only if its session has one of that product: who
\* claimed it was stored there, also after replays and refused rows.  This is so
\* of well sent records.
ClaimsBacked ==
  WellSent =>
    \A a \in Actor : \A s \in SessionsOf(db, a) : \A p \in Product :
      <<s.sid, p>> \in db.claims =>
        \E n \in 1 .. Len(s.seq), i \in 1 .. Len(log) :
          log[i].id = s.seq[n] /\ log[i].product = p

StepsOf(s) == {i \in 1 .. Len(log) : log[i].id \in Ids(s.seq)}

\* When the records are well sent, one of any two sessions of an actor starts
\* more than the timeout after every event of the other: no visit is cut in two,
\* no two visits are merged.
SessionsApart ==
  WellSent =>
    \A a \in Actor : \A s, t \in SessionsOf(db, a) :
      \/ s = t
      \/ \A i \in StepsOf(s) : t.start - log[i].at > Timeout
      \/ \A i \in StepsOf(t) : s.start - log[i].at > Timeout

-----------------------------------------------------------------------------
(* Replaying *)

\* The database and cursors after the first n records, each applied once.
Once[n \in 0 .. Len(log)] ==
  IF n = 0 THEN EmptyDb
  ELSE LET d == Once[n - 1]
           m == log[n]
           r == ApplyOne(d, IF m.actor = NoActor THEN NoCursor ELSE d.cursors[m.actor], m, <<n, 1>>)
       IN  IF m.actor = NoActor THEN r.db ELSE [r.db EXCEPT !.cursors[m.actor] = r.cursor]

\* A database up to the names of its sessions, without the claims of add-to-cart
\* messages that were discarded as duplicates.
Content(d) ==
  [events   |-> {[e EXCEPT !.sid = @[1]] : e \in d.events},
   sessions |-> {[s EXCEPT !.sid = @[1]] : s \in d.sessions},
   cursors  |-> [a \in Actor |-> IF d.cursors[a] = NoCursor THEN NoCursor
                                 ELSE [d.cursors[a] EXCEPT !.sid = @[1]]]]

\* MySQL refuses nothing of the log.
NothingRefused ==
  \A i \in 1 .. Len(log) : log[i].id \notin RefusedEvent \cup RefusedSession \cup RefusedCursor

\* However often records are read again, and however the batches are cut, the
\* database holds what applying each record once, in order, gives: replaying a
\* log in send order, of which nothing is refused, is absorbed.
ReplayAbsorbed ==
  SendOrdered /\ NothingRefused =>
    \E n \in 0 .. Len(log) : done \subseteq 1 .. n /\ Content(db) = Content(Once[n])

=============================================================================
