---------------------------- MODULE SessionProofs ----------------------------
(***************************************************************************)
(* Theorems about SessionSweep, hence about the writer with and without    *)
(* sweeps: for any log, any timeout and tolerance, any way to cut batches  *)
(* and lose commits, and whatever MySQL refuses, the tables agree.  When   *)
(* the tolerance does not exceed the timeout, the visits of a well sent    *)
(* log are apart, its claims are backed, and of a log of which nothing is  *)
(* refused or discarded the tables hold the visits that applying each      *)
(* record once would make, whatever is read again or swept.                *)
(***************************************************************************)
EXTENDS SessionSweep, TLAPS, FiniteSetTheorems, WellFoundedInduction

-----------------------------------------------------------------------------
(* What the tables hold, for a log l and the session ids M made so far *)

\* Cursors and databases with session ids from X.
CursorOver(X) == [sid : X, start : Int, last : Int, seq : Seq(EventId)] \cup {NoCursor}

DbOver(X) ==
  [claims : SUBSET (X \X Product),
   events : SUBSET [id : EventId, actor : Actor \cup {NoActor}, sid : X],
   sessions : SUBSET [actor : Actor, sid : X, start : Int, end : Int, seq : Seq(EventId)],
   cursors : [Actor -> CursorOver(X)]]

\* The sessions of an actor, for the rows of closed sessions and the cursors.
Rows(S, K, a) ==
  {s \in S : s.actor = a} \cup (IF K[a] = NoCursor THEN {} ELSE {Closed(a, K[a])})

\* The sequence has the event once.
HasOnce(seq, id) ==
  \E n \in 1 .. Len(seq) : seq[n] = id /\ \A k \in 1 .. Len(seq) : seq[k] = id => k = n

\* Open sessions: each was made for a record of its actor, consists of records
\* of its actor and is not written yet.
OpenSound(l, M, S, K) ==
  \A a \in Actor : K[a] # NoCursor =>
    /\ K[a].start <= K[a].last
    /\ K[a].sid \in M /\ l[K[a].sid[1]].actor = a
    /\ \A s \in S : s.sid # K[a].sid
    /\ \A n \in 1 .. Len(K[a].seq) :
         \E j \in 1 .. Len(l) : l[j].id = K[a].seq[n] /\ l[j].actor = a

\* Closed sessions: one row per id, made for its actor.
ClosedSound(l, M, S) ==
  \A s \in S :
    /\ s.start <= s.end
    /\ s.sid \in M /\ l[s.sid[1]].actor = s.actor
    /\ \A t \in S : s.sid = t.sid => s = t

\* The events are the steps of the sessions of identified actors.
StepsSound(E, S, K) ==
  /\ \A a \in Actor : \A s \in Rows(S, K, a) : \A n \in 1 .. Len(s.seq) :
       [id |-> s.seq[n], actor |-> a, sid |-> s.sid] \in E
  /\ \A e \in E : e.actor # NoActor =>
       \E s \in Rows(S, K, e.actor) : s.sid = e.sid /\ HasOnce(s.seq, e.id)

\* An actor that claimed a product has stored it, in that session or another.
ClaimsSound(l, C, E) ==
  \A claim \in C : \E e \in E, j \in 1 .. Len(l) :
    /\ e.id = l[j].id
    /\ l[j].product = claim[2]
    /\ l[j].actor = l[claim[1][1]].actor

\* The database d, its open sessions being K.
Sound(l, M, d, K) ==
  /\ OpenSound(l, M, d.sessions, K)
  /\ ClosedSound(l, M, d.sessions)
  /\ StepsSound(d.events, d.sessions, K)
  /\ ClaimsSound(l, d.claims, d.events)

\* d has what b has, and nothing new for the closed sessions of b.
Extends(b, d) ==
  /\ b.events \subseteq d.events
  /\ b.sessions \subseteq d.sessions
  /\ \A s \in b.sessions : \A e \in d.events : e.sid = s.sid => e \in b.events

\* The i-th record is stored, or repeats an add-to-cart its actor has stored.
Held(l, d, i) ==
  \/ l[i].id \in Stored(d)
  \/ \E e \in d.events, j \in 1 .. Len(l) :
       /\ e.id = l[j].id
       /\ l[j].actor = l[i].actor
       /\ l[j].product = l[i].product
       /\ l[i].product # NoProduct

\* MySQL refuses the record, or a session or cursor of its actor.
Refusable(l, i) ==
  \/ l[i].id \in RefusedEvent
  \/ \E j \in 1 .. Len(l) : l[j].actor = l[i].actor
                             /\ l[j].id \in RefusedSession \cup RefusedCursor

-----------------------------------------------------------------------------
(* One message *)

LEMMA CursorKind ==
  ASSUME NEW X, X \subseteq Nat \X Nat, NEW c \in CursorOver(X), c # NoCursor
  PROVE  c \in [sid : X, start : Int, last : Int, seq : Seq(EventId)]
BY DEF CursorOver

\* A record that could be a cursor is not NoCursor.
LEMMA NotNoCursor ==
  ASSUME NEW X, X \subseteq Nat \X Nat,
         NEW c \in [sid : X, start : Int, last : Int, seq : Seq(EventId)]
  PROVE  c # NoCursor
<1>1. c \in [sid : Nat \X Nat, start : Int, last : Int, seq : Seq(EventId)]
  OBVIOUS
<1> QED BY <1>1, WriterAssumption

\* A message joins the session of the cursor or begins one.
LEMMA ResolveIs ==
  ASSUME NEW c, NEW at, NEW fresh
  PROVE  LET t == ResolveTiming(c, at, fresh)
         IN  \/ c # NoCursor /\ ~t.new /\ t.sid = c.sid /\ t.start = c.start
             \/ t.new /\ t.sid = fresh /\ t.start = at
BY DEF ResolveTiming

\* The claims after a message that is not discarded.
ClaimsWith(d, sid, m) ==
  IF m.product # NoProduct THEN d.claims \cup {<<sid, m.product>>} ELSE d.claims

\* The closed sessions after a message that is stored.
SessionsWith(d, c, m, t) ==
  IF m.actor # NoActor /\ t.new /\ c # NoCursor
  THEN {s \in d.sessions : s.sid # c.sid} \cup {Closed(m.actor, c)}
  ELSE d.sessions

Deduped(d, c, m, t, r) ==
  /\ r.outcome = "deduped" /\ r.db = d /\ r.cursor = c
  /\ m.product # NoProduct /\ <<t.sid, m.product>> \in d.claims

Refused(d, c, m, t, r) ==
  /\ r.outcome = "refused" /\ r.db = d /\ r.cursor = c
  /\ \/ m.id \in RefusedEvent
     \/ m.actor # NoActor /\ c # NoCursor /\ Ids(c.seq) \cap RefusedSession # {}

Duplicate(d, c, m, t, r) ==
  /\ r.outcome = "duplicate" /\ r.cursor = c /\ m.id \in Stored(d)
  /\ r.db = [claims |-> ClaimsWith(d, t.sid, m), events |-> d.events,
             sessions |-> d.sessions, cursors |-> d.cursors]

Applied(d, c, m, t, r) ==
  /\ r.outcome = "applied" /\ m.id \notin Stored(d)
  /\ r.db = [claims |-> ClaimsWith(d, t.sid, m),
             events |-> d.events \cup {[id |-> m.id, actor |-> m.actor, sid |-> t.sid]},
             sessions |-> SessionsWith(d, c, m, t), cursors |-> d.cursors]
  /\ r.cursor = IF m.actor = NoActor THEN c ELSE CommitEvent(c, t, m)

\* _apply_one, case by case.
LEMMA ApplyIs ==
  ASSUME NEW X, NEW d \in DbOver(X), NEW c, NEW m \in Message, NEW fresh
  PROVE  LET r == ApplyOne(d, c, m, fresh)
             t == ResolveTiming(c, m.at, fresh)
         IN  Deduped(d, c, m, t, r) \/ Refused(d, c, m, t, r)
               \/ Duplicate(d, c, m, t, r) \/ Applied(d, c, m, t, r)
<1> DEFINE t == ResolveTiming(c, m.at, fresh)
           claimed == IF m.product # NoProduct THEN Claim(d, t.sid, m.product) ELSE d
           stored == Insert(claimed, m, t.sid)
           closes == m.actor # NoActor /\ t.new /\ c # NoCursor
           r == ApplyOne(d, c, m, fresh)
<1>1. d = [claims |-> d.claims, events |-> d.events, sessions |-> d.sessions,
           cursors |-> d.cursors]
  BY DEF DbOver
<1>2. claimed = [claims |-> ClaimsWith(d, t.sid, m), events |-> d.events,
                 sessions |-> d.sessions, cursors |-> d.cursors]
  <2> HIDE DEF t
  <2> QED BY <1>1 DEF Claim, ClaimsWith
<1>3. stored = [claims |-> ClaimsWith(d, t.sid, m),
                events |-> d.events \cup {[id |-> m.id, actor |-> m.actor, sid |-> t.sid]},
                sessions |-> d.sessions, cursors |-> d.cursors]
  <2> HIDE DEF t, claimed
  <2> QED BY <1>2 DEF Insert
<1>4. UpsertSession(stored, Closed(m.actor, c)) =
        [claims |-> ClaimsWith(d, t.sid, m),
         events |-> d.events \cup {[id |-> m.id, actor |-> m.actor, sid |-> t.sid]},
         sessions |-> {s \in d.sessions : s.sid # c.sid} \cup {Closed(m.actor, c)},
         cursors |-> d.cursors]
  <2> DEFINE row == Closed(m.actor, c)
  <2>1. row.sid = c.sid
    BY DEF Closed
  <2>2. UpsertSession(stored, row) =
          [stored EXCEPT !.sessions = {s \in stored.sessions : s.sid # row.sid} \cup {row}]
    BY DEF UpsertSession
  <2>3. stored.sessions = d.sessions
    <3> HIDE DEF stored
    <3> QED BY <1>3
  <2> HIDE DEF t, claimed, stored, row
  <2>4. UpsertSession(stored, row) =
          [claims |-> ClaimsWith(d, t.sid, m),
           events |-> d.events \cup {[id |-> m.id, actor |-> m.actor, sid |-> t.sid]},
           sessions |-> {s \in d.sessions : s.sid # c.sid} \cup {row},
           cursors |-> d.cursors]
    BY <1>3, <2>1, <2>2, <2>3
  <2> QED BY <2>4 DEF row
<1>5. r = IF m.product # NoProduct /\ Claimed(d, t.sid, m.product)
            THEN [db |-> d, cursor |-> c, outcome |-> "deduped"]
          ELSE IF m.id \in RefusedEvent
            THEN [db |-> RolledBack(d, claimed), cursor |-> c, outcome |-> "refused"]
          ELSE IF IsDuplicate(d, m)
            THEN [db |-> claimed, cursor |-> c, outcome |-> "duplicate"]
          ELSE IF closes /\ Ids(c.seq) \cap RefusedSession # {}
            THEN [db |-> RolledBack(d, stored), cursor |-> c, outcome |-> "refused"]
          ELSE [db |-> IF closes THEN UpsertSession(stored, Closed(m.actor, c)) ELSE stored,
                cursor |-> IF m.actor = NoActor THEN c ELSE CommitEvent(c, t, m),
                outcome |-> "applied"]
  BY DEF ApplyOne
<1> HIDE DEF r, t, claimed, stored
<1>6. CASE m.product # NoProduct /\ Claimed(d, t.sid, m.product)
  <2>1. r = [db |-> d, cursor |-> c, outcome |-> "deduped"]
    BY <1>5, <1>6
  <2>2. Deduped(d, c, m, t, r)
    BY <1>6, <2>1 DEF Deduped, Claimed
  <2> QED BY <2>2 DEF r, t
<1>7. CASE /\ ~(m.product # NoProduct /\ Claimed(d, t.sid, m.product))
           /\ m.id \in RefusedEvent
  <2>1. r = [db |-> d, cursor |-> c, outcome |-> "refused"]
    BY <1>5, <1>7 DEF RolledBack
  <2>2. Refused(d, c, m, t, r)
    BY <1>7, <2>1 DEF Refused
  <2> QED BY <2>2 DEF r, t
<1>8. CASE /\ ~(m.product # NoProduct /\ Claimed(d, t.sid, m.product))
           /\ m.id \notin RefusedEvent
           /\ IsDuplicate(d, m)
  <2>1. r = [db |-> claimed, cursor |-> c, outcome |-> "duplicate"]
    BY <1>5, <1>8
  <2>2. Duplicate(d, c, m, t, r)
    BY <1>2, <1>8, <2>1 DEF Duplicate, IsDuplicate
  <2> QED BY <2>2 DEF r, t
<1>9. CASE /\ ~(m.product # NoProduct /\ Claimed(d, t.sid, m.product))
           /\ m.id \notin RefusedEvent
           /\ ~IsDuplicate(d, m)
           /\ closes /\ Ids(c.seq) \cap RefusedSession # {}
  <2>1. r = [db |-> d, cursor |-> c, outcome |-> "refused"]
    BY <1>5, <1>9 DEF RolledBack
  <2>2. Refused(d, c, m, t, r)
    BY <1>9, <2>1 DEF Refused
  <2> QED BY <2>2 DEF r, t
<1>10. CASE /\ ~(m.product # NoProduct /\ Claimed(d, t.sid, m.product))
            /\ m.id \notin RefusedEvent
            /\ ~IsDuplicate(d, m)
            /\ ~(closes /\ Ids(c.seq) \cap RefusedSession # {})
  <2>1. r = [db |-> IF closes THEN UpsertSession(stored, Closed(m.actor, c)) ELSE stored,
             cursor |-> IF m.actor = NoActor THEN c ELSE CommitEvent(c, t, m),
             outcome |-> "applied"]
    BY <1>5, <1>10
  <2>2. r.db = [claims |-> ClaimsWith(d, t.sid, m),
                events |-> d.events \cup {[id |-> m.id, actor |-> m.actor, sid |-> t.sid]},
                sessions |-> SessionsWith(d, c, m, t), cursors |-> d.cursors]
    BY <1>3, <1>4, <2>1 DEF SessionsWith
  <2>3. Applied(d, c, m, t, r)
    BY <1>10, <2>1, <2>2 DEF Applied, IsDuplicate
  <2> QED BY <2>3 DEF r, t
<1> QED BY <1>6, <1>7, <1>8, <1>9, <1>10
-----------------------------------------------------------------------------
(* A sound database stays sound when more ids have been made *)

LEMMA SoundGrows ==
  ASSUME NEW l, NEW M, NEW M2, M \subseteq M2, NEW d, NEW K, Sound(l, M, d, K)
  PROVE  Sound(l, M2, d, K)
<1>1. OpenSound(l, M2, d.sessions, K)
  BY DEF Sound, OpenSound
<1>2. ClosedSound(l, M2, d.sessions)
  BY DEF Sound, ClosedSound
<1> QED BY <1>1, <1>2 DEF Sound

\* What is stored once stays accounted for.
LEMMA HeldGrows ==
  ASSUME NEW l, NEW d, NEW e, d.events \subseteq e.events, NEW i, Held(l, d, i)
  PROVE  Held(l, e, i)
<1>1. Stored(d) \subseteq Stored(e)
  BY DEF Stored
<1> QED BY <1>1 DEF Held

\* A message is rejected only for a row that MySQL refuses.
LEMMA ApplyRefusable ==
  ASSUME NEW l, NEW M, NEW d, NEW K, Sound(l, M, d, K),
         NEW i \in 1 .. Len(l), l[i].actor \in Actor, NEW t, NEW r,
         Refused(d, K[l[i].actor], l[i], t, r)
  PROVE  Refusable(l, i)
<1>1. CASE l[i].id \in RefusedEvent
  BY <1>1 DEF Refusable
<1>2. CASE K[l[i].actor] # NoCursor /\ Ids(K[l[i].actor].seq) \cap RefusedSession # {}
  <2>1. PICK id \in Ids(K[l[i].actor].seq) : id \in RefusedSession
    BY <1>2
  <2>2. PICK a \in Actor : a = l[i].actor
    OBVIOUS
  <2>3. OpenSound(l, M, d.sessions, K) /\ K[a] # NoCursor /\ id \in Ids(K[a].seq)
    BY <1>2, <2>1, <2>2 DEF Sound
  <2>4. \E j \in 1 .. Len(l) : l[j].id = id /\ l[j].actor = a
    BY <2>3 DEF OpenSound, Ids
  <2> QED BY <2>1, <2>2, <2>4 DEF Refusable
<1> QED BY <1>1, <1>2 DEF Refused

\* A message that is not rejected is stored, or repeats an add-to-cart.
LEMMA ApplyHeld ==
  ASSUME NEW l, NEW M, NEW d, NEW K, Sound(l, M, d, K),
         NEW i \in 1 .. Len(l), NEW c, NEW t, NEW r,
         l[t.sid[1]].actor = l[i].actor,
         \/ Deduped(d, c, l[i], t, r)
         \/ Duplicate(d, c, l[i], t, r)
         \/ Applied(d, c, l[i], t, r)
  PROVE  Held(l, r.db, i)
<1>1. CASE Deduped(d, c, l[i], t, r)
  <2>1. <<t.sid, l[i].product>> \in d.claims /\ l[i].product # NoProduct /\ r.db = d
    BY <1>1 DEF Deduped
  <2>2. PICK claim : claim = <<t.sid, l[i].product>>
    OBVIOUS
  <2>3. PICK e \in d.events, j \in 1 .. Len(l) :
          /\ e.id = l[j].id /\ l[j].product = claim[2]
          /\ l[j].actor = l[claim[1][1]].actor
    BY <2>1, <2>2 DEF Sound, ClaimsSound
  <2>4. claim[2] = l[i].product /\ claim[1] = t.sid
    BY <2>2
  <2> QED BY <2>1, <2>3, <2>4 DEF Held
<1>2. CASE Duplicate(d, c, l[i], t, r)
  BY <1>2 DEF Duplicate, Held, Stored
<1>3. CASE Applied(d, c, l[i], t, r)
  <2>1. [id |-> l[i].id, actor |-> l[i].actor, sid |-> t.sid] \in r.db.events
    BY <1>3 DEF Applied
  <2> QED BY <2>1 DEF Held, Stored
<1> QED BY <1>1, <1>2, <1>3

-----------------------------------------------------------------------------
(* A message keeps a database sound *)

\* The claims of a message that is stored, now or before.
LEMMA ClaimsKept ==
  ASSUME NEW l, NEW d, ClaimsSound(l, d.claims, d.events), NEW i \in 1 .. Len(l),
         NEW sid, l[sid[1]].actor = l[i].actor,
         NEW E, d.events \subseteq E, \E e \in E : e.id = l[i].id
  PROVE  ClaimsSound(l, ClaimsWith(d, sid, l[i]), E)
<1> SUFFICES ASSUME NEW claim \in ClaimsWith(d, sid, l[i])
             PROVE  \E e \in E, j \in 1 .. Len(l) :
                      /\ e.id = l[j].id
                      /\ l[j].product = claim[2]
                      /\ l[j].actor = l[claim[1][1]].actor
  BY DEF ClaimsSound
<1>1. CASE claim \in d.claims
  BY <1>1 DEF ClaimsSound
<1>2. CASE claim = <<sid, l[i].product>>
  <2>1. claim[1] = sid /\ claim[2] = l[i].product
    BY <1>2
  <2> QED BY <2>1
<1> QED BY <1>1, <1>2 DEF ClaimsWith

\* An anonymous event changes no session.
LEMMA ActorlessSound ==
  ASSUME NEW l, NEW M, NEW d, NEW K, Sound(l, M, d, K),
         NEW i \in 1 .. Len(l), l[i].actor = NoActor,
         NEW t, l[t.sid[1]].actor = NoActor, NEW r,
         \/ Deduped(d, NoCursor, l[i], t, r)
         \/ Refused(d, NoCursor, l[i], t, r)
         \/ Duplicate(d, NoCursor, l[i], t, r)
         \/ Applied(d, NoCursor, l[i], t, r)
  PROVE  Sound(l, M, r.db, K)
<1>1. CASE r.db = d
  BY <1>1
<1>2. CASE Duplicate(d, NoCursor, l[i], t, r)
  <2>1. \E e \in d.events : e.id = l[i].id
    BY <1>2 DEF Duplicate, Stored
  <2>2. /\ r.db.claims = ClaimsWith(d, t.sid, l[i]) /\ r.db.events = d.events
        /\ r.db.sessions = d.sessions
    BY <1>2 DEF Duplicate
  <2>3. ClaimsSound(l, r.db.claims, r.db.events)
    BY <2>1, <2>2, ClaimsKept DEF Sound
  <2> QED BY <2>2, <2>3 DEF Sound
<1>3. CASE Applied(d, NoCursor, l[i], t, r)
  <2> DEFINE new == [id |-> l[i].id, actor |-> l[i].actor, sid |-> t.sid]
  <2>1. /\ r.db.claims = ClaimsWith(d, t.sid, l[i])
        /\ r.db.events = d.events \cup {new}
        /\ r.db.sessions = d.sessions
    BY <1>3 DEF Applied, SessionsWith
  <2>2. new.id = l[i].id /\ new.actor = NoActor
    OBVIOUS
  <2> HIDE DEF new
  <2>3. ClaimsSound(l, r.db.claims, r.db.events)
    <3>1. d.events \subseteq r.db.events /\ \E e \in r.db.events : e.id = l[i].id
      BY <2>1, <2>2
    <3>2. ClaimsSound(l, d.claims, d.events) /\ l[t.sid[1]].actor = l[i].actor
      BY DEF Sound
    <3>3. ClaimsSound(l, ClaimsWith(d, t.sid, l[i]), r.db.events)
      BY <3>1, <3>2, ClaimsKept, Zenon
    <3> QED BY <2>1, <3>3
  <2>4. StepsSound(r.db.events, r.db.sessions, K)
    BY <2>1, <2>2 DEF Sound, StepsSound
  <2> QED BY <2>1, <2>3, <2>4 DEF Sound
<1> QED BY <1>1, <1>2, <1>3 DEF Deduped, Refused
-----------------------------------------------------------------------------
(* A message of an identified actor *)

LEMMA HasOnceAlone ==
  ASSUME NEW id PROVE HasOnce(<<id>>, id)
BY DEF HasOnce

LEMMA HasOnceLast ==
  ASSUME NEW q \in Seq(EventId), NEW id \in EventId, \A n \in 1 .. Len(q) : q[n] # id
  PROVE  HasOnce(Append(q, id), id)
<1> DEFINE p == Append(q, id)
<1>1. Len(p) = Len(q) + 1 /\ p[Len(q) + 1] = id /\ \A n \in 1 .. Len(q) : p[n] = q[n]
  OBVIOUS
<1>2. Len(q) \in Nat
  OBVIOUS
<1> HIDE DEF p
<1>3. \A k \in 1 .. Len(p) : p[k] = id => k = Len(q) + 1
  <2> TAKE k \in 1 .. Len(p)
  <2>1. k \in 1 .. Len(q) \/ k = Len(q) + 1
    BY <1>1, <1>2
  <2> QED BY <1>1, <2>1
<1>4. Len(q) + 1 \in 1 .. Len(p)
  BY <1>1, <1>2
<1>5. HasOnce(p, id)
  BY <1>1, <1>3, <1>4 DEF HasOnce
<1> QED BY <1>5 DEF p

LEMMA HasOnceBefore ==
  ASSUME NEW q \in Seq(EventId), NEW id \in EventId, NEW x, x # id, HasOnce(q, x)
  PROVE  HasOnce(Append(q, id), x)
<1> DEFINE p == Append(q, id)
<1>1. Len(p) = Len(q) + 1 /\ p[Len(q) + 1] = id /\ \A n \in 1 .. Len(q) : p[n] = q[n]
  OBVIOUS
<1>2. Len(q) \in Nat
  OBVIOUS
<1> HIDE DEF p
<1>3. PICK n \in 1 .. Len(q) : q[n] = x /\ \A k \in 1 .. Len(q) : q[k] = x => k = n
  BY DEF HasOnce
<1>4. \A k \in 1 .. Len(p) : p[k] = x => k = n
  <2> TAKE k \in 1 .. Len(p)
  <2>1. k \in 1 .. Len(q) \/ k = Len(q) + 1
    BY <1>1, <1>2
  <2> QED BY <1>1, <1>3, <2>1
<1>5. n \in 1 .. Len(p) /\ p[n] = x
  BY <1>1, <1>2, <1>3
<1>6. HasOnce(p, x)
  BY <1>4, <1>5 DEF HasOnce
<1> QED BY <1>6 DEF p

\* The session after a newly stored event: the one before with a step more, or
\* a new one.
Committed(X, c, m, fresh, t, k) ==
  /\ k \in [sid : X, start : Int, last : Int, seq : Seq(EventId)]
  /\ k.sid = t.sid
  /\ \/ /\ c # NoCursor /\ ~t.new /\ k.sid = c.sid /\ k.start = c.start
        /\ c.last <= k.last /\ k.seq = Append(c.seq, m.id)
     \/ /\ t.new /\ k.sid = fresh /\ k.start = k.last
        /\ k.seq = <<m.id>>

\* commit_event gives that session.
LEMMA CommitIs ==
  ASSUME NEW X, X \subseteq Nat \X Nat, NEW c \in CursorOver(X), NEW m \in Message,
         NEW fresh \in X
  PROVE  LET t == ResolveTiming(c, m.at, fresh)
         IN  Committed(X, c, m, fresh, t, CommitEvent(c, t, m))
<1> DEFINE t == ResolveTiming(c, m.at, fresh)
           k == CommitEvent(c, t, m)
<1>1. m.id \in EventId /\ m.at \in Int
  BY DEF Message
<1>2. \/ c # NoCursor /\ ~t.new /\ t.sid = c.sid /\ t.start = c.start
      \/ t.new /\ t.sid = fresh /\ t.start = m.at
  BY ResolveIs
<1>3. k = [sid   |-> t.sid,
           start |-> t.start,
           last  |-> IF t.new THEN m.at ELSE Later(c.last, m.at),
           seq   |-> IF t.new THEN <<m.id>> ELSE Append(c.seq, m.id)]
  BY DEF CommitEvent
<1> HIDE DEF t, k
<1>4. CASE c # NoCursor /\ ~t.new /\ t.sid = c.sid /\ t.start = c.start
  <2>1. c \in [sid : X, start : Int, last : Int, seq : Seq(EventId)]
    BY <1>4, CursorKind
  <2>2. c.sid \in X /\ c.start \in Int /\ c.last \in Int /\ c.seq \in Seq(EventId)
    BY <2>1
  <2>3. Later(c.last, m.at) \in Int /\ c.last <= Later(c.last, m.at)
    BY <1>1, <2>2 DEF Later
  <2>4. k = [sid |-> c.sid, start |-> c.start, last |-> Later(c.last, m.at),
             seq |-> Append(c.seq, m.id)]
    BY <1>3, <1>4
  <2>5. Append(c.seq, m.id) \in Seq(EventId)
    BY <1>1, <2>2
  <2>6. k \in [sid : X, start : Int, last : Int, seq : Seq(EventId)]
    BY <2>2, <2>3, <2>4, <2>5
  <2>7. /\ k.sid = t.sid /\ k.sid = c.sid /\ k.start = c.start
        /\ c.last <= k.last /\ k.seq = Append(c.seq, m.id)
    BY <1>4, <2>3, <2>4
  <2>8. Committed(X, c, m, fresh, t, k)
    BY <1>4, <2>6, <2>7 DEF Committed
  <2> QED BY <2>8 DEF t, k
<1>5. CASE t.new /\ t.sid = fresh /\ t.start = m.at
  <2>1. k = [sid |-> fresh, start |-> m.at, last |-> m.at, seq |-> <<m.id>>]
    BY <1>3, <1>5
  <2>2. <<m.id>> \in Seq(EventId)
    BY <1>1
  <2>3. k \in [sid : X, start : Int, last : Int, seq : Seq(EventId)]
    BY <1>1, <2>1, <2>2
  <2>4. k.sid = t.sid /\ k.sid = fresh /\ k.start = k.last /\ k.seq = <<m.id>>
    BY <1>5, <2>1
  <2>5. Committed(X, c, m, fresh, t, k)
    BY <1>5, <2>3, <2>4 DEF Committed
  <2> QED BY <2>5 DEF t, k
<1> QED BY <1>2, <1>4, <1>5
\* A stored event of an identified actor keeps the database sound.
LEMMA AppliedSound ==
  ASSUME NEW X, X \subseteq Nat \X Nat, NEW l \in Seq(Message), NEW M,
         NEW d \in DbOver(X), NEW K \in [Actor -> CursorOver(X)], Sound(l, M, d, K),
         NEW i \in 1 .. Len(l), NEW a \in Actor, l[i].actor = a,
         NEW fresh \in X, fresh \notin M, fresh[1] = i, NEW r,
         Applied(d, K[a], l[i], ResolveTiming(K[a], l[i].at, fresh), r)
  PROVE  Sound(l, M \cup {fresh}, r.db, [K EXCEPT ![a] = r.cursor])
<1> DEFINE c == K[a]
           m == l[i]
           t == ResolveTiming(c, m.at, fresh)
           k == CommitEvent(c, t, m)
           new == [id |-> m.id, actor |-> m.actor, sid |-> t.sid]
           M2 == M \cup {fresh}
           E2 == r.db.events
           S2 == r.db.sessions
           K2 == [K EXCEPT ![a] = r.cursor]
           joins == /\ c # NoCursor /\ ~t.new /\ k.sid = c.sid /\ k.start = c.start
                    /\ c.last <= k.last /\ k.seq = Append(c.seq, m.id)
           begins == t.new /\ k.sid = fresh /\ k.start = k.last /\ k.seq = <<m.id>>
<1>1. /\ OpenSound(l, M, d.sessions, K) /\ ClosedSound(l, M, d.sessions)
      /\ StepsSound(d.events, d.sessions, K) /\ ClaimsSound(l, d.claims, d.events)
  BY DEF Sound
<1>2. m \in Message /\ m.actor = a /\ m.id \in EventId /\ a # NoActor
  <2>1. m \in Message
    OBVIOUS
  <2> QED BY <2>1, WriterAssumption DEF Message
<1>3. c \in CursorOver(X)
  OBVIOUS
<1>4. /\ k \in [sid : X, start : Int, last : Int, seq : Seq(EventId)]
      /\ k.sid = t.sid
      /\ joins \/ begins
  <2>1. Committed(X, c, m, fresh, t, k)
    <3> HIDE DEF m, c
    <3> QED BY <1>2, <1>3, CommitIs, Zenon
  <2> HIDE DEF m, c, t, k
  <2> QED BY <2>1 DEF Committed
<1>5. k # NoCursor
  BY <1>4, NotNoCursor
<1>6. /\ m.id \notin Stored(d)
      /\ r.db.claims = ClaimsWith(d, t.sid, m)
      /\ E2 = d.events \cup {new}
      /\ S2 = SessionsWith(d, c, m, t)
      /\ r.cursor = k
  BY <1>2 DEF Applied
<1>7. new.id = m.id /\ new.actor = a /\ new.sid = k.sid
  BY <1>2, <1>4
<1> HIDE DEF c, m, t, k, new
<1>8. S2 = d.sessions \cup (IF t.new /\ c # NoCursor THEN {Closed(a, c)} ELSE {})
  <2>1. \A s \in d.sessions : c # NoCursor => s.sid # c.sid
    BY <1>1 DEF OpenSound, c
  <2> QED BY <1>2, <1>6, <2>1 DEF SessionsWith
<1>9. K2[a] = k /\ \A b \in Actor \ {a} : K2[b] = K[b]
  BY <1>6
<1>10. c # NoCursor =>
         /\ c \in [sid : X, start : Int, last : Int, seq : Seq(EventId)]
         /\ c.start <= c.last /\ c.sid \in M /\ l[c.sid[1]].actor = a
         /\ \A s \in d.sessions : s.sid # c.sid
         /\ \A n \in 1 .. Len(c.seq) : \E j \in 1 .. Len(l) : l[j].id = c.seq[n] /\ l[j].actor = a
  <2>1. c # NoCursor => c \in [sid : X, start : Int, last : Int, seq : Seq(EventId)]
    BY <1>3, CursorKind
  <2> QED BY <1>1, <2>1 DEF OpenSound, c
<1>11. \A s \in S2 : s \in d.sessions \/ (t.new /\ c # NoCursor /\ s = Closed(a, c))
  BY <1>8
<1>12. LET z == Closed(a, c)
       IN  z.actor = a /\ z.sid = c.sid /\ z.start = c.start /\ z.end = c.last /\ z.seq = c.seq
  BY DEF Closed
<1>13. LET z == Closed(a, k)
       IN  z.actor = a /\ z.sid = k.sid /\ z.start = k.start /\ z.end = k.last /\ z.seq = k.seq
  BY DEF Closed
<1> HIDE DEF M2, S2, E2, K2
<1>14. M \subseteq M2 /\ fresh \in M2
  BY DEF M2
<1>15. l[k.sid[1]].actor = a /\ k.sid \in M2
  BY <1>2, <1>4, <1>10, <1>14 DEF m
<1>16. \A n \in 1 .. Len(k.seq) : \E j \in 1 .. Len(l) : l[j].id = k.seq[n] /\ l[j].actor = a
  <2>1. l[i].id = m.id /\ l[i].actor = a
    BY DEF m
  <2>2. CASE begins
    BY <2>1, <2>2
  <2>3. CASE joins
    <3> TAKE n \in 1 .. Len(k.seq)
    <3>1. c.seq \in Seq(EventId)
      BY <1>10, <2>3
    <3>2. (n \in 1 .. Len(c.seq) /\ k.seq[n] = c.seq[n]) \/ k.seq[n] = m.id
      BY <2>3, <3>1
    <3> QED BY <1>10, <2>1, <2>3, <3>2
  <2> QED BY <1>4, <2>2, <2>3
<1>17. ClosedSound(l, M2, S2)
  <2>1. ASSUME NEW s \in S2
        PROVE  s.start <= s.end /\ s.sid \in M2 /\ l[s.sid[1]].actor = s.actor
    <3>1. CASE s \in d.sessions
      BY <1>1, <1>14, <3>1 DEF ClosedSound
    <3>2. CASE t.new /\ c # NoCursor /\ s = Closed(a, c)
      BY <1>10, <1>12, <1>14, <3>2
    <3> QED BY <1>11, <3>1, <3>2
  <2>2. ASSUME NEW s \in S2, NEW u \in S2, s.sid = u.sid
        PROVE  s = u
    BY <1>1, <1>10, <1>11, <1>12, <2>2 DEF ClosedSound
  <2> QED BY <2>1, <2>2 DEF ClosedSound
<1>18. OpenSound(l, M2, S2, K2)
  <2>1. ASSUME NEW b \in Actor, b # a, K2[b] # NoCursor
        PROVE  /\ K2[b].start <= K2[b].last
               /\ K2[b].sid \in M2 /\ l[K2[b].sid[1]].actor = b
               /\ \A s \in S2 : s.sid # K2[b].sid
               /\ \A n \in 1 .. Len(K2[b].seq) :
                    \E j \in 1 .. Len(l) : l[j].id = K2[b].seq[n] /\ l[j].actor = b
    <3>1. K2[b] = K[b]
      BY <1>9, <2>1
    <3>2. \A s \in S2 : s.sid # K[b].sid
      BY <1>1, <1>10, <1>11, <1>12, <2>1, <3>1 DEF OpenSound
    <3> QED BY <1>1, <1>14, <2>1, <3>1, <3>2 DEF OpenSound
  <2>2. k.start <= k.last
    BY <1>4, <1>10
  <2>3. \A s \in S2 : s.sid # k.sid
    <3> TAKE s \in S2
    <3>1. CASE joins
      BY <1>10, <1>11, <3>1
    <3>2. CASE begins
      BY <1>1, <1>10, <1>11, <1>12, <3>2 DEF ClosedSound
    <3> QED BY <1>4, <3>1, <3>2
  <2>4. ASSUME NEW b \in Actor, b = a
        PROVE  /\ K2[b].start <= K2[b].last
               /\ K2[b].sid \in M2 /\ l[K2[b].sid[1]].actor = b
               /\ \A s \in S2 : s.sid # K2[b].sid
               /\ \A n \in 1 .. Len(K2[b].seq) :
                    \E j \in 1 .. Len(l) : l[j].id = K2[b].seq[n] /\ l[j].actor = b
    BY <1>9, <1>15, <1>16, <2>2, <2>3, <2>4
  <2> QED BY <2>1, <2>4 DEF OpenSound
<1>19. ClaimsSound(l, r.db.claims, E2)
  <2>1. d.events \subseteq E2 /\ \E e \in E2 : e.id = l[i].id
    BY <1>6, <1>7 DEF m
  <2>2. l[t.sid[1]].actor = l[i].actor
    BY <1>4, <1>15, <1>2 DEF m
  <2>3. ClaimsSound(l, ClaimsWith(d, t.sid, l[i]), E2)
    BY <1>1, <2>1, <2>2, ClaimsKept, Zenon
  <2> QED BY <1>6, <2>3 DEF m
<1>20. StepsSound(E2, S2, K2)
  <2>1. \A b \in Actor \ {a} : Rows(S2, K2, b) = Rows(d.sessions, K, b)
    <3> TAKE b \in Actor \ {a}
    <3>1. {s \in S2 : s.actor = b} = {s \in d.sessions : s.actor = b}
      BY <1>8, <1>12
    <3> QED BY <1>9, <3>1 DEF Rows
  <2>2. Rows(S2, K2, a) = {s \in S2 : s.actor = a} \cup {Closed(a, k)}
    BY <1>5, <1>9 DEF Rows
  <2>3. Rows(d.sessions, K, a) =
          {s \in d.sessions : s.actor = a} \cup (IF c = NoCursor THEN {} ELSE {Closed(a, c)})
    BY DEF Rows, c
  <2>5. \A s \in Rows(S2, K2, a) : s \in Rows(d.sessions, K, a) \/ s = Closed(a, k)
    BY <1>11, <1>12, <2>2, <2>3
  <2>6. \A s \in Rows(d.sessions, K, a) :
          s \in Rows(S2, K2, a) \/ (joins /\ c # NoCursor /\ s = Closed(a, c))
    <3> TAKE s \in Rows(d.sessions, K, a)
    <3>1. CASE s \in d.sessions /\ s.actor = a
      BY <1>8, <2>2, <3>1
    <3>2. CASE c # NoCursor /\ s = Closed(a, c)
      BY <1>4, <1>8, <1>12, <2>2, <3>2
    <3> QED BY <2>3, <3>1, <3>2
  <2>7. Closed(a, k) \in Rows(S2, K2, a)
    BY <2>2
  <2>8. \A b \in Actor : \A s \in Rows(d.sessions, K, b) : \A n \in 1 .. Len(s.seq) :
          [id |-> s.seq[n], actor |-> b, sid |-> s.sid] \in d.events
    BY <1>1 DEF StepsSound
  <2>9. c # NoCursor => Closed(a, c) \in Rows(d.sessions, K, a)
    BY <2>3
  <2>10. joins => c.seq \in Seq(EventId) /\ \A n \in 1 .. Len(c.seq) :
           [id |-> c.seq[n], actor |-> a, sid |-> c.sid] \in d.events /\ c.seq[n] # m.id
    <3> SUFFICES ASSUME joins, NEW n \in 1 .. Len(c.seq)
                 PROVE  /\ [id |-> c.seq[n], actor |-> a, sid |-> c.sid] \in d.events
                        /\ c.seq[n] # m.id
      BY <1>10
    <3>1. PICK z \in Rows(d.sessions, K, a) : z.seq = c.seq /\ z.sid = c.sid
      BY <1>12, <2>9
    <3>2. [id |-> c.seq[n], actor |-> a, sid |-> c.sid] \in d.events
      BY <2>8, <3>1
    <3> QED BY <1>6, <3>2 DEF Stored
  <2>11. \A n \in 1 .. Len(k.seq) : [id |-> k.seq[n], actor |-> a, sid |-> k.sid] \in E2
    <3>1. new = [id |-> m.id, actor |-> a, sid |-> k.sid] /\ new \in E2 /\ d.events \subseteq E2
      BY <1>2, <1>4, <1>6 DEF new
    <3>2. CASE begins
      BY <3>1, <3>2
    <3>3. CASE joins
      <4> TAKE n \in 1 .. Len(k.seq)
      <4>1. (n \in 1 .. Len(c.seq) /\ k.seq[n] = c.seq[n]) \/ k.seq[n] = m.id
        BY <2>10, <3>3
      <4> QED BY <2>10, <3>1, <3>3, <4>1
    <3> QED BY <1>4, <3>2, <3>3
  <2>12. ASSUME NEW b \in Actor, NEW s \in Rows(S2, K2, b), NEW n \in 1 .. Len(s.seq)
         PROVE  [id |-> s.seq[n], actor |-> b, sid |-> s.sid] \in E2
    <3>1. CASE s \in Rows(d.sessions, K, b)
      BY <1>6, <2>8, <3>1
    <3>2. CASE b = a /\ s = Closed(a, k)
      BY <1>13, <2>11, <3>2
    <3> QED BY <2>1, <2>5, <3>1, <3>2
  <2>13. HasOnce(k.seq, m.id)
    BY <1>2, <1>4, <2>10, HasOnceAlone, HasOnceLast
  <2>14. ASSUME NEW e \in E2, e.actor # NoActor
         PROVE  \E s \in Rows(S2, K2, e.actor) : s.sid = e.sid /\ HasOnce(s.seq, e.id)
    <3>1. CASE e = new
      BY <1>7, <1>13, <2>7, <2>13, <3>1
    <3>2. CASE e \in d.events
      <4>1. PICK s \in Rows(d.sessions, K, e.actor) : s.sid = e.sid /\ HasOnce(s.seq, e.id)
        BY <1>1, <2>14, <3>2 DEF StepsSound
      <4>2. e.actor \in Actor
        BY <2>14, <3>2 DEF DbOver
      <4>3. CASE e.actor # a
        BY <2>1, <4>1, <4>2, <4>3
      <4>4. CASE e.actor = a /\ s \in Rows(S2, K2, a)
        BY <4>1, <4>4
      <4>5. CASE e.actor = a /\ joins /\ c # NoCursor /\ s = Closed(a, c)
        <5>1. e.id # m.id
          BY <1>6, <3>2 DEF Stored
        <5>2. HasOnce(c.seq, e.id) /\ c.sid = e.sid
          BY <1>12, <4>1, <4>5
        <5>3. HasOnce(k.seq, e.id)
          BY <1>2, <2>10, <4>5, <5>1, <5>2, HasOnceBefore
        <5> QED BY <1>13, <2>7, <4>5, <5>2, <5>3
      <4> QED BY <2>6, <4>1, <4>3, <4>4, <4>5
    <3> QED BY <1>6, <3>1, <3>2
  <2> QED BY <2>12, <2>14 DEF StepsSound
<1>21. Sound(l, M2, r.db, K2)
  BY <1>17, <1>18, <1>19, <1>20 DEF Sound, E2, S2
<1> QED BY <1>21 DEF M2, K2, c
-----------------------------------------------------------------------------
(* What a message does, whatever becomes of it *)

\* The database and the cursors of the outcome are well typed.
LEMMA ApplyTypes ==
  ASSUME NEW X, X \subseteq Nat \X Nat, NEW d \in DbOver(X), NEW c \in CursorOver(X),
         NEW m \in Message, NEW fresh \in X
  PROVE  LET r == ApplyOne(d, c, m, fresh)
         IN  r.db \in DbOver(X) /\ r.cursor \in CursorOver(X) /\ r.db.cursors = d.cursors
<1> DEFINE t == ResolveTiming(c, m.at, fresh)
           r == ApplyOne(d, c, m, fresh)
<1>1. /\ m.id \in EventId /\ m.actor \in Actor \cup {NoActor} /\ m.product \in Product \cup {NoProduct}
      /\ d.claims \subseteq X \X Product
      /\ d.events \subseteq [id : EventId, actor : Actor \cup {NoActor}, sid : X]
      /\ d.sessions \subseteq [actor : Actor, sid : X, start : Int, end : Int, seq : Seq(EventId)]
      /\ d.cursors \in [Actor -> CursorOver(X)]
  BY DEF DbOver, Message
<1>2. t.sid \in X
  <2>1. \/ c # NoCursor /\ t.sid = c.sid
        \/ t.sid = fresh
    BY ResolveIs
  <2>2. c # NoCursor => c.sid \in X
    BY CursorKind
  <2> HIDE DEF t
  <2> QED BY <2>1, <2>2
<1>3. Deduped(d, c, m, t, r) \/ Refused(d, c, m, t, r)
        \/ Duplicate(d, c, m, t, r) \/ Applied(d, c, m, t, r)
  BY ApplyIs, Zenon
<1>4. CommitEvent(c, t, m) \in CursorOver(X)
  <2>1. Committed(X, c, m, fresh, t, CommitEvent(c, t, m))
    BY CommitIs, Zenon
  <2> HIDE DEF t
  <2> QED BY <2>1 DEF Committed, CursorOver
<1> HIDE DEF t, r
<1>5. ClaimsWith(d, t.sid, m) \subseteq X \X Product
  BY <1>1, <1>2 DEF ClaimsWith
<1>6. SessionsWith(d, c, m, t) \subseteq
        [actor : Actor, sid : X, start : Int, end : Int, seq : Seq(EventId)]
  <2>1. CASE m.actor # NoActor /\ t.new /\ c # NoCursor
    <3>1. c \in [sid : X, start : Int, last : Int, seq : Seq(EventId)] /\ m.actor \in Actor
      BY <1>1, <2>1, CursorKind
    <3>2. Closed(m.actor, c) \in [actor : Actor, sid : X, start : Int, end : Int, seq : Seq(EventId)]
      BY <3>1 DEF Closed
    <3> QED BY <1>1, <2>1, <3>2 DEF SessionsWith
  <2>2. CASE ~(m.actor # NoActor /\ t.new /\ c # NoCursor)
    BY <1>1, <2>2 DEF SessionsWith
  <2> QED BY <2>1, <2>2
<1>7. [id |-> m.id, actor |-> m.actor, sid |-> t.sid]
        \in [id : EventId, actor : Actor \cup {NoActor}, sid : X]
  BY <1>1, <1>2
<1>8. CASE Deduped(d, c, m, t, r) \/ Refused(d, c, m, t, r)
  <2>1. r.db = d /\ r.cursor = c
    BY <1>8 DEF Deduped, Refused
  <2> QED BY <2>1 DEF r
<1>9. CASE Duplicate(d, c, m, t, r)
  <2>1. /\ r.cursor = c
        /\ r.db = [claims |-> ClaimsWith(d, t.sid, m), events |-> d.events,
                   sessions |-> d.sessions, cursors |-> d.cursors]
    BY <1>9 DEF Duplicate
  <2>2. r.db \in DbOver(X) /\ r.db.cursors = d.cursors
    BY <1>1, <1>5, <2>1 DEF DbOver
  <2> QED BY <2>1, <2>2 DEF r
<1>10. CASE Applied(d, c, m, t, r)
  <2>1. /\ r.cursor = IF m.actor = NoActor THEN c ELSE CommitEvent(c, t, m)
        /\ r.db = [claims |-> ClaimsWith(d, t.sid, m),
                   events |-> d.events \cup {[id |-> m.id, actor |-> m.actor, sid |-> t.sid]},
                   sessions |-> SessionsWith(d, c, m, t), cursors |-> d.cursors]
    BY <1>10 DEF Applied
  <2>2. r.db \in DbOver(X) /\ r.db.cursors = d.cursors
    BY <1>1, <1>5, <1>6, <1>7, <2>1 DEF DbOver
  <2>3. r.cursor \in CursorOver(X)
    BY <1>4, <2>1
  <2> QED BY <2>2, <2>3 DEF r
<1> QED BY <1>3, <1>8, <1>9, <1>10

\* A message adds nothing to a session that is closed, and takes nothing away.
LEMMA ApplyExtends ==
  ASSUME NEW d, NEW b, Extends(b, d), NEW c, NEW m, NEW t, NEW r,
         \A s \in d.sessions : s.sid # t.sid /\ (c = NoCursor \/ s.sid # c.sid),
         \/ Deduped(d, c, m, t, r)
         \/ Refused(d, c, m, t, r)
         \/ Duplicate(d, c, m, t, r)
         \/ Applied(d, c, m, t, r)
  PROVE  Extends(b, r.db) /\ d.events \subseteq r.db.events
<1>1. CASE r.db = d
  BY <1>1
<1>2. CASE Duplicate(d, c, m, t, r)
  <2>1. r.db.events = d.events /\ r.db.sessions = d.sessions
    BY <1>2 DEF Duplicate
  <2> QED BY <2>1 DEF Extends
<1>3. CASE Applied(d, c, m, t, r)
  <2> DEFINE new == [id |-> m.id, actor |-> m.actor, sid |-> t.sid]
  <2>1. /\ r.db.events = d.events \cup {new}
        /\ r.db.sessions = SessionsWith(d, c, m, t)
    BY <1>3 DEF Applied
  <2>2. new.sid = t.sid
    OBVIOUS
  <2> HIDE DEF new
  <2>3. d.sessions \subseteq r.db.sessions
    BY <2>1 DEF SessionsWith
  <2>4. Extends(b, r.db)
    BY <2>1, <2>2, <2>3 DEF Extends
  <2> QED BY <2>1, <2>4
<1> QED BY <1>1, <1>2, <1>3 DEF Deduped, Refused

\* The database is sound after the message, has what b had, and accounts for it.
Accounted(l, M, b, d, K, i, r) ==
  /\ Sound(l, M, r.db, K)
  /\ Extends(b, r.db)
  /\ d.events \subseteq r.db.events
  /\ IF r.outcome = "refused" THEN Refusable(l, i) ELSE Held(l, r.db, i)

\* The same with the cursor of the actor a; it is saved if the message was applied.
Treated(l, M, b, d, K, a, i, fresh, r) ==
  /\ Accounted(l, M \cup {fresh}, b, d, [K EXCEPT ![a] = r.cursor], i, r)
  /\ r.outcome # "applied" => r.cursor = K[a]
  /\ r.outcome = "applied" => r.cursor # NoCursor

\* _apply_one for an identified actor.
LEMMA MessageTreated ==
  ASSUME NEW X, X \subseteq Nat \X Nat, NEW l \in Seq(Message), NEW M,
         NEW d \in DbOver(X), NEW K \in [Actor -> CursorOver(X)], Sound(l, M, d, K),
         NEW b, Extends(b, d),
         NEW i \in 1 .. Len(l), NEW a \in Actor, l[i].actor = a,
         NEW fresh \in X, fresh \notin M, fresh[1] = i
  PROVE  Treated(l, M, b, d, K, a, i, fresh, ApplyOne(d, K[a], l[i], fresh))
<1> DEFINE c == K[a]
           m == l[i]
           t == ResolveTiming(c, m.at, fresh)
           r == ApplyOne(d, c, m, fresh)
           M2 == M \cup {fresh}
           K2 == [K EXCEPT ![a] = r.cursor]
<1>1. m \in Message /\ m.actor = a /\ m.actor \in Actor
  OBVIOUS
<1>2. Deduped(d, c, m, t, r) \/ Refused(d, c, m, t, r)
        \/ Duplicate(d, c, m, t, r) \/ Applied(d, c, m, t, r)
  <2> HIDE DEF c, m
  <2> QED BY <1>1, ApplyIs, Zenon
<1>3. /\ OpenSound(l, M, d.sessions, K) /\ ClosedSound(l, M, d.sessions)
      /\ StepsSound(d.events, d.sessions, K) /\ ClaimsSound(l, d.claims, d.events)
  BY DEF Sound
<1>4. t.sid = fresh \/ (c # NoCursor /\ t.sid = c.sid)
  <2> HIDE DEF c, m
  <2> QED BY ResolveIs
<1>5. c = NoCursor \/ (l[c.sid[1]].actor = a /\ \A s \in d.sessions : s.sid # c.sid)
  BY <1>3 DEF OpenSound
<1> HIDE DEF t, r
<1>6. l[t.sid[1]].actor = m.actor
  BY <1>4, <1>5
<1>7. Sound(l, M2, d, K)
  <2>1. M \subseteq M2
    OBVIOUS
  <2> QED BY <2>1, SoundGrows
<1>8. r.cursor = c => K2 = K
  OBVIOUS
<1>9. Extends(b, r.db) /\ d.events \subseteq r.db.events
  <2> HIDE DEF c, m
  <2>1. \A s \in d.sessions : s.sid # t.sid /\ (c = NoCursor \/ s.sid # c.sid)
    BY <1>3, <1>4, <1>5 DEF ClosedSound
  <2> QED BY <1>2, <2>1, ApplyExtends
<1>10. CASE Deduped(d, c, m, t, r)
  <2>1. r.db = d /\ r.cursor = c /\ r.outcome = "deduped"
    BY <1>10 DEF Deduped
  <2>2. Held(l, r.db, i)
    BY <1>6, <1>10, ApplyHeld
  <2>3. Accounted(l, M2, b, d, K2, i, r)
    BY <1>7, <1>8, <1>9, <2>1, <2>2 DEF Accounted
  <2> QED BY <2>1, <2>3 DEF Treated, r
<1>11. CASE Refused(d, c, m, t, r)
  <2>1. r.db = d /\ r.cursor = c /\ r.outcome = "refused"
    BY <1>11 DEF Refused
  <2>2. Refusable(l, i)
    BY <1>1, <1>11, ApplyRefusable
  <2>3. Accounted(l, M2, b, d, K2, i, r)
    BY <1>7, <1>8, <1>9, <2>1, <2>2 DEF Accounted
  <2> QED BY <2>1, <2>3 DEF Treated, r
<1>12. CASE Duplicate(d, c, m, t, r)
  <2>1. /\ r.cursor = c /\ r.outcome = "duplicate" /\ m.id \in Stored(d)
        /\ r.db.claims = ClaimsWith(d, t.sid, m) /\ r.db.events = d.events
        /\ r.db.sessions = d.sessions
    BY <1>12 DEF Duplicate
  <2>2. Held(l, r.db, i)
    BY <1>6, <1>12, ApplyHeld
  <2>3. ClaimsSound(l, r.db.claims, r.db.events)
    <3>1. \E e \in r.db.events : e.id = m.id
      BY <2>1 DEF Stored
    <3>2. ClaimsSound(l, ClaimsWith(d, t.sid, l[i]), r.db.events)
      BY <1>3, <1>6, <1>9, <3>1, ClaimsKept
    <3> QED BY <2>1, <3>2
  <2>4. Sound(l, M2, r.db, K2)
    BY <1>7, <1>8, <2>1, <2>3 DEF Sound
  <2>5. Accounted(l, M2, b, d, K2, i, r)
    BY <1>9, <2>1, <2>2, <2>4 DEF Accounted
  <2> QED BY <2>1, <2>5 DEF Treated, r
<1>13. CASE Applied(d, c, m, t, r)
  <2>1. r.outcome = "applied"
    BY <1>13 DEF Applied
  <2>2. Held(l, r.db, i)
    BY <1>6, <1>13, ApplyHeld
  <2>3. Sound(l, M2, r.db, K2)
    BY <1>1, <1>13, AppliedSound DEF t
  <2>4. Accounted(l, M2, b, d, K2, i, r)
    BY <1>9, <2>1, <2>2, <2>3 DEF Accounted
  <2>5. r.cursor # NoCursor
    <3>1. r.cursor = CommitEvent(c, t, m)
      BY <1>1, <1>13, WriterAssumption DEF Applied
    <3>2. Committed(X, c, m, fresh, t, CommitEvent(c, t, m))
      <4> HIDE DEF m
      <4> QED BY <1>1, CommitIs DEF t
    <3> QED BY <3>1, <3>2, NotNoCursor DEF Committed
  <2> QED BY <2>1, <2>4, <2>5 DEF Treated, r
<1> QED BY <1>2, <1>10, <1>11, <1>12, <1>13

\* _apply_one for a message without identity.
LEMMA ActorlessAccounted ==
  ASSUME NEW X, X \subseteq Nat \X Nat, NEW l \in Seq(Message), NEW M,
         NEW d \in DbOver(X), NEW K, Sound(l, M, d, K), NEW b, Extends(b, d),
         NEW i \in 1 .. Len(l), l[i].actor = NoActor,
         NEW fresh \in X, fresh \notin M, fresh[1] = i
  PROVE  LET r == ApplyOne(d, NoCursor, l[i], fresh)
         IN  Accounted(l, M, b, d, K, i, r)
<1> DEFINE m == l[i]
           t == ResolveTiming(NoCursor, m.at, fresh)
           r == ApplyOne(d, NoCursor, m, fresh)
<1>1. m \in Message
  OBVIOUS
<1>2. Deduped(d, NoCursor, m, t, r) \/ Refused(d, NoCursor, m, t, r)
        \/ Duplicate(d, NoCursor, m, t, r) \/ Applied(d, NoCursor, m, t, r)
  <2> HIDE DEF m
  <2> QED BY <1>1, ApplyIs, Zenon
<1>3. t.sid = fresh
  BY ResolveIs
<1> HIDE DEF t, r
<1>4. l[t.sid[1]].actor = m.actor /\ l[t.sid[1]].actor = NoActor
  BY <1>3
<1>5. Extends(b, r.db) /\ d.events \subseteq r.db.events
  <2> HIDE DEF m
  <2>1. \A s \in d.sessions : s.sid # t.sid
    BY <1>3 DEF Sound, ClosedSound
  <2> QED BY <1>2, <2>1, ApplyExtends
<1>6. Sound(l, M, r.db, K)
  BY <1>2, <1>4, ActorlessSound
<1>7. r.outcome = "refused" => Refusable(l, i)
  BY <1>2 DEF Deduped, Refused, Duplicate, Applied, Refusable
<1>8. r.outcome # "refused" => Held(l, r.db, i)
  <2>1. Refused(d, NoCursor, m, t, r) => r.outcome = "refused"
    BY DEF Refused
  <2> QED BY <1>2, <1>4, <2>1, ApplyHeld
<1>9. Accounted(l, M, b, d, K, i, r)
  BY <1>5, <1>6, <1>7, <1>8 DEF Accounted
<1> QED BY <1>9 DEF r
\* A sweep moves sessions from the cursors to the rows of closed sessions.
LEMMA SweepSound ==
  ASSUME NEW l, NEW M, NEW d, Sound(l, M, d, d.cursors),
         \A f \in d.events : f.actor \in Actor \cup {NoActor},
         NEW R \in SUBSET Actor, \A a \in R : d.cursors[a] # NoCursor,
         NEW e, e.events = d.events, e.claims = d.claims,
         e.sessions = {s \in d.sessions : \A a \in R : s.sid # d.cursors[a].sid}
                        \cup {Closed(a, d.cursors[a]) : a \in R},
         e.cursors = [a \in Actor |-> IF a \in R THEN NoCursor ELSE d.cursors[a]]
  PROVE  Sound(l, M, e, e.cursors) /\ Extends(d, e)
<1> DEFINE K == d.cursors
<1>1. /\ OpenSound(l, M, d.sessions, K) /\ ClosedSound(l, M, d.sessions)
      /\ StepsSound(d.events, d.sessions, K) /\ ClaimsSound(l, d.claims, d.events)
  BY DEF Sound
<1>2. \A a \in R :
        /\ K[a].start <= K[a].last /\ K[a].sid \in M /\ l[K[a].sid[1]].actor = a
        /\ \A s \in d.sessions : s.sid # K[a].sid
        /\ Closed(a, K[a]).actor = a /\ Closed(a, K[a]).sid = K[a].sid
        /\ Closed(a, K[a]).start = K[a].start /\ Closed(a, K[a]).end = K[a].last
  BY <1>1 DEF OpenSound, Closed
<1>3. e.sessions = d.sessions \cup {Closed(a, K[a]) : a \in R}
  BY <1>2
<1>4. \A s \in e.sessions : s \in d.sessions \/ \E a \in R : s = Closed(a, K[a])
  BY <1>3
<1>5. \A a \in Actor : e.cursors[a] = IF a \in R THEN NoCursor ELSE K[a]
  OBVIOUS
<1> HIDE DEF K
<1>6. ClosedSound(l, M, e.sessions)
  <2>1. ASSUME NEW s \in e.sessions
        PROVE  s.start <= s.end /\ s.sid \in M /\ l[s.sid[1]].actor = s.actor
    <3>1. CASE s \in d.sessions
      BY <1>1, <3>1 DEF ClosedSound
    <3>2. CASE \E a \in R : s = Closed(a, K[a])
      BY <1>2, <3>2
    <3> QED BY <1>4, <3>1, <3>2
  <2>2. ASSUME NEW s \in e.sessions, NEW u \in e.sessions, s.sid = u.sid
        PROVE  s = u
    <3>1. CASE s \in d.sessions /\ u \in d.sessions
      BY <1>1, <2>2, <3>1 DEF ClosedSound
    <3>2. CASE s \in d.sessions /\ \E a \in R : u = Closed(a, K[a])
      BY <1>2, <2>2, <3>2
    <3>3. CASE u \in d.sessions /\ \E a \in R : s = Closed(a, K[a])
      BY <1>2, <2>2, <3>3
    <3>4. CASE (\E a \in R : s = Closed(a, K[a])) /\ \E a \in R : u = Closed(a, K[a])
      <4>1. PICK a \in R : s = Closed(a, K[a])
        BY <3>4
      <4>2. PICK b \in R : u = Closed(b, K[b])
        BY <3>4
      <4>3. a = b
        BY <1>2, <2>2, <4>1, <4>2
      <4> QED BY <4>1, <4>2, <4>3
    <3> QED BY <1>4, <3>1, <3>2, <3>3, <3>4
  <2> QED BY <2>1, <2>2 DEF ClosedSound
<1>7. OpenSound(l, M, e.sessions, e.cursors)
  <2>1. ASSUME NEW b \in Actor, e.cursors[b] # NoCursor
        PROVE  \A s \in e.sessions : s.sid # K[b].sid
    <3>1. b \notin R /\ K[b] # NoCursor /\ l[K[b].sid[1]].actor = b
      BY <1>1, <1>5, <2>1 DEF OpenSound
    <3>2. \A s \in d.sessions : s.sid # K[b].sid
      BY <1>1, <3>1 DEF OpenSound
    <3>3. \A a \in R : Closed(a, K[a]).sid # K[b].sid
      BY <1>2, <3>1
    <3> QED BY <1>4, <3>2, <3>3
  <2>2. \A b \in Actor : e.cursors[b] # NoCursor => e.cursors[b] = K[b]
    BY <1>5
  <2>3. \A b \in Actor : K[b] # NoCursor =>
          /\ K[b].start <= K[b].last
          /\ K[b].sid \in M /\ l[K[b].sid[1]].actor = b
          /\ \A n \in 1 .. Len(K[b].seq) :
               \E j \in 1 .. Len(l) : l[j].id = K[b].seq[n] /\ l[j].actor = b
    BY <1>1 DEF OpenSound
  <2>4. ASSUME NEW b \in Actor, e.cursors[b] # NoCursor
        PROVE  /\ e.cursors[b].start <= e.cursors[b].last
               /\ e.cursors[b].sid \in M /\ l[e.cursors[b].sid[1]].actor = b
               /\ \A s \in e.sessions : s.sid # e.cursors[b].sid
               /\ \A n \in 1 .. Len(e.cursors[b].seq) :
                    \E j \in 1 .. Len(l) : l[j].id = e.cursors[b].seq[n] /\ l[j].actor = b
    <3>1. e.cursors[b] = K[b]
      BY <2>2, <2>4
    <3>2. \A s \in e.sessions : s.sid # K[b].sid
      BY <2>1, <2>4
    <3> HIDE DEF K
    <3> QED BY <2>3, <2>4, <3>1, <3>2
  <2> QED BY <2>4 DEF OpenSound
<1>8. \A b \in Actor : Rows(e.sessions, e.cursors, b) = Rows(d.sessions, K, b)
  <2> TAKE b \in Actor
  <2>1. CASE b \in R
    <3>1. {s \in e.sessions : s.actor = b} = {s \in d.sessions : s.actor = b} \cup {Closed(b, K[b])}
      BY <1>2, <1>3, <2>1
    <3>2. K[b] # NoCursor
      BY <2>1 DEF K
    <3> QED BY <1>5, <2>1, <3>1, <3>2 DEF Rows
  <2>2. CASE b \notin R
    <3>1. {s \in e.sessions : s.actor = b} = {s \in d.sessions : s.actor = b}
      BY <1>2, <1>3, <2>2
    <3> QED BY <1>5, <2>2, <3>1 DEF Rows
  <2> QED BY <2>1, <2>2
<1>9. StepsSound(e.events, e.sessions, e.cursors)
  <2>1. \A a \in Actor : \A s \in Rows(e.sessions, e.cursors, a) : \A n \in 1 .. Len(s.seq) :
          [id |-> s.seq[n], actor |-> a, sid |-> s.sid] \in e.events
    BY <1>1, <1>8 DEF StepsSound
  <2>2. ASSUME NEW f \in e.events, f.actor # NoActor
        PROVE  \E s \in Rows(e.sessions, e.cursors, f.actor) : s.sid = f.sid /\ HasOnce(s.seq, f.id)
    <3>1. f.actor \in Actor
      BY <2>2
    <3>2. \E s \in Rows(d.sessions, K, f.actor) : s.sid = f.sid /\ HasOnce(s.seq, f.id)
      BY <1>1, <2>2 DEF StepsSound
    <3> QED BY <1>8, <3>1, <3>2
  <2> QED BY <2>1, <2>2 DEF StepsSound
<1>10. Sound(l, M, e, e.cursors)
  BY <1>1, <1>6, <1>7, <1>9 DEF Sound
<1>11. Extends(d, e)
  BY <1>3 DEF Extends
<1> QED BY <1>10, <1>11
-----------------------------------------------------------------------------
(* The inductive invariant *)

\* The session ids made so far: of this transaction, those of the records that
\* have been applied.
Made == {sid \in SessionId : sid[2] <= runs /\ (sid[2] = runs => sid[1] \notin left)}

\* The open sessions of the transaction, with the cursor in memory.
Cursors == IF group = NoActor THEN tx.cursors ELSE [tx.cursors EXCEPT ![group] = cur]

\* The order in which a transaction goes.
Stages ==
  /\ batch # {} => runs >= 1
  /\ batch = {} => group = NoActor
  /\ group = NoActor => ~changed
  /\ changed => cur # NoCursor
  /\ group # NoActor => OfActor(left, NoActor) = {} /\ (~changed => cur = tx.cursors[group])

\* What COMMIT would store of the records applied so far.
ViewSound ==
  batch # {} =>
    /\ Sound(log, Made, tx, Cursors)
    /\ Extends(db, tx)
    /\ \A i \in batch \ left : i \in failed \/ Held(log, tx, i)

\* What the group's savepoint has: all but the group's records.
MarkSound ==
  group # NoActor =>
    /\ Sound(log, Made, mark, mark.cursors)
    /\ Extends(db, mark)
    /\ \A i \in batch \ left : log[i].actor # group => i \in failed \/ Held(log, mark, i)

\* Committed offsets are of records that are accounted for.
DoneHeld == \A i \in done : i \in dropped \/ Held(log, db, i)

RefusedOnly == \A i \in failed \cup dropped : Refusable(log, i)

WriterInv ==
  /\ TypeOK
  /\ Stages
  /\ Sound(log, Made, db, db.cursors)
  /\ ViewSound
  /\ MarkSound
  /\ DoneHeld
  /\ RefusedOnly

\* A sweep runs between transactions.
SweepInv == WriterInv /\ (cutoff # NoSweep => batch = {})
-----------------------------------------------------------------------------
(* The first state *)

LEMMA Setup ==
  ASSUME TypeOK
  PROVE  /\ SessionId \subseteq Nat \X Nat
         /\ Database = DbOver(SessionId) /\ Cursor = CursorOver(SessionId)
         /\ log \in Seq(Message) /\ Len(log) \in Nat /\ runs \in Nat
<1>1. log \in Seq(Message) /\ Len(log) \in Nat /\ MaxRuns \in Nat /\ runs \in Nat
  BY WriterAssumption DEF TypeOK
<1>2. SessionId \subseteq Nat \X Nat
  BY <1>1 DEF SessionId
<1>3. Cursor = CursorOver(SessionId)
  BY DEF Cursor, CursorOver
<1>4. Database = DbOver(SessionId)
  BY <1>3 DEF Database, DbOver
<1> QED BY <1>1, <1>2, <1>3, <1>4

\* An empty database is sound.
LEMMA EmptySound ==
  ASSUME NEW l, NEW M
  PROVE  Sound(l, M, EmptyDb, EmptyDb.cursors)
<1>1. /\ EmptyDb.claims = {} /\ EmptyDb.events = {} /\ EmptyDb.sessions = {}
      /\ \A a \in Actor : EmptyDb.cursors[a] = NoCursor
  BY DEF EmptyDb
<1>2. OpenSound(l, M, EmptyDb.sessions, EmptyDb.cursors)
  BY <1>1 DEF OpenSound
<1>3. ClosedSound(l, M, EmptyDb.sessions)
  BY <1>1 DEF ClosedSound
<1>4. StepsSound(EmptyDb.events, EmptyDb.sessions, EmptyDb.cursors)
  BY <1>1 DEF StepsSound, Rows
<1>5. ClaimsSound(l, EmptyDb.claims, EmptyDb.events)
  BY <1>1 DEF ClaimsSound
<1> QED BY <1>2, <1>3, <1>4, <1>5 DEF Sound

LEMMA EmptyTyped ==
  EmptyDb \in Database /\ NoCursor \in Cursor
BY DEF EmptyDb, Database, Cursor

LEMMA InitWriter ==
  ASSUME Init PROVE WriterInv
<1>1. TypeOK
  <2>1. log \in Seq(Message) /\ runs \in 0 .. MaxRuns
    BY WriterAssumption DEF Init
  <2>2. db \in Database /\ tx \in Database /\ mark \in Database /\ cur \in Cursor
    BY EmptyTyped DEF Init
  <2>3. group \in Actor \cup {NoActor} /\ changed \in BOOLEAN
    BY Zenon DEF Init
  <2>4. /\ batch \subseteq 1 .. Len(log) /\ left \subseteq batch /\ failed \subseteq batch
        /\ dropped \subseteq done /\ done \subseteq 1 .. Len(log)
    BY DEF Init
  <2> QED BY <2>1, <2>2, <2>3, <2>4 DEF TypeOK
<1>2. Stages
  BY DEF Init, Stages
<1>3. Sound(log, Made, db, db.cursors)
  BY EmptySound DEF Init
<1>4. ViewSound /\ MarkSound /\ DoneHeld /\ RefusedOnly
  BY DEF Init, ViewSound, MarkSound, DoneHeld, RefusedOnly
<1> QED BY <1>1, <1>2, <1>3, <1>4 DEF WriterInv

-----------------------------------------------------------------------------
(* Between transactions *)

\* The committed database, its rows unchanged, is sound as ids are made.
LEMMA TablesKept ==
  ASSUME WriterInv, Made \subseteq Made', log' = log, db' = db
  PROVE  Sound(log, Made, db, db.cursors)'
<1>1. PICK M2 : M2 = Made'
  OBVIOUS
<1>2. Sound(log, M2, db, db.cursors)
  BY <1>1, SoundGrows DEF WriterInv
<1> QED BY <1>1, <1>2

LEMMA BeginKeeps ==
  ASSUME WriterInv, NEW i \in 1 .. Len(log), Begin(i)
  PROVE  WriterInv'
<1>1. /\ batch = {} /\ left = {} /\ failed = {} /\ group = NoActor /\ runs < MaxRuns
      /\ batch' = Upcoming(i) /\ left' = batch' /\ tx' = db /\ runs' = runs + 1
      /\ UNCHANGED <<log, db, done, dropped, failed, group, cur, changed, mark>>
  BY DEF Begin, WriterInv, TypeOK, Stages, dbVars, groupVars
<1>2. TypeOK /\ runs \in Nat /\ MaxRuns \in Nat /\ runs \in 0 .. MaxRuns /\ Len(log) \in Nat
  BY Setup, WriterAssumption DEF WriterInv, TypeOK
<1>3. batch' \subseteq 1 .. Len(log)
  BY <1>1, <1>2 DEF Upcoming
<1>4. SessionId' = SessionId /\ Database' = Database /\ Cursor' = Cursor
  BY <1>1 DEF SessionId, Database, Cursor
<1>5. TypeOK'
  BY <1>1, <1>2, <1>3, <1>4 DEF TypeOK
<1>6. Stages'
  BY <1>1, <1>2 DEF WriterInv, Stages
<1>7. Made \subseteq Made'
  <2>1. \A sid \in SessionId : sid[2] \in Nat
    BY <1>2, Setup
  <2>2. \A sid \in SessionId : sid[2] <= runs => sid[2] <= runs' /\ sid[2] # runs'
    BY <1>1, <1>2, <2>1
  <2> QED BY <1>4, <2>2 DEF Made
<1>8. Sound(log, Made, db, db.cursors)'
  BY <1>1, <1>7, TablesKept
<1>9. ViewSound'
  <2>1. Cursors' = db.cursors
    BY <1>1 DEF Cursors
  <2>2. Extends(db, db)
    BY DEF Extends
  <2> QED BY <1>1, <1>8, <2>1, <2>2 DEF ViewSound
<1>10. MarkSound' /\ DoneHeld' /\ RefusedOnly'
  BY <1>1 DEF WriterInv, MarkSound, DoneHeld, RefusedOnly
<1> QED BY <1>5, <1>6, <1>8, <1>9, <1>10 DEF WriterInv

\* The transaction is over: what it has applied counts no more.
LEMMA EndsKeeps ==
  ASSUME WriterInv, TransactionEnds
  PROVE  /\ Made \subseteq Made'
         /\ log' = log /\ SessionId' = SessionId /\ Database' = Database /\ Cursor' = Cursor
         /\ Stages' /\ ViewSound' /\ MarkSound'
         /\ (db' \in Database /\ dropped' \subseteq done' /\ done' \subseteq 1 .. Len(log)) => TypeOK'
<1>1. /\ batch' = {} /\ left' = {} /\ tx' = EmptyDb /\ failed' = {} /\ group' = NoActor
      /\ cur' = NoCursor /\ changed' = FALSE /\ mark' = EmptyDb /\ log' = log /\ runs' = runs
  BY DEF TransactionEnds, GroupEnds
<1>2. SessionId' = SessionId /\ Database' = Database /\ Cursor' = Cursor
  BY <1>1 DEF SessionId, Database, Cursor
<1>3. Made \subseteq Made'
  BY <1>1, <1>2 DEF Made
<1>4. Stages' /\ ViewSound' /\ MarkSound'
  BY <1>1 DEF Stages, ViewSound, MarkSound
<1>5. (db' \in Database /\ dropped' \subseteq done' /\ done' \subseteq 1 .. Len(log)) => TypeOK'
  BY <1>1, <1>2, EmptyTyped DEF WriterInv, TypeOK
<1> QED BY <1>1, <1>2, <1>3, <1>4, <1>5

LEMMA RollbackKeeps ==
  ASSUME WriterInv, Rollback
  PROVE  WriterInv'
<1>1. TransactionEnds /\ UNCHANGED <<db, done, dropped>> /\ failed' = {}
  BY DEF Rollback, dbVars, TransactionEnds
<1>2. Stages' /\ ViewSound' /\ MarkSound' /\ log' = log /\ Made \subseteq Made'
  BY <1>1, EndsKeeps
<1>3. TypeOK'
  BY <1>1, EndsKeeps DEF WriterInv, TypeOK
<1>4. Sound(log, Made, db, db.cursors)'
  BY <1>1, <1>2, TablesKept
<1>5. DoneHeld' /\ RefusedOnly'
  BY <1>1, <1>2 DEF WriterInv, DoneHeld, RefusedOnly
<1> QED BY <1>2, <1>3, <1>4, <1>5 DEF WriterInv

LEMMA CommitKeeps ==
  ASSUME WriterInv, NEW kept \in SUBSET batch, Commit(kept)
  PROVE  WriterInv' /\ Extends(db, db')
<1>1. /\ batch # {} /\ left = {} /\ group = NoActor /\ db' = tx
      /\ done' = done \cup kept /\ dropped' = dropped \cup (failed \cap kept)
      /\ TransactionEnds /\ failed' = {}
  BY DEF Commit, TransactionEnds
<1>2. Stages' /\ ViewSound' /\ MarkSound' /\ log' = log /\ Made \subseteq Made'
  BY <1>1, EndsKeeps
<1>3. TypeOK'
  BY <1>1, EndsKeeps DEF WriterInv, TypeOK
<1>4. /\ Sound(log, Made, tx, tx.cursors) /\ Extends(db, tx)
      /\ \A i \in batch : i \in failed \/ Held(log, tx, i)
  BY <1>1 DEF WriterInv, ViewSound, Cursors
<1>5. Sound(log, Made, db, db.cursors)'
  <2>1. PICK M2 : M2 = Made'
    OBVIOUS
  <2>2. Sound(log, M2, tx, tx.cursors)
    BY <1>2, <1>4, <2>1, SoundGrows
  <2> QED BY <1>1, <1>2, <2>1, <2>2
<1>6. DoneHeld'
  <2> SUFFICES ASSUME NEW i \in done'
               PROVE  i \in dropped' \/ Held(log, tx, i)
    BY <1>1, <1>2 DEF DoneHeld
  <2>1. CASE i \in done
    <3>1. i \in dropped \/ Held(log, db, i)
      BY <2>1 DEF WriterInv, DoneHeld
    <3>2. db.events \subseteq tx.events
      BY <1>4 DEF Extends
    <3> QED BY <1>1, <3>1, <3>2, HeldGrows
  <2>2. CASE i \in kept
    BY <1>1, <1>4, <2>2
  <2> QED BY <1>1, <2>1, <2>2
<1>7. RefusedOnly'
  BY <1>1, <1>2 DEF WriterInv, RefusedOnly
<1> QED BY <1>1, <1>2, <1>3, <1>4, <1>5, <1>6, <1>7 DEF WriterInv
-----------------------------------------------------------------------------
(* In a transaction *)

\* A record is in the batch, and the session it may begin has an id of its own.
LEMMA FreshId ==
  ASSUME WriterInv, NEW i \in left
  PROVE  /\ i \in 1 .. Len(log) /\ i \in batch
         /\ <<i, runs>> \in SessionId /\ <<i, runs>> \notin Made /\ <<i, runs>>[1] = i
<1>1. i \in batch /\ i \in 1 .. Len(log) /\ runs \in 0 .. MaxRuns /\ MaxRuns \in Nat /\ runs >= 1
  BY WriterAssumption DEF WriterInv, TypeOK, Stages
<1>2. <<i, runs>> \in SessionId
  BY <1>1 DEF SessionId
<1>3. <<i, runs>> \notin Made
  BY DEF Made
<1> QED BY <1>1, <1>2, <1>3

\* Once it is applied, that id has been made.
LEMMA MadeNow ==
  ASSUME WriterInv, NEW i \in left, left' = left \ {i}, runs' = runs, log' = log
  PROVE  Made \cup {<<i, runs>>} \subseteq Made'
<1>1. SessionId' = SessionId /\ <<i, runs>> \in SessionId
  BY FreshId DEF SessionId
<1>2. Made \subseteq Made'
  BY <1>1 DEF Made
<1>3. runs <= runs
  BY Setup DEF WriterInv
<1>4. <<i, runs>> \in Made'
  BY <1>1, <1>3 DEF Made
<1> QED BY <1>2, <1>4

LEMMA OpenGroupKeeps ==
  ASSUME WriterInv, NEW a \in Actor, OpenGroup(a)
  PROVE  WriterInv'
<1>1. /\ group = NoActor /\ OfActor(left, NoActor) = {} /\ OfActor(left, a) # {}
      /\ group' = a /\ cur' = tx.cursors[a] /\ mark' = tx
      /\ UNCHANGED <<log, db, done, dropped, batch, left, tx, failed, changed, runs>>
  BY DEF OpenGroup, dbVars
<1>2. a # NoActor /\ batch # {} /\ ~changed
  BY <1>1, WriterAssumption DEF WriterInv, TypeOK, Stages, OfActor
<1>3. SessionId' = SessionId /\ Database' = Database /\ Cursor' = Cursor /\ Made' = Made
  BY <1>1 DEF SessionId, Database, Cursor, Made
<1>4. tx \in DbOver(SessionId) /\ TypeOK
  BY Setup DEF WriterInv, TypeOK
<1>5. tx.cursors[a] \in Cursor /\ [tx.cursors EXCEPT ![a] = tx.cursors[a]] = tx.cursors
  BY <1>4, Setup DEF DbOver
<1>6. TypeOK'
  BY <1>1, <1>3, <1>4, <1>5 DEF TypeOK
<1>7. OfActor(left, NoActor)' = {}
  BY <1>1 DEF OfActor
<1>8. Stages'
  BY <1>1, <1>2, <1>7 DEF WriterInv, Stages
<1>9. Cursors = tx.cursors /\ Cursors' = tx.cursors
  BY <1>1, <1>2, <1>5 DEF Cursors
<1>10. ViewSound' /\ MarkSound'
  BY <1>1, <1>2, <1>3, <1>9 DEF WriterInv, ViewSound, MarkSound
<1>11. Sound(log, Made, db, db.cursors)' /\ DoneHeld' /\ RefusedOnly'
  BY <1>1, <1>3 DEF WriterInv, DoneHeld, RefusedOnly
<1> QED BY <1>6, <1>8, <1>10, <1>11 DEF WriterInv

\* What a message keeps: of the record applied, and of those applied before.
LEMMA MessageKeeps ==
  ASSUME WriterInv, NEW i \in left, NEW M2, NEW K2, NEW r,
         Accounted(log, M2, db, tx, K2, i, r), M2 \subseteq Made',
         left' = left \ {i}, tx' = r.db, failed' = FailedWith(i, r.outcome),
         UNCHANGED <<log, db, done, dropped, batch, runs>>, Cursors' = K2
  PROVE  ViewSound' /\ RefusedOnly' /\ failed \subseteq failed' /\ failed' \subseteq failed \cup {i}
<1>1. failed' = IF r.outcome = "refused" THEN failed \cup {i} ELSE failed
  BY DEF FailedWith
<1>2. batch # {} /\ i \in batch
  BY FreshId DEF WriterInv, TypeOK
<1>3. PICK M3 : M3 = Made'
  OBVIOUS
<1>4. Sound(log, M3, r.db, K2)
  BY <1>3, SoundGrows DEF Accounted
<1>5. \A n \in batch \ left' : n \in failed' \/ Held(log, r.db, n)
  <2> TAKE n \in batch \ left'
  <2>1. CASE n = i
    BY <1>1, <2>1 DEF Accounted
  <2>2. CASE n \in batch \ left
    <3>1. n \in failed \/ Held(log, tx, n)
      BY <1>2, <2>2 DEF WriterInv, ViewSound
    <3> QED BY <1>1, <3>1, HeldGrows DEF Accounted
  <2> QED BY <2>1, <2>2
<1>6. ViewSound'
  BY <1>3, <1>4, <1>5 DEF ViewSound, Accounted
<1>7. RefusedOnly'
  BY <1>1 DEF WriterInv, RefusedOnly, Accounted
<1> QED BY <1>1, <1>6, <1>7

LEMMA ApplyActorlessKeeps ==
  ASSUME WriterInv, NEW i \in left, ApplyActorless(i)
  PROVE  WriterInv'
<1> DEFINE fresh == <<i, runs>>
<1>1. PICK r : r = ApplyOne(tx, NoCursor, log[i], fresh)
  OBVIOUS
<1>2. /\ tx' = r.db /\ failed' = FailedWith(i, r.outcome) /\ left' = left \ {i}
      /\ UNCHANGED <<log, db, done, dropped, batch, group, cur, changed, mark, runs>>
  BY <1>1 DEF ApplyActorless, dbVars, groupVars
<1>3. /\ i \in 1 .. Len(log) /\ i \in batch
      /\ fresh \in SessionId /\ fresh \notin Made /\ fresh[1] = i
  BY FreshId
<1>4. i \in OfActor(left, NoActor)
  BY DEF ApplyActorless, FirstOf
<1>5. log[i].actor = NoActor /\ group = NoActor
  BY <1>4 DEF OfActor, WriterInv, Stages
<1>6. /\ tx \in DbOver(SessionId) /\ SessionId \subseteq Nat \X Nat /\ NoCursor \in CursorOver(SessionId)
      /\ log[i] \in Message /\ TypeOK /\ log \in Seq(Message)
  BY <1>3, Setup DEF WriterInv, TypeOK, CursorOver
<1>7. Sound(log, Made, tx, tx.cursors) /\ Extends(db, tx)
  BY <1>3, <1>5 DEF WriterInv, ViewSound, Cursors
<1>8. r.db \in DbOver(SessionId) /\ r.db.cursors = tx.cursors
  <2> HIDE DEF fresh
  <2> QED BY <1>1, <1>3, <1>6, ApplyTypes
<1>9. Accounted(log, Made, db, tx, tx.cursors, i, r)
  <2> HIDE DEF fresh
  <2> QED BY <1>1, <1>3, <1>5, <1>6, <1>7, ActorlessAccounted
<1>10. Made \subseteq Made'
  BY <1>2, MadeNow
<1>11. Cursors' = tx.cursors
  BY <1>2, <1>5, <1>8 DEF Cursors
<1>12. ViewSound' /\ RefusedOnly' /\ failed' \subseteq failed \cup {i}
  BY <1>2, <1>9, <1>10, <1>11, MessageKeeps
<1>13. SessionId' = SessionId /\ Database' = Database /\ Cursor' = Cursor
  BY <1>2 DEF SessionId, Database, Cursor
<1>14. TypeOK'
  <2>1. r.db \in Database /\ failed' \subseteq batch
    BY <1>3, <1>6, <1>8, <1>12, Setup DEF TypeOK
  <2> QED BY <1>2, <1>6, <1>13, <2>1 DEF TypeOK
<1>15. Stages' /\ MarkSound'
  BY <1>2, <1>5 DEF WriterInv, Stages, MarkSound
<1>16. Sound(log, Made, db, db.cursors)'
  BY <1>2, <1>10, TablesKept
<1>17. DoneHeld'
  BY <1>2 DEF WriterInv, DoneHeld
<1> QED BY <1>12, <1>14, <1>15, <1>16, <1>17 DEF WriterInv
LEMMA ApplyMessageKeeps ==
  ASSUME WriterInv, NEW i \in left, ApplyMessage(i)
  PROVE  WriterInv'
<1> DEFINE fresh == <<i, runs>>
           a == group
           K == Cursors
<1>1. PICK r : r = ApplyOne(tx, cur, log[i], fresh)
  OBVIOUS
<1>2. /\ tx' = r.db /\ cur' = r.cursor /\ changed' = (changed \/ r.outcome = "applied")
      /\ failed' = FailedWith(i, r.outcome) /\ left' = left \ {i}
      /\ UNCHANGED <<log, db, done, dropped, batch, group, mark, runs>>
  BY <1>1 DEF ApplyMessage, dbVars
<1>3. /\ i \in 1 .. Len(log) /\ i \in batch
      /\ fresh \in SessionId /\ fresh \notin Made /\ fresh[1] = i
  BY FreshId
<1>4. i \in OfActor(left, group) /\ group # NoActor
  BY DEF ApplyMessage, FirstOf
<1>5. log[i].actor = group /\ group \in Actor
  BY <1>4 DEF OfActor, WriterInv, TypeOK
<1>6. /\ tx \in DbOver(SessionId) /\ SessionId \subseteq Nat \X Nat /\ cur \in CursorOver(SessionId)
      /\ log[i] \in Message /\ TypeOK /\ log \in Seq(Message)
  BY <1>3, Setup DEF WriterInv, TypeOK
<1>7. K = [tx.cursors EXCEPT ![group] = cur]
  BY <1>4 DEF Cursors
<1>8. K \in [Actor -> CursorOver(SessionId)] /\ K[group] = cur
  <2>1. tx.cursors \in [Actor -> CursorOver(SessionId)]
    BY <1>6 DEF DbOver
  <2> HIDE DEF K
  <2> QED BY <1>5, <1>6, <1>7, <2>1
<1>9. Sound(log, Made, tx, K) /\ Extends(db, tx)
  BY <1>3 DEF WriterInv, ViewSound
<1>10. /\ r.db \in DbOver(SessionId) /\ r.db.cursors = tx.cursors
       /\ r.cursor \in CursorOver(SessionId)
  <2> HIDE DEF fresh
  <2> QED BY <1>1, <1>3, <1>6, ApplyTypes
<1> DEFINE M2 == Made \cup {fresh}
           K2 == [K EXCEPT ![group] = r.cursor]
<1>11. /\ Accounted(log, M2, db, tx, K2, i, r)
       /\ r.outcome # "applied" => r.cursor = cur
       /\ r.outcome = "applied" => r.cursor # NoCursor
  <2> HIDE DEF fresh, K
  <2>1. r = ApplyOne(tx, K[group], log[i], fresh)
    BY <1>1, <1>8
  <2>2. Treated(log, Made, db, tx, K, group, i, fresh, ApplyOne(tx, K[group], log[i], fresh))
    BY <1>3, <1>5, <1>6, <1>8, <1>9, MessageTreated, Zenon
  <2> QED BY <1>8, <2>1, <2>2 DEF Treated
<1>12. M2 \subseteq Made'
  BY <1>2, MadeNow
<1>13. Cursors' = K2
  <2>1. Cursors' = [tx.cursors EXCEPT ![group] = r.cursor]
    BY <1>2, <1>4, <1>10 DEF Cursors
  <2> QED BY <1>7, <2>1
<1>14. ViewSound' /\ RefusedOnly' /\ failed \subseteq failed' /\ failed' \subseteq failed \cup {i}
  <2> HIDE DEF M2, K2
  <2> QED BY <1>2, <1>11, <1>12, <1>13, MessageKeeps
<1>15. SessionId' = SessionId /\ Database' = Database /\ Cursor' = Cursor
  BY <1>2 DEF SessionId, Database, Cursor
<1>16. TypeOK'
  <2>1. r.db \in Database /\ failed' \subseteq batch /\ r.cursor \in Cursor
    BY <1>3, <1>6, <1>10, <1>14, Setup DEF TypeOK
  <2>2. changed' \in BOOLEAN
    BY <1>2, Zenon
  <2> QED BY <1>2, <1>6, <1>15, <2>1, <2>2 DEF TypeOK
<1>17. Stages'
  <2>1. OfActor(left, NoActor)' = {}
    BY <1>2, <1>4 DEF WriterInv, Stages, OfActor
  <2>2. changed' => cur' # NoCursor
    BY <1>2, <1>11 DEF WriterInv, Stages
  <2>3. ~changed' => cur' = tx'.cursors[group]
    BY <1>2, <1>4, <1>10, <1>11 DEF WriterInv, Stages
  <2>4. batch # {} /\ runs >= 1
    BY <1>3 DEF WriterInv, Stages
  <2> QED BY <1>2, <1>4, <2>1, <2>2, <2>3, <2>4 DEF Stages
<1>18. MarkSound'
  <2>1. /\ Sound(log, Made, mark, mark.cursors) /\ Extends(db, mark)
        /\ \A n \in batch \ left : log[n].actor # group => n \in failed \/ Held(log, mark, n)
    BY <1>4 DEF WriterInv, MarkSound
  <2>2. PICK M3 : M3 = Made'
    OBVIOUS
  <2>3. Sound(log, M3, mark, mark.cursors)
    <3>1. Made \subseteq M3
      BY <1>12, <2>2
    <3> QED BY <2>1, <3>1, SoundGrows
  <2>4. \A n \in batch \ left' : log[n].actor # group => n \in failed' \/ Held(log, mark, n)
    BY <1>2, <1>5, <1>14, <2>1
  <2> QED BY <1>2, <2>1, <2>2, <2>3, <2>4 DEF MarkSound
<1>19. Sound(log, Made, db, db.cursors)'
  <2>1. Made \subseteq Made'
    BY <1>12
  <2> QED BY <1>2, <2>1, TablesKept
<1>20. DoneHeld'
  BY <1>2 DEF WriterInv, DoneHeld
<1> QED BY <1>14, <1>16, <1>17, <1>18, <1>19, <1>20 DEF WriterInv

LEMMA CloseGroupKeeps ==
  ASSUME WriterInv, CloseGroup
  PROVE  WriterInv'
<1>1. /\ group # NoActor /\ OfActor(left, group) = {} /\ tx' = Saved /\ failed' = FailedByGroup
      /\ group' = NoActor /\ cur' = NoCursor /\ changed' = FALSE /\ mark' = EmptyDb
      /\ UNCHANGED <<log, db, done, dropped, batch, left, runs>>
  BY DEF CloseGroup, GroupEnds, dbVars
<1>2. /\ TypeOK /\ group \in Actor /\ batch # {}
      /\ tx \in DbOver(SessionId) /\ cur \in CursorOver(SessionId) /\ Database = DbOver(SessionId)
  BY <1>1, Setup DEF WriterInv, TypeOK, Stages
<1>3. SessionId' = SessionId /\ Database' = Database /\ Cursor' = Cursor /\ Made' = Made
  BY <1>1 DEF SessionId, Database, Cursor, Made
<1>4. Cursors = [tx.cursors EXCEPT ![group] = cur] /\ Cursors' = tx'.cursors
  BY <1>1 DEF Cursors
<1>5. /\ Sound(log, Made, tx, Cursors) /\ Extends(db, tx)
      /\ \A i \in batch \ left : i \in failed \/ Held(log, tx, i)
  BY <1>2 DEF WriterInv, ViewSound
<1>6. tx' \in Database /\ failed' \subseteq batch /\ ViewSound' /\ RefusedOnly'
  <2>1. CASE CursorRefused
    <3>1. tx' = mark /\ failed' = failed \cup OfActor(batch, group)
      BY <1>1, <2>1 DEF Saved, FailedByGroup
    <3>2. /\ Sound(log, Made, mark, mark.cursors) /\ Extends(db, mark)
          /\ \A i \in batch \ left : log[i].actor # group => i \in failed \/ Held(log, mark, i)
      BY <1>1 DEF WriterInv, MarkSound
    <3>3. \A i \in batch \ left : i \in failed' \/ Held(log, mark, i)
      BY <3>1, <3>2 DEF OfActor
    <3>4. ViewSound'
      BY <1>1, <1>3, <1>4, <3>1, <3>2, <3>3 DEF ViewSound
    <3>5. \E j \in 1 .. Len(log) : log[j].actor = group /\ log[j].id \in RefusedCursor
      <4>1. PICK n \in 1 .. Len(cur.seq) : cur.seq[n] \in RefusedCursor
        BY <2>1 DEF CursorRefused, Ids
      <4>2. cur # NoCursor
        BY <2>1 DEF CursorRefused, WriterInv, Stages
      <4>3. tx.cursors \in [Actor -> CursorOver(SessionId)]
        BY <1>2 DEF DbOver
      <4>4. Cursors[group] = cur
        BY <1>2, <1>4, <4>3
      <4>5. OpenSound(log, Made, tx.sessions, Cursors)
        BY <1>5 DEF Sound
      <4>6. \E j \in 1 .. Len(log) : log[j].id = cur.seq[n] /\ log[j].actor = group
        BY <1>2, <4>2, <4>4, <4>5 DEF OpenSound
      <4> QED BY <4>1, <4>6
    <3>6. \A i \in OfActor(batch, group) : Refusable(log, i)
      BY <3>5 DEF OfActor, Refusable
    <3>7. RefusedOnly'
      BY <1>1, <3>1, <3>6 DEF WriterInv, RefusedOnly
    <3>8. tx' \in Database /\ failed' \subseteq batch
      BY <1>2, <3>1 DEF TypeOK, OfActor
    <3> QED BY <3>4, <3>7, <3>8
  <2>2. CASE ~CursorRefused
    <3>1. failed' = failed /\ tx' = IF changed THEN [tx EXCEPT !.cursors[group] = cur] ELSE tx
      BY <1>1, <2>2 DEF Saved, FailedByGroup
    <3>2. /\ tx.claims \subseteq SessionId \X Product
          /\ tx.cursors \in [Actor -> CursorOver(SessionId)]
          /\ tx = [claims |-> tx.claims, events |-> tx.events, sessions |-> tx.sessions,
                   cursors |-> tx.cursors]
      BY <1>2 DEF DbOver
    <3>3. [tx EXCEPT !.cursors[group] = cur] =
            [claims |-> tx.claims, events |-> tx.events, sessions |-> tx.sessions,
             cursors |-> [tx.cursors EXCEPT ![group] = cur]]
      BY <3>2
    <3>4. ~changed => Cursors = tx.cursors
      BY <1>1, <1>2, <1>4, <3>2 DEF WriterInv, Stages
    <3>5. tx' = [claims |-> tx.claims, events |-> tx.events, sessions |-> tx.sessions,
                 cursors |-> Cursors]
      BY <1>4, <3>1, <3>2, <3>3, <3>4
    <3>6. Cursors \in [Actor -> CursorOver(SessionId)]
      BY <1>2, <1>4, <3>2
    <3>7. tx' \in Database
      BY <1>2, <3>5, <3>6 DEF DbOver
    <3>8. Sound(log, Made, tx', Cursors) /\ Extends(db, tx')
      BY <1>5, <3>5 DEF Sound, Extends
    <3>9. \A i \in batch \ left : i \in failed \/ Held(log, tx', i)
      BY <1>5, <3>5 DEF Held, Stored
    <3>10. Cursors' = Cursors
      BY <1>4, <3>5
    <3>11. ViewSound'
      BY <1>1, <1>3, <3>1, <3>8, <3>9, <3>10 DEF ViewSound
    <3>12. RefusedOnly' /\ failed' \subseteq batch
      BY <1>1, <1>2, <3>1 DEF WriterInv, RefusedOnly, TypeOK
    <3> QED BY <3>7, <3>11, <3>12
  <2> QED BY <2>1, <2>2
<1>7. TypeOK'
  BY <1>1, <1>2, <1>3, <1>6, EmptyTyped DEF TypeOK
<1>8. Stages' /\ MarkSound'
  BY <1>1, <1>2 DEF WriterInv, Stages, MarkSound
<1>9. Sound(log, Made, db, db.cursors)' /\ DoneHeld'
  BY <1>1, <1>3 DEF WriterInv, DoneHeld
<1> QED BY <1>6, <1>7, <1>8, <1>9 DEF WriterInv
-----------------------------------------------------------------------------
(* Every step *)

\* A step of the writer keeps the invariant, and the rows of closed sessions.
LEMMA WriterKeeps ==
  ASSUME WriterInv, Next
  PROVE  WriterInv' /\ (db' = db \/ Extends(db, db'))
<1>1. CASE \E i \in 1 .. Len(log) : Begin(i)
  BY <1>1, BeginKeeps DEF Begin, dbVars
<1>2. CASE \E i \in left : ApplyActorless(i)
  BY <1>2, ApplyActorlessKeeps DEF ApplyActorless, dbVars
<1>3. CASE \E i \in left : ApplyMessage(i)
  BY <1>3, ApplyMessageKeeps DEF ApplyMessage, dbVars
<1>4. CASE \E a \in Actor : OpenGroup(a)
  BY <1>4, OpenGroupKeeps DEF OpenGroup, dbVars
<1>5. CASE CloseGroup
  BY <1>5, CloseGroupKeeps DEF CloseGroup, dbVars
<1>6. CASE \E kept \in SUBSET batch : Commit(kept)
  BY <1>6, CommitKeeps
<1>7. CASE Rollback
  BY <1>7, RollbackKeeps DEF Rollback, dbVars
<1> QED BY <1>1, <1>2, <1>3, <1>4, <1>5, <1>6, <1>7 DEF Next

\* Nothing changes when no variable of the writer does.
LEMMA StutterKeeps ==
  ASSUME WriterInv, UNCHANGED vars
  PROVE  WriterInv'
<1>1. UNCHANGED <<log, db, done, dropped, batch, left, tx, failed, group, cur, changed, mark, runs>>
  BY DEF vars, dbVars, groupVars
<1>2. SessionId' = SessionId /\ Database' = Database /\ Cursor' = Cursor
  BY <1>1 DEF SessionId, Database, Cursor
<1>3. Made' = Made /\ Cursors' = Cursors /\ OfActor(left, NoActor)' = OfActor(left, NoActor)
  BY <1>1, <1>2 DEF Made, Cursors, OfActor
<1>4. TypeOK'
  BY <1>1, <1>2 DEF WriterInv, TypeOK
<1>5. Stages' /\ Sound(log, Made, db, db.cursors)'
  BY <1>1, <1>3 DEF WriterInv, Stages
<1>6. ViewSound' /\ MarkSound' /\ DoneHeld' /\ RefusedOnly'
  BY <1>1, <1>3 DEF WriterInv, ViewSound, MarkSound, DoneHeld, RefusedOnly
<1> QED BY <1>4, <1>5, <1>6 DEF WriterInv

LEMMA SweepChunkKeeps ==
  ASSUME SweepInv, NEW S \in SUBSET Actor, SweepChunk(S)
  PROVE  WriterInv' /\ batch' = {} /\ Extends(db, db')
<1> DEFINE R == Readable(S)
<1>1. /\ batch = {} /\ db' = CloseAll(R)
      /\ UNCHANGED <<log, done, dropped, batch, left, tx, failed, group, cur, changed, mark, runs>>
  BY DEF SweepChunk, SweepInv, groupVars
<1>2. R \in SUBSET Actor /\ \A a \in R : db.cursors[a] # NoCursor
  BY DEF SweepChunk, IsChunk, Idle, Open, Readable
<1> HIDE DEF R
<1>3. /\ WriterInv /\ TypeOK /\ db \in DbOver(SessionId) /\ SessionId \subseteq Nat \X Nat
      /\ Database = DbOver(SessionId) /\ group = NoActor
  BY <1>1, Setup DEF SweepInv, WriterInv, TypeOK, Stages
<1>4. db = [claims |-> db.claims, events |-> db.events, sessions |-> db.sessions,
            cursors |-> db.cursors]
  BY <1>3 DEF DbOver
<1>5. PICK new : new = {s \in db.sessions : \A a \in R : s.sid # db.cursors[a].sid}
                         \cup {Closed(a, db.cursors[a]) : a \in R}
  OBVIOUS
<1>6. PICK K : K = [a \in Actor |-> IF a \in R THEN NoCursor ELSE db.cursors[a]]
  OBVIOUS
<1>7. db' = [db EXCEPT !.sessions = new, !.cursors = K]
  BY <1>1, <1>5, <1>6 DEF CloseAll
<1>8. db' = [claims |-> db.claims, events |-> db.events, sessions |-> new, cursors |-> K]
  BY <1>4, <1>7
<1>9. PICK e : e = db'
  OBVIOUS
<1>10. e.events = db.events /\ e.claims = db.claims /\ e.sessions = new /\ e.cursors = K
  BY <1>8, <1>9
<1>11. Sound(log, Made, e, e.cursors) /\ Extends(db, e)
  <2>1. Sound(log, Made, db, db.cursors)
    BY <1>3 DEF WriterInv
  <2>2. \A f \in db.events : f.actor \in Actor \cup {NoActor}
    BY <1>3 DEF DbOver
  <2> QED BY <1>2, <1>5, <1>6, <1>10, <2>1, <2>2, SweepSound
<1>12. SessionId' = SessionId /\ Database' = Database /\ Cursor' = Cursor /\ Made' = Made
  BY <1>1 DEF SessionId, Database, Cursor, Made
<1>13. db' \in Database
  <2>1. \A a \in R : Closed(a, db.cursors[a])
           \in [actor : Actor, sid : SessionId, start : Int, end : Int, seq : Seq(EventId)]
    <3> TAKE a \in R
    <3>1. a \in Actor /\ db.cursors[a] \in CursorOver(SessionId) /\ db.cursors[a] # NoCursor
      BY <1>2, <1>3 DEF DbOver
    <3>2. db.cursors[a] \in [sid : SessionId, start : Int, last : Int, seq : Seq(EventId)]
      BY <3>1 DEF CursorOver
    <3> QED BY <3>1, <3>2 DEF Closed
  <2>2. new \subseteq [actor : Actor, sid : SessionId, start : Int, end : Int, seq : Seq(EventId)]
    BY <1>3, <1>5, <2>1 DEF DbOver
  <2>3. K \in [Actor -> CursorOver(SessionId)]
    <3>1. NoCursor \in CursorOver(SessionId) /\ db.cursors \in [Actor -> CursorOver(SessionId)]
      BY <1>3 DEF CursorOver, DbOver
    <3> QED BY <1>6, <3>1
  <2> QED BY <1>3, <1>8, <2>2, <2>3 DEF DbOver
<1>14. TypeOK'
  BY <1>1, <1>3, <1>12, <1>13 DEF TypeOK
<1>15. Stages' /\ ViewSound' /\ MarkSound' /\ RefusedOnly'
  BY <1>1, <1>3, <1>12 DEF WriterInv, Stages, ViewSound, MarkSound, RefusedOnly
<1>16. Sound(log, Made, db, db.cursors)'
  BY <1>1, <1>9, <1>11, <1>12
<1>17. DoneHeld'
  <2>1. \A i \in done : i \in dropped \/ Held(log, e, i)
    BY <1>3, <1>10, HeldGrows DEF WriterInv, DoneHeld
  <2> QED BY <1>1, <1>9, <2>1 DEF DoneHeld
<1>18. Extends(db, db')
  BY <1>9, <1>11
<1> QED BY <1>1, <1>14, <1>15, <1>16, <1>17, <1>18 DEF WriterInv

LEMMA SweepInvInit == SweepInit => SweepInv
BY InitWriter DEF SweepInit, SweepInv

LEMMA SweepInvStep ==
  SweepInv /\ [SweepNext]_allVars => SweepInv' /\ (db' = db \/ Extends(db, db'))
<1> SUFFICES ASSUME SweepInv, [SweepNext]_allVars
             PROVE  SweepInv' /\ (db' = db \/ Extends(db, db'))
  OBVIOUS
<1>1. CASE cutoff = NoSweep /\ Next /\ UNCHANGED sweepVars
  BY <1>1, WriterKeeps DEF SweepInv, sweepVars
<1>2. CASE StartSweep
  <2>1. UNCHANGED vars /\ batch' = {}
    BY <1>2 DEF StartSweep, CycleDone, vars
  <2> QED BY <2>1, StutterKeeps DEF SweepInv, vars, dbVars
<1>3. CASE \E S \in SUBSET Actor : SweepChunk(S)
  BY <1>3, SweepChunkKeeps DEF SweepInv
<1>4. CASE SweepEnds
  <2>1. UNCHANGED vars /\ cutoff' = NoSweep
    BY <1>4 DEF SweepEnds, EndSweep
  <2> QED BY <2>1, StutterKeeps DEF SweepInv, vars, dbVars
<1>5. CASE UNCHANGED allVars
  <2>1. UNCHANGED vars /\ cutoff' = cutoff
    BY <1>5 DEF allVars, sweepVars
  <2> QED BY <2>1, StutterKeeps DEF SweepInv, vars, dbVars
<1> QED BY <1>1, <1>2, <1>3, <1>4, <1>5 DEF SweepNext

\* The invariant holds in every state of the writer beside the sweep.
THEOREM SessionsInvariant == SweepSpec => []SweepInv
<1>1. SweepInv /\ [SweepNext]_allVars => SweepInv'
  BY SweepInvStep
<1> QED BY SweepInvInit, <1>1, PTL DEF SweepSpec

\* The state of the writer and the tables it shares with the sweep are well typed.
THEOREM WriterTyped == SweepSpec => []TypeOK
<1>1. SweepInv => TypeOK
  BY DEF SweepInv, WriterInv
<1> QED BY SessionsInvariant, <1>1, PTL

\* Every stored event of an identified actor is a step of exactly one session,
\* once; a session has no other steps.  Of any log, however the batches are cut,
\* whichever commits are lost, whatever rows MySQL refuses and whenever a sweep
\* runs.
THEOREM EventsAlwaysInSessions == SweepSpec => []EventsInSessions
<1>1. SweepInv => EventsInSessions
  <2> SUFFICES ASSUME SweepInv PROVE EventsInSessions
    OBVIOUS
  <2>1. \A a \in Actor : SessionsOf(db, a) = Rows(db.sessions, db.cursors, a)
    BY DEF SessionsOf, Rows
  <2>2. /\ TypeOK /\ db \in DbOver(SessionId) /\ SessionId \subseteq Nat \X Nat
        /\ OpenSound(log, Made, db.sessions, db.cursors)
        /\ ClosedSound(log, Made, db.sessions)
        /\ StepsSound(db.events, db.sessions, db.cursors)
    BY Setup DEF SweepInv, WriterInv, TypeOK, Sound
  <2>3. ASSUME NEW e \in db.events, e.actor # NoActor
        PROVE  \E s \in SessionsOf(db, e.actor) :
                 s.sid = e.sid /\ Cardinality({n \in 1 .. Len(s.seq) : s.seq[n] = e.id}) = 1
    <3>1. e.actor \in Actor
      BY <2>2, <2>3 DEF DbOver
    <3>2. PICK s \in Rows(db.sessions, db.cursors, e.actor) : s.sid = e.sid /\ HasOnce(s.seq, e.id)
      BY <2>2, <2>3 DEF StepsSound
    <3>3. PICK n \in 1 .. Len(s.seq) :
            s.seq[n] = e.id /\ \A k \in 1 .. Len(s.seq) : s.seq[k] = e.id => k = n
      BY <3>2 DEF HasOnce
    <3>4. {k \in 1 .. Len(s.seq) : s.seq[k] = e.id} = {n}
      BY <3>3
    <3>5. Cardinality({n}) = 1
      BY FS_Singleton
    <3> QED BY <2>1, <3>1, <3>2, <3>4, <3>5
  <2>4. ASSUME NEW a \in Actor, NEW s \in SessionsOf(db, a)
        PROVE  /\ s.start <= s.end
               /\ \A t \in SessionsOf(db, a) : s.sid = t.sid => s = t
               /\ \A n \in 1 .. Len(s.seq) : [id |-> s.seq[n], actor |-> a, sid |-> s.sid] \in db.events
    <3> DEFINE z == Closed(a, db.cursors[a])
    <3>1. /\ z.sid = db.cursors[a].sid /\ z.start = db.cursors[a].start
          /\ z.end = db.cursors[a].last
      BY DEF Closed
    <3>2. \A t \in SessionsOf(db, a) : t \in db.sessions \/ (t = z /\ db.cursors[a] # NoCursor)
      BY DEF SessionsOf
    <3> HIDE DEF z
    <3>3. s.start <= s.end
      BY <2>2, <3>1, <3>2 DEF OpenSound, ClosedSound
    <3>4. \A t \in SessionsOf(db, a) : s.sid = t.sid => s = t
      BY <2>2, <3>1, <3>2 DEF OpenSound, ClosedSound
    <3>5. \A n \in 1 .. Len(s.seq) : [id |-> s.seq[n], actor |-> a, sid |-> s.sid] \in db.events
      BY <2>1, <2>2 DEF StepsSound
    <3> QED BY <3>3, <3>4, <3>5
  <2> QED BY <2>3, <2>4 DEF EventsInSessions
<1> QED BY SessionsInvariant, <1>1, PTL

\* A row of intent_sessions is never changed, and its session gets no event any
\* more: the uuid of a session that is closed is never used again.
THEOREM ClosedStaysFinal == SweepSpec => ClosedIsFinal
<1>1. SweepInv /\ [SweepNext]_allVars =>
        [/\ db.sessions \subseteq db'.sessions
         /\ \A s \in db.sessions : \A e \in db'.events : e.sid = s.sid => e \in db.events]_vars
  BY SweepInvStep DEF Extends
<1> QED BY SessionsInvariant, <1>1, PTL DEF SweepSpec, ClosedIsFinal

\* A record whose offset is committed is stored, quarantined or repeats an
\* add-to-cart of its actor: none is lost between the savepoints.
THEOREM NothingEverVanishes == SweepSpec => []NothingVanishes
<1>1. SweepInv => NothingVanishes
  BY DEF SweepInv, WriterInv, DoneHeld, Held, NothingVanishes
<1> QED BY SessionsInvariant, <1>1, PTL

\* A quarantined record is refused by MySQL, or a session or the cursor of its
\* actor is: a poison message costs nobody else a record.
THEOREM OnlyRefusedEverDropped == SweepSpec => []OnlyRefusedDropped
<1>1. SweepInv => OnlyRefusedDropped
  BY DEF SweepInv, WriterInv, RefusedOnly, Refusable, OnlyRefusedDropped
<1> QED BY SessionsInvariant, <1>1, PTL

-----------------------------------------------------------------------------
(* Visits *)

\* No pause of the actor lies between the two times.
Near(l, a, s, t) ==
  \A g \in {l[k].at : k \in 1 .. Len(l)} :
    (\A k \in 1 .. Len(l) : l[k].actor = a => l[k].at <= g \/ l[k].at > g + Timeout)
      => (s <= g <=> t <= g)

\* The records of a session's steps.
StepsIn(l, seq) == {i \in 1 .. Len(l) : l[i].id \in Ids(seq)}

\* The last event of an open session is its latest; the steps are the actor's.
LastSound(l, K) ==
  \A a \in Actor : K[a] # NoCursor =>
    /\ \E j \in StepsIn(l, K[a].seq) : l[j].at = K[a].last
    /\ \A j \in StepsIn(l, K[a].seq) : l[j].actor = a /\ l[j].at <= K[a].last

\* Stored events are of records that MySQL accepts.
EventsFrom(l, E) ==
  \A e \in E : e.id \notin RefusedEvent
                /\ \E j \in 1 .. Len(l) : l[j].id = e.id /\ l[j].actor = e.actor

\* What is claimed for an open session was stored in the same visit.
ClaimsNear(l, M, d, K) ==
  /\ \A claim \in d.claims : claim[1] \in M
  /\ \A a \in Actor, p \in Product : K[a] # NoCursor /\ <<K[a].sid, p>> \in d.claims =>
       \E k \in 1 .. Len(l) :
         /\ l[k].actor = a /\ l[k].product = p /\ l[k].id \in Stored(d)
         /\ Near(l, a, l[k].at, K[a].last)

Visited(l, M, d, K) == LastSound(l, K) /\ EventsFrom(l, d.events) /\ ClaimsNear(l, M, d, K)

\* A row that closes this session is refused.
Stuck(c) == c # NoCursor /\ Ids(c.seq) \cap RefusedSession # {}

\* The record is stored, or its row is refused.
Settled(l, d, i) == l[i].id \in Stored(d) \cup RefusedEvent

-----------------------------------------------------------------------------
(* Order *)

\* The session with these steps is over when another starts.
Clear(l, seq, start) == \A i \in StepsIn(l, seq) : start - l[i].at > Timeout

\* Any two sessions of an actor are apart, the open one being the later.
Apart(l, S, K) ==
  \A a \in Actor : \A s \in S : s.actor = a =>
    /\ \A t \in S : t.actor = a => s = t \/ Clear(l, s.seq, t.start) \/ Clear(l, t.seq, s.start)
    /\ K[a] # NoCursor => Clear(l, s.seq, K[a].start)

\* A claim of a session is backed by one of its steps.
Backed(l, C, S, K) ==
  \A a \in Actor : \A s \in Rows(S, K, a) : \A p \in Product :
    <<s.sid, p>> \in C => \E i \in StepsIn(l, s.seq) : l[i].product = p

\* Records that are to come are not before what is stored, give or take the
\* tolerance; when no session is open, they are in another visit.
InOrder(l, D, d, K) ==
  \A a \in Actor, i, j \in 1 .. Len(l) :
    /\ l[i].actor = a /\ i \notin D /\ ~Settled(l, d, i)
    /\ l[j].actor = a /\ l[j].id \in Stored(d)
    => \/ Stuck(K[a])
       \/ K[a] # NoCursor /\ l[j].at <= l[i].at + Tolerance
       \/ K[a] = NoCursor /\ l[i].at - l[j].at > Timeout

Ordered(l, D, d, K) ==
  Apart(l, d.sessions, K) /\ Backed(l, d.claims, d.sessions, K) /\ InOrder(l, D, d, K)

-----------------------------------------------------------------------------
(* The invariants *)

\* A batch has all records up to its last, and takes an actor's all or none.
Whole ==
  /\ \A i \in batch : \A j \in 1 .. i : j \in done \/ j \in batch
  /\ batch \cap done = {}
  /\ \A a \in Actor : a # group => OfActor(left, a) = {} \/ OfActor(left, a) = OfActor(batch, a)

\* What has been processed is stored, but for what MySQL refuses.
Kept ==
  /\ \A i \in done : i \in dropped \/ Settled(log, db, i)
  /\ \A i \in batch \ left : i \in failed \/ Settled(log, tx, i)
  /\ group # NoActor => \A i \in batch \ left :
       IF log[i].actor = group THEN Settled(log, tx, i) \/ Stuck(cur)
       ELSE i \in failed \/ Settled(log, mark, i)

VisitInv ==
  /\ Visited(log, Made, db, db.cursors)
  /\ batch # {} => Visited(log, Made, tx, Cursors)
  /\ group # NoActor => Visited(log, Made, mark, mark.cursors)

OrderInv ==
  /\ Ordered(log, done, db, db.cursors)
  /\ batch # {} => Ordered(log, done, tx, Cursors)
  /\ group # NoActor => Ordered(log, done, mark, mark.cursors)

\* While a sweep runs, what is to come is in another visit than what it closes.
SweepInOrder ==
  cutoff # NoSweep =>
    /\ cutoff \in Int
    /\ \A i \in 1 .. Len(log) :
         i \notin done /\ ~Settled(log, db, i) => log[i].at >= cutoff + Timeout

Plain == IdsNameMessages /\ NoneDiscarded
PlainInv == Whole /\ (Plain => VisitInv /\ Kept)
WellInv == WellSent => OrderInv /\ SweepInOrder
-----------------------------------------------------------------------------
(* One message, by what it leaves *)

\* A message within the timeout and the tolerance joins the session.
Within(c, m) == c # NoCursor /\ ~(m.at - c.last > Timeout) /\ ~(m.at - c.last < -Tolerance)

\* The session whose product an add-to-cart claims.
ClaimSid(c, m, fresh, sid) == sid = fresh \/ (Within(c, m) /\ sid = c.sid)

Joins(c, m, k) ==
  /\ Within(c, m) /\ k.sid = c.sid /\ k.start = c.start
  /\ k.last = Later(c.last, m.at) /\ k.seq = Append(c.seq, m.id)

Begins(c, m, fresh, k) ==
  /\ c # NoCursor => ~Within(c, m) /\ ~Stuck(c)
  /\ k.sid = fresh /\ k.start = m.at /\ k.last = m.at /\ k.seq = <<m.id>>

\* A message of an identified actor that is stored, the cursor being k after it.
Stores(X, d, c, m, fresh, e, k) ==
  /\ m.id \notin Stored(d) /\ m.id \notin RefusedEvent
  /\ k \in [sid : X, start : Int, last : Int, seq : Seq(EventId)]
  /\ e.events = d.events \cup {[id |-> m.id, actor |-> m.actor, sid |-> k.sid]}
  /\ e.claims = ClaimsWith(d, k.sid, m)
  /\ \/ Joins(c, m, k) /\ e.sessions = d.sessions
     \/ Begins(c, m, fresh, k)
          /\ e.sessions = d.sessions \cup (IF c = NoCursor THEN {} ELSE {Closed(m.actor, c)})

\* One that is not: discarded, stored before, or refused.
Discards(d, c, m, fresh, e) ==
  /\ m.product # NoProduct /\ e.claims = d.claims
  /\ \E sid : ClaimSid(c, m, fresh, sid) /\ <<sid, m.product>> \in d.claims

Repeats(d, c, m, fresh, e) ==
  m.id \in Stored(d) /\ \E sid : ClaimSid(c, m, fresh, sid) /\ e.claims = ClaimsWith(d, sid, m)

Refuses(d, c, m, e) == e.claims = d.claims /\ (m.id \in RefusedEvent \/ Stuck(c))

Leaves(d, c, m, fresh, r) ==
  /\ r.cursor = c /\ r.db.events = d.events /\ r.db.sessions = d.sessions
  /\ \/ Discards(d, c, m, fresh, r.db) /\ r.outcome # "refused"
     \/ Repeats(d, c, m, fresh, r.db) /\ r.outcome # "refused"
     \/ Refuses(d, c, m, r.db) /\ r.outcome = "refused"

\* Where a message goes, and why.
Timed(c, m, fresh, t) ==
  \/ Within(c, m) /\ ~t.new /\ t.sid = c.sid /\ t.start = c.start
  \/ (c # NoCursor => ~Within(c, m)) /\ t.new /\ t.sid = fresh /\ t.start = m.at

LEMMA TimingIs ==
  ASSUME NEW c, NEW m, NEW fresh
  PROVE  Timed(c, m, fresh, ResolveTiming(c, m.at, fresh))
BY DEF ResolveTiming, Within, Timed


\* commit_event: the cursor after the message.
LEMMA CursorAfter ==
  ASSUME NEW X, X \subseteq Nat \X Nat, NEW c \in CursorOver(X), NEW m \in Message, NEW fresh \in X
  PROVE  LET t == ResolveTiming(c, m.at, fresh)
             k == CommitEvent(c, t, m)
         IN  /\ k \in [sid : X, start : Int, last : Int, seq : Seq(EventId)]
             /\ k.sid = t.sid
             /\ \/ Joins(c, m, k) /\ ~t.new
                \/ /\ t.new /\ (c # NoCursor => ~Within(c, m))
                   /\ k.sid = fresh /\ k.start = m.at /\ k.last = m.at /\ k.seq = <<m.id>>
<1> DEFINE t == ResolveTiming(c, m.at, fresh)
           k == CommitEvent(c, t, m)
<1>1. k = [sid   |-> t.sid,
           start |-> t.start,
           last  |-> IF t.new THEN m.at ELSE Later(c.last, m.at),
           seq   |-> IF t.new THEN <<m.id>> ELSE Append(c.seq, m.id)]
  BY DEF CommitEvent
<1>2. Timed(c, m, fresh, t)
  BY TimingIs, Zenon
<1>3. Committed(X, c, m, fresh, t, k)
  BY CommitIs, Zenon
<1> HIDE DEF t, k
<1>4. \/ Joins(c, m, k) /\ ~t.new
      \/ /\ t.new /\ (c # NoCursor => ~Within(c, m))
         /\ k.sid = fresh /\ k.start = m.at /\ k.last = m.at /\ k.seq = <<m.id>>
  BY <1>1, <1>2 DEF Joins, Timed
<1>5. k \in [sid : X, start : Int, last : Int, seq : Seq(EventId)] /\ k.sid = t.sid
  BY <1>3 DEF Committed
<1> QED BY <1>4, <1>5 DEF t, k

\* What is stored has not been refused, nor has the session it closes.
LEMMA AppliedAccepted ==
  ASSUME NEW d, NEW c, NEW m, NEW fresh, ApplyOne(d, c, m, fresh).outcome = "applied"
  PROVE  /\ m.id \notin RefusedEvent
         /\ m.actor # NoActor /\ c # NoCursor /\ ResolveTiming(c, m.at, fresh).new => ~Stuck(c)
<1> DEFINE t == ResolveTiming(c, m.at, fresh)
           claimed == IF m.product # NoProduct THEN Claim(d, t.sid, m.product) ELSE d
           stored == Insert(claimed, m, t.sid)
           closes == m.actor # NoActor /\ t.new /\ c # NoCursor
           r == ApplyOne(d, c, m, fresh)
<1>1. r = IF m.product # NoProduct /\ Claimed(d, t.sid, m.product)
            THEN [db |-> d, cursor |-> c, outcome |-> "deduped"]
          ELSE IF m.id \in RefusedEvent
            THEN [db |-> RolledBack(d, claimed), cursor |-> c, outcome |-> "refused"]
          ELSE IF IsDuplicate(d, m)
            THEN [db |-> claimed, cursor |-> c, outcome |-> "duplicate"]
          ELSE IF closes /\ Ids(c.seq) \cap RefusedSession # {}
            THEN [db |-> RolledBack(d, stored), cursor |-> c, outcome |-> "refused"]
          ELSE [db |-> IF closes THEN UpsertSession(stored, Closed(m.actor, c)) ELSE stored,
                cursor |-> IF m.actor = NoActor THEN c ELSE CommitEvent(c, t, m),
                outcome |-> "applied"]
  BY DEF ApplyOne
<1>2. r.outcome = "applied"
  OBVIOUS
<1> HIDE DEF r, t, claimed, stored
<1>3. m.id \notin RefusedEvent /\ ~(closes /\ Ids(c.seq) \cap RefusedSession # {})
  BY <1>1, <1>2
<1> QED BY <1>3 DEF t, Stuck


\* What _apply_one leaves of a message of an identified actor.
LEMMA MessageLeaves ==
  ASSUME NEW X, X \subseteq Nat \X Nat, NEW d \in DbOver(X), NEW c \in CursorOver(X),
         NEW m \in Message, m.actor # NoActor, NEW fresh \in X,
         \A s \in d.sessions : c # NoCursor => s.sid # c.sid
  PROVE  LET r == ApplyOne(d, c, m, fresh)
         IN  \/ Stores(X, d, c, m, fresh, r.db, r.cursor) /\ r.outcome = "applied"
             \/ Leaves(d, c, m, fresh, r)
<1> DEFINE t == ResolveTiming(c, m.at, fresh)
           r == ApplyOne(d, c, m, fresh)
           k == CommitEvent(c, t, m)
<1>1. Deduped(d, c, m, t, r) \/ Refused(d, c, m, t, r)
        \/ Duplicate(d, c, m, t, r) \/ Applied(d, c, m, t, r)
  BY ApplyIs, Zenon
<1>2. ClaimSid(c, m, fresh, t.sid)
  <2>1. Timed(c, m, fresh, t)
    BY TimingIs, Zenon
  <2> HIDE DEF t
  <2> QED BY <2>1 DEF Timed, ClaimSid
<1>3. /\ k \in [sid : X, start : Int, last : Int, seq : Seq(EventId)]
      /\ k.sid = t.sid
      /\ \/ Joins(c, m, k) /\ ~t.new
         \/ /\ t.new /\ (c # NoCursor => ~Within(c, m))
            /\ k.sid = fresh /\ k.start = m.at /\ k.last = m.at /\ k.seq = <<m.id>>
  BY CursorAfter
<1>4. r.outcome = "applied" =>
        /\ m.id \notin RefusedEvent
        /\ c # NoCursor /\ t.new => ~Stuck(c)
  BY AppliedAccepted
<1> HIDE DEF r, t, k
<1>5. CASE Deduped(d, c, m, t, r)
  <2>1. Discards(d, c, m, fresh, r.db)
    BY <1>2, <1>5 DEF Deduped, Discards
  <2>2. Leaves(d, c, m, fresh, r)
    BY <1>5, <2>1 DEF Deduped, Leaves
  <2> QED BY <2>2 DEF r
<1>6. CASE Refused(d, c, m, t, r)
  <2>1. Refuses(d, c, m, r.db)
    BY <1>6 DEF Refused, Refuses, Stuck
  <2>2. Leaves(d, c, m, fresh, r)
    BY <1>6, <2>1 DEF Refused, Leaves
  <2> QED BY <2>2 DEF r
<1>7. CASE Duplicate(d, c, m, t, r)
  <2>1. /\ r.outcome = "duplicate" /\ r.cursor = c /\ m.id \in Stored(d)
        /\ r.db.claims = ClaimsWith(d, t.sid, m) /\ r.db.events = d.events
        /\ r.db.sessions = d.sessions
    BY <1>7 DEF Duplicate
  <2>2. Repeats(d, c, m, fresh, r.db)
    BY <1>2, <2>1 DEF Repeats
  <2>3. Leaves(d, c, m, fresh, r)
    BY <2>1, <2>2 DEF Leaves
  <2> QED BY <2>3 DEF r
<1>8. CASE Applied(d, c, m, t, r)
  <2>1. /\ r.outcome = "applied" /\ m.id \notin Stored(d)
        /\ r.db.claims = ClaimsWith(d, t.sid, m)
        /\ r.db.events = d.events \cup {[id |-> m.id, actor |-> m.actor, sid |-> t.sid]}
        /\ r.db.sessions = SessionsWith(d, c, m, t)
        /\ r.cursor = k
    BY <1>8 DEF Applied, k
  <2>2. CASE Joins(c, m, k) /\ ~t.new
    <3>1. r.db.sessions = d.sessions
      BY <2>1, <2>2 DEF SessionsWith
    <3>2. Stores(X, d, c, m, fresh, r.db, r.cursor)
      BY <1>3, <1>4, <2>1, <2>2, <3>1 DEF Stores
    <3> QED BY <2>1, <3>2 DEF r
  <2>3. CASE /\ t.new /\ (c # NoCursor => ~Within(c, m))
             /\ k.sid = fresh /\ k.start = m.at /\ k.last = m.at /\ k.seq = <<m.id>>
    <3>1. Begins(c, m, fresh, k)
      BY <1>4, <2>1, <2>3 DEF Begins
    <3>2. CASE c = NoCursor
      <4>1. r.db.sessions = d.sessions \cup {}
        BY <2>1, <3>2 DEF SessionsWith
      <4>2. Stores(X, d, c, m, fresh, r.db, r.cursor)
        BY <1>3, <1>4, <2>1, <3>1, <3>2, <4>1 DEF Stores
      <4> QED BY <2>1, <4>2 DEF r
    <3>3. CASE c # NoCursor
      <4>1. {s \in d.sessions : s.sid # c.sid} = d.sessions
        BY <3>3
      <4>2. r.db.sessions = d.sessions \cup {Closed(m.actor, c)}
        BY <2>1, <2>3, <3>3, <4>1 DEF SessionsWith
      <4>3. Stores(X, d, c, m, fresh, r.db, r.cursor)
        BY <1>3, <1>4, <2>1, <3>1, <3>3, <4>2 DEF Stores
      <4> QED BY <2>1, <4>3 DEF r
    <3> QED BY <3>2, <3>3
  <2> QED BY <1>3, <2>2, <2>3
<1> QED BY <1>1, <1>5, <1>6, <1>7, <1>8

\* What it leaves of a message without identity: a session id nobody else uses.
Aside(d, m, fresh, r) ==
  /\ r.db.sessions = d.sessions
  /\ \/ r.db.claims = d.claims \/ (r.db.claims = ClaimsWith(d, fresh, m))
  /\ \/ /\ m.id \notin RefusedEvent /\ m.id \notin Stored(d)
        /\ r.db.events = d.events \cup {[id |-> m.id, actor |-> m.actor, sid |-> fresh]}
     \/ /\ r.db.events = d.events
        /\ \/ m.id \in Stored(d)
           \/ r.outcome = "refused" /\ m.id \in RefusedEvent
           \/ \E p : <<fresh, p>> \in d.claims

LEMMA ActorlessLeaves ==
  ASSUME NEW X, NEW d \in DbOver(X), NEW m \in Message, m.actor = NoActor, NEW fresh
  PROVE  Aside(d, m, fresh, ApplyOne(d, NoCursor, m, fresh))
<1> DEFINE t == ResolveTiming(NoCursor, m.at, fresh)
           r == ApplyOne(d, NoCursor, m, fresh)
<1>1. Deduped(d, NoCursor, m, t, r) \/ Refused(d, NoCursor, m, t, r)
        \/ Duplicate(d, NoCursor, m, t, r) \/ Applied(d, NoCursor, m, t, r)
  BY ApplyIs, Zenon
<1>2. t.sid = fresh
  BY ResolveIs
<1>3. r.outcome = "applied" => m.id \notin RefusedEvent
  BY AppliedAccepted
<1> HIDE DEF r, t
<1>4. CASE Deduped(d, NoCursor, m, t, r)
  <2>1. Aside(d, m, fresh, r)
    BY <1>2, <1>4 DEF Deduped, Aside
  <2> QED BY <2>1 DEF r
<1>5. CASE Refused(d, NoCursor, m, t, r)
  <2>1. Aside(d, m, fresh, r)
    BY <1>5 DEF Refused, Aside
  <2> QED BY <2>1 DEF r
<1>6. CASE Duplicate(d, NoCursor, m, t, r)
  <2>1. /\ m.id \in Stored(d) /\ r.db.claims = ClaimsWith(d, fresh, m)
        /\ r.db.events = d.events /\ r.db.sessions = d.sessions
    BY <1>2, <1>6 DEF Duplicate
  <2>2. Aside(d, m, fresh, r)
    BY <2>1 DEF Aside
  <2> QED BY <2>2 DEF r
<1>7. CASE Applied(d, NoCursor, m, t, r)
  <2>1. /\ m.id \notin Stored(d) /\ r.outcome = "applied"
        /\ r.db.claims = ClaimsWith(d, fresh, m)
        /\ r.db.events = d.events \cup {[id |-> m.id, actor |-> m.actor, sid |-> fresh]}
        /\ r.db.sessions = SessionsWith(d, NoCursor, m, t)
    BY <1>2, <1>7 DEF Applied
  <2>2. r.db.sessions = d.sessions
    BY <2>1 DEF SessionsWith
  <2>3. Aside(d, m, fresh, r)
    BY <1>3, <2>1, <2>2 DEF Aside
  <2> QED BY <2>3 DEF r
<1> QED BY <1>1, <1>4, <1>5, <1>6, <1>7


-----------------------------------------------------------------------------
(* Which visit a message is in *)

\* Records with one event id are one message.
OneEach(l) == \A i, j \in 1 .. Len(l) : l[i].id = l[j].id => l[i] = l[j]

\* A message that is late, but tolerated, is not later than the timeout.
TimeoutSuffices == Tolerance <= Timeout

\* A message that joins a session comes without a pause from its last event.
LEMMA JoinNear ==
  ASSUME TimeoutSuffices, NEW l \in Seq(Message), NEW a,
         NEW i \in 1 .. Len(l), l[i].actor = a, NEW j \in 1 .. Len(l), l[j].actor = a,
         NEW c, l[j].at = c.last, Within(c, l[i])
  PROVE  Near(l, a, c.last, l[i].at)
<1>1. /\ \A k \in 1 .. Len(l) : l[k].at \in Int
      /\ l[i].at \in Int /\ c.last \in Int
      /\ Timeout \in Int /\ Tolerance \in Int /\ Tolerance <= Timeout
  <2>1. \A k \in 1 .. Len(l) : l[k] \in Message
    OBVIOUS
  <2>2. \A k \in 1 .. Len(l) : l[k].at \in Int
    BY <2>1 DEF Message
  <2>3. Timeout \in Int /\ Tolerance \in Int /\ Tolerance <= Timeout
    BY WriterAssumption DEF TimeoutSuffices
  <2> QED BY <2>2, <2>3
<1>2. ~(l[i].at - c.last > Timeout) /\ ~(l[i].at - c.last < -Tolerance)
  BY DEF Within
<1> SUFFICES ASSUME NEW g \in {l[k].at : k \in 1 .. Len(l)},
                    \A k \in 1 .. Len(l) : l[k].actor = a => l[k].at <= g \/ l[k].at > g + Timeout
             PROVE  c.last <= g <=> l[i].at <= g
  BY DEF Near
<1>3. g \in Int
  BY <1>1
<1>4. l[i].at <= g \/ l[i].at > g + Timeout
  OBVIOUS
<1>5. c.last <= g \/ c.last > g + Timeout
  OBVIOUS
<1> HIDE DEF Near
<1> QED BY <1>1, <1>2, <1>3, <1>4, <1>5

LEMMA NearOn ==
  ASSUME NEW l, NEW a, NEW r, NEW s, NEW t, Near(l, a, r, s), Near(l, a, s, t)
  PROVE  Near(l, a, r, t)
BY DEF Near

LEMMA NearSame ==
  ASSUME NEW l, NEW a, NEW t
  PROVE  Near(l, a, t, t)
BY DEF Near

LEMMA IdsAppend ==
  ASSUME NEW q \in Seq(EventId), NEW id \in EventId
  PROVE  Ids(Append(q, id)) = Ids(q) \cup {id}
<1> DEFINE p == Append(q, id)
<1>1. Len(p) = Len(q) + 1 /\ p[Len(q) + 1] = id /\ \A n \in 1 .. Len(q) : p[n] = q[n]
  OBVIOUS
<1>2. Len(q) \in Nat
  OBVIOUS
<1> HIDE DEF p
<1>3. 1 .. Len(p) = (1 .. Len(q)) \cup {Len(q) + 1}
  BY <1>1, <1>2
<1>4. Ids(p) = Ids(q) \cup {id}
  BY <1>1, <1>3 DEF Ids
<1> QED BY <1>4 DEF p

LEMMA IdsAlone ==
  ASSUME NEW id PROVE Ids(<<id>>) = {id}
BY DEF Ids

\* The records of a session that a message has joined, or begun.
Joined(l, i, q, seq) ==
  /\ i \in StepsIn(l, seq) /\ StepsIn(l, q) \subseteq StepsIn(l, seq)
  /\ \A j \in StepsIn(l, seq) : j \in StepsIn(l, q) \/ l[j] = l[i]

LEMMA StepsJoined ==
  ASSUME NEW l \in Seq(Message), OneEach(l), NEW i \in 1 .. Len(l), NEW q \in Seq(EventId)
  PROVE  Joined(l, i, q, Append(q, l[i].id))
<1>1. Ids(Append(q, l[i].id)) = Ids(q) \cup {l[i].id}
  <2>1. l[i] \in Message
    OBVIOUS
  <2>2. l[i].id \in EventId
    BY <2>1 DEF Message
  <2> QED BY <2>2, IdsAppend
<1>2. PICK seq : seq = Append(q, l[i].id)
  OBVIOUS
<1>3. Joined(l, i, q, seq)
  BY <1>1, <1>2 DEF Joined, StepsIn, OneEach
<1> QED BY <1>2, <1>3

LEMMA StepsBegun ==
  ASSUME NEW l \in Seq(Message), OneEach(l), NEW i \in 1 .. Len(l), NEW k, k.seq = <<l[i].id>>
  PROVE  i \in StepsIn(l, k.seq) /\ \A j \in StepsIn(l, k.seq) : l[j] = l[i]
<1>1. Ids(k.seq) = {l[i].id}
  BY IdsAlone
<1> QED BY <1>1 DEF StepsIn, OneEach


\* A view of the database, before a message of the actor.
Facing(X, l, M, d, K, a, i, fresh) ==
  /\ X \subseteq Nat \X Nat /\ l \in Seq(Message) /\ OneEach(l)
  /\ d \in DbOver(X) /\ K \in [Actor -> CursorOver(X)]
  /\ Sound(l, M, d, K) /\ Visited(l, M, d, K)
  /\ i \in 1 .. Len(l) /\ a \in Actor /\ l[i].actor = a
  /\ fresh \in X /\ fresh \notin M

LEMMA FacingCursor ==
  ASSUME NEW X, NEW l, NEW M, NEW d, NEW K, NEW a, NEW i, NEW fresh,
         Facing(X, l, M, d, K, a, i, fresh)
  PROVE  /\ l[i] \in Message /\ K[a] \in CursorOver(X)
         /\ \A b \in Actor : K[b] # NoCursor =>
              /\ K[b] \in [sid : X, start : Int, last : Int, seq : Seq(EventId)]
              /\ K[b].sid \in M /\ l[K[b].sid[1]].actor = b /\ K[b].sid # fresh
              /\ K[b].start <= K[b].last
              /\ \A s \in d.sessions : s.sid # K[b].sid
              /\ K[b].sid = K[a].sid => K[a] = NoCursor \/ b = a
<1>1. l[i] \in Message /\ \A b \in Actor : K[b] \in CursorOver(X)
  BY DEF Facing
<1>2. OpenSound(l, M, d.sessions, K) /\ fresh \notin M /\ a \in Actor
  BY DEF Facing, Sound
<1>3. ASSUME NEW b \in Actor, K[b] # NoCursor
      PROVE  /\ K[b].sid \in M /\ l[K[b].sid[1]].actor = b /\ K[b].sid # fresh
             /\ K[b].start <= K[b].last
             /\ \A s \in d.sessions : s.sid # K[b].sid
  BY <1>2, <1>3 DEF OpenSound
<1>4. \A b \in Actor : K[b] # NoCursor =>
        K[b] \in [sid : X, start : Int, last : Int, seq : Seq(EventId)]
  BY <1>1 DEF CursorOver
<1> QED BY <1>1, <1>2, <1>3, <1>4

LEMMA FacingNear ==
  ASSUME TimeoutSuffices, NEW X, NEW l, NEW M, NEW d, NEW K, NEW a, NEW i, NEW fresh,
         Facing(X, l, M, d, K, a, i, fresh), Within(K[a], l[i])
  PROVE  Near(l, a, K[a].last, l[i].at)
<1>1. l \in Seq(Message) /\ i \in 1 .. Len(l) /\ a \in Actor /\ l[i].actor = a
  BY DEF Facing
<1>2. PICK j \in StepsIn(l, K[a].seq) : l[j].at = K[a].last
  BY DEF Facing, Visited, LastSound, Within
<1>3. j \in 1 .. Len(l) /\ l[j].actor = a
  BY <1>2 DEF Facing, Visited, LastSound, Within, StepsIn
<1> QED BY <1>1, <1>2, <1>3, JoinNear, Zenon


\* The cursor of the actor after a message that is stored.
LEMMA LastKept ==
  ASSUME NEW X, NEW l, NEW M, NEW d, NEW K, NEW a, NEW i, NEW fresh,
         Facing(X, l, M, d, K, a, i, fresh), NEW e, NEW k,
         Stores(X, d, K[a], l[i], fresh, e, k)
  PROVE  LastSound(l, [K EXCEPT ![a] = k])
<1> DEFINE c == K[a]
           m == l[i]
           K2 == [K EXCEPT ![a] = k]
<1>1. /\ l \in Seq(Message) /\ OneEach(l) /\ i \in 1 .. Len(l) /\ a \in Actor /\ m.actor = a
      /\ \A b \in Actor : K2[b] = IF b = a THEN k ELSE K[b]
  BY DEF Facing
<1>2. m \in Message /\ LastSound(l, K) /\ (c # NoCursor => c.last \in Int /\ c.seq \in Seq(EventId))
  BY FacingCursor DEF Facing, Visited
<1>3. /\ \E j \in StepsIn(l, k.seq) : l[j].at = k.last
      /\ \A j \in StepsIn(l, k.seq) : l[j].actor = a /\ l[j].at <= k.last
  <2>1. CASE Joins(c, m, k)
    <3>1. k.last = Later(c.last, m.at) /\ k.seq = Append(c.seq, m.id) /\ c # NoCursor
      BY <2>1 DEF Joins, Within
    <3>2. /\ i \in StepsIn(l, k.seq) /\ StepsIn(l, c.seq) \subseteq StepsIn(l, k.seq)
          /\ \A j \in StepsIn(l, k.seq) : j \in StepsIn(l, c.seq) \/ l[j] = l[i]
      <4>1. PICK q \in Seq(EventId) : q = c.seq
        BY <1>2, <3>1
      <4>2. l \in Seq(Message) /\ OneEach(l) /\ i \in 1 .. Len(l)
        BY <1>1
      <4>3. Joined(l, i, q, Append(q, l[i].id))
        BY <4>2, StepsJoined
      <4>4. Joined(l, i, c.seq, k.seq)
        BY <3>1, <4>1, <4>3
      <4> QED BY <4>4 DEF Joined
    <3>3. /\ \E j \in StepsIn(l, c.seq) : l[j].at = c.last
          /\ \A j \in StepsIn(l, c.seq) : l[j].actor = a /\ l[j].at <= c.last
      BY <1>1, <1>2, <3>1 DEF LastSound
    <3>4. m.at \in Int /\ c.last \in Int /\ \A j \in StepsIn(l, c.seq) : l[j].at \in Int
      <4>1. \A j \in 1 .. Len(l) : l[j] \in Message
        BY <1>1
      <4>2. \A j \in 1 .. Len(l) : l[j].at \in Int
        BY <4>1 DEF Message
      <4>3. StepsIn(l, c.seq) \subseteq 1 .. Len(l)
        BY DEF StepsIn
      <4> QED BY <1>1, <1>2, <3>1, <4>2, <4>3
    <3>5. k.last = IF c.last > m.at THEN c.last ELSE m.at
      BY <3>1 DEF Later
    <3> HIDE DEF c
    <3>6. \E j \in StepsIn(l, k.seq) : l[j].at = k.last
      BY <3>2, <3>3, <3>5
    <3>7. \A j \in StepsIn(l, k.seq) : l[j].actor = a /\ l[j].at <= k.last
      <4> TAKE j \in StepsIn(l, k.seq)
      <4>1. CASE j \in StepsIn(l, c.seq)
        BY <3>3, <3>4, <3>5, <4>1
      <4>2. CASE l[j] = l[i]
        BY <1>1, <3>4, <3>5, <4>2
      <4> QED BY <3>2, <4>1, <4>2
    <3> QED BY <3>6, <3>7
  <2>2. CASE Begins(c, m, fresh, k)
    <3>1. k.last = m.at /\ k.seq = <<m.id>> /\ m.at \in Int
      BY <1>2, <2>2 DEF Begins, Message
    <3>2. i \in StepsIn(l, k.seq) /\ \A j \in StepsIn(l, k.seq) : l[j] = l[i]
      BY <1>1, <3>1, StepsBegun
    <3> QED BY <1>1, <3>1, <3>2
  <2> QED BY <2>1, <2>2 DEF Stores
<1> HIDE DEF K2
<1>4. LastSound(l, K2)
  BY <1>1, <1>2, <1>3 DEF LastSound
<1> QED BY <1>4 DEF K2

\* Who claims a product for an open session, after a message that is stored or
\* was stored before.
LEMMA ClaimsKeptNear ==
  ASSUME TimeoutSuffices, NEW X, NEW l, NEW M, NEW d, NEW K, NEW a, NEW i, NEW fresh,
         Facing(X, l, M, d, K, a, i, fresh), NEW e, NEW k, Stored(d) \subseteq Stored(e),
         l[i].id \in Stored(e), e.claims = ClaimsWith(d, k.sid, l[i]),
         \/ Within(K[a], l[i]) /\ k.sid = K[a].sid /\ k.last \in {K[a].last, l[i].at}
         \/ k.sid = fresh /\ k.last = l[i].at
  PROVE  ClaimsNear(l, M \cup {fresh}, e, [K EXCEPT ![a] = k])
<1> DEFINE c == K[a]
           m == l[i]
           K2 == [K EXCEPT ![a] = k]
           M2 == M \cup {fresh}
<1>1. /\ l \in Seq(Message) /\ i \in 1 .. Len(l) /\ a \in Actor /\ m.actor = a
      /\ \A b \in Actor : K2[b] = IF b = a THEN k ELSE K[b]
      /\ ClaimsNear(l, M, d, K) /\ fresh \notin M
  BY DEF Facing, Visited
<1>2. /\ c # NoCursor => c.sid \in M /\ c.sid # fresh
      /\ \A b \in Actor : K[b] # NoCursor =>
           K[b].sid \in M /\ K[b].sid # fresh /\ (K[b].sid = c.sid => c = NoCursor \/ b = a)
  BY <1>1, FacingCursor
<1>3. Within(c, m) => Near(l, a, c.last, m.at) /\ c # NoCursor
  BY FacingNear DEF Within
<1>4. Near(l, a, m.at, k.last)
  <2>1. CASE k.last = m.at
    BY <2>1, NearSame
  <2>2. CASE Within(c, m) /\ k.last = c.last
    <3>1. Near(l, a, m.at, c.last)
      BY <1>3, <2>2 DEF Near
    <3> QED BY <2>2, <3>1
  <2> QED BY <2>1, <2>2
<1>5. \A claim \in e.claims : claim \in d.claims \/ (claim = <<k.sid, m.product>> /\ m.product # NoProduct)
  BY DEF ClaimsWith
<1>6. k.sid \in M2
  BY <1>2, <1>3
<1>7. \A claim \in e.claims : claim[1] \in M2
  <2> TAKE claim \in e.claims
  <2>1. CASE claim \in d.claims
    BY <1>1, <2>1 DEF ClaimsNear
  <2>2. CASE claim = <<k.sid, m.product>>
    <3>1. claim[1] = k.sid
      BY <2>2
    <3> QED BY <1>6, <3>1
  <2> QED BY <1>5, <2>1, <2>2
<1> HIDE DEF K2, M2
<1>8. ASSUME NEW b \in Actor, NEW p \in Product, K2[b] # NoCursor, <<K2[b].sid, p>> \in e.claims
      PROVE  \E j \in 1 .. Len(l) :
               /\ l[j].actor = b /\ l[j].product = p /\ l[j].id \in Stored(e)
               /\ Near(l, b, l[j].at, K2[b].last)
  <2>1. CASE <<K2[b].sid, p>> = <<k.sid, m.product>>
    <3>1. K2[b].sid = k.sid /\ m.product = p
      BY <2>1
    <3>2. b = a
      BY <1>1, <1>2, <1>3, <1>8, <3>1
    <3>3. K2[b].last = k.last
      BY <1>1, <3>2
    <3> QED BY <1>1, <1>4, <3>1, <3>2, <3>3
  <2>2. CASE <<K2[b].sid, p>> \in d.claims
    <3>1. CASE b # a
      <4>1. K2[b] = K[b] /\ K[b] # NoCursor
        BY <1>1, <1>8, <3>1
      <4>2. \E j \in 1 .. Len(l) :
              /\ l[j].actor = b /\ l[j].product = p /\ l[j].id \in Stored(d)
              /\ Near(l, b, l[j].at, K[b].last)
        BY <1>1, <2>2, <4>1 DEF ClaimsNear
      <4> QED BY <4>1, <4>2
    <3>2. CASE b = a
      <4>1. K2[b] = k /\ <<k.sid, p>> \in d.claims
        BY <1>1, <2>2, <3>2
      <4>2. k.sid \in M
        <5>1. PICK claim \in d.claims : claim = <<k.sid, p>>
          BY <4>1
        <5>2. claim[1] = k.sid
          BY <5>1
        <5> QED BY <1>1, <5>2 DEF ClaimsNear
      <4>3. Within(c, m) /\ k.sid = c.sid /\ c # NoCursor
        BY <1>1, <1>3, <4>2
      <4>4. PICK j \in 1 .. Len(l) :
              /\ l[j].actor = a /\ l[j].product = p /\ l[j].id \in Stored(d)
              /\ Near(l, a, l[j].at, c.last)
        BY <1>1, <4>1, <4>3 DEF ClaimsNear
      <4>5. Near(l, a, l[j].at, k.last)
        BY <1>3, <1>4, <4>3, <4>4, NearOn
      <4> QED BY <3>2, <4>1, <4>4, <4>5
    <3> QED BY <3>1, <3>2
  <2> QED BY <1>5, <1>8, <2>1, <2>2
<1>9. ClaimsNear(l, M2, e, K2)
  BY <1>7, <1>8 DEF ClaimsNear
<1> QED BY <1>9 DEF K2, M2


LEMMA ClaimsAside ==
  ASSUME NEW l, NEW M, NEW d, NEW K, NEW fresh, ClaimsNear(l, M, d, K),
         \A b \in Actor : K[b] # NoCursor => K[b].sid # fresh,
         NEW e, Stored(d) \subseteq Stored(e),
         \A claim \in e.claims : claim \in d.claims \/ claim[1] = fresh
  PROVE  ClaimsNear(l, M \cup {fresh}, e, K)
<1>1. \A claim \in e.claims : claim[1] \in M \cup {fresh}
  BY DEF ClaimsNear
<1>2. ASSUME NEW b \in Actor, NEW p \in Product, K[b] # NoCursor, <<K[b].sid, p>> \in e.claims
      PROVE  \E j \in 1 .. Len(l) :
               /\ l[j].actor = b /\ l[j].product = p /\ l[j].id \in Stored(e)
               /\ Near(l, b, l[j].at, K[b].last)
  <2>1. PICK claim \in e.claims : claim = <<K[b].sid, p>>
    BY <1>2
  <2>2. claim[1] = K[b].sid
    BY <2>1
  <2>3. <<K[b].sid, p>> \in d.claims
    BY <1>2, <2>1, <2>2
  <2>4. PICK j \in 1 .. Len(l) :
          /\ l[j].actor = b /\ l[j].product = p /\ l[j].id \in Stored(d)
          /\ Near(l, b, l[j].at, K[b].last)
    BY <1>2, <2>3 DEF ClaimsNear
  <2> QED BY <2>4
<1> QED BY <1>1, <1>2 DEF ClaimsNear

LEMMA FreshClaim ==
  ASSUME NEW d, NEW e, NEW fresh, NEW m, e.claims = ClaimsWith(d, fresh, m)
  PROVE  \A claim \in e.claims : claim \in d.claims \/ claim[1] = fresh
<1> TAKE claim \in e.claims
<1>1. claim \in d.claims \/ claim = <<fresh, m.product>>
  BY DEF ClaimsWith
<1> QED BY <1>1

\* What is stored after a message.
LEMMA StoredWith ==
  ASSUME NEW d, NEW e, NEW new, e.events = d.events \cup {new}
  PROVE  Stored(e) = Stored(d) \cup {new.id}
BY DEF Stored

LEMMA VisitStored ==
  ASSUME TimeoutSuffices, NEW X, NEW l, NEW M, NEW d, NEW K, NEW a, NEW i, NEW fresh,
         Facing(X, l, M, d, K, a, i, fresh), NEW e, NEW k,
         Stores(X, d, K[a], l[i], fresh, e, k)
  PROVE  Visited(l, M \cup {fresh}, e, [K EXCEPT ![a] = k])
<1> DEFINE c == K[a]
           m == l[i]
<1>1. LastSound(l, [K EXCEPT ![a] = k])
  BY LastKept
<1>2. /\ e.events = d.events \cup {[id |-> m.id, actor |-> m.actor, sid |-> k.sid]}
      /\ e.claims = ClaimsWith(d, k.sid, m) /\ m.id \notin RefusedEvent
      /\ i \in 1 .. Len(l) /\ EventsFrom(l, d.events)
  BY DEF Stores, Facing, Visited
<1>3. Stored(e) = Stored(d) \cup {m.id}
  <2>1. PICK new : new = [id |-> m.id, actor |-> m.actor, sid |-> k.sid]
    OBVIOUS
  <2>2. Stored(e) = Stored(d) \cup {new.id} /\ new.id = m.id
    BY <1>2, <2>1, StoredWith
  <2> QED BY <2>2
<1>4. EventsFrom(l, e.events)
  BY <1>2 DEF EventsFrom
<1>5. \/ Within(c, m) /\ k.sid = c.sid /\ k.last \in {c.last, m.at}
      \/ k.sid = fresh /\ k.last = m.at
  BY DEF Stores, Joins, Begins, Later
<1>6. ClaimsNear(l, M \cup {fresh}, e, [K EXCEPT ![a] = k])
  BY <1>2, <1>3, <1>5, ClaimsKeptNear
<1> QED BY <1>1, <1>4, <1>6 DEF Visited

LEMMA VisitLeft ==
  ASSUME TimeoutSuffices, NEW X, NEW l, NEW M, NEW d, NEW K, NEW a, NEW i, NEW fresh,
         Facing(X, l, M, d, K, a, i, fresh), NEW r, Leaves(d, K[a], l[i], fresh, r)
  PROVE  Visited(l, M \cup {fresh}, r.db, [K EXCEPT ![a] = r.cursor])
<1> DEFINE c == K[a]
           m == l[i]
           e == r.db
<1>1. /\ e.events = d.events /\ Stored(e) = Stored(d)
      /\ LastSound(l, K) /\ EventsFrom(l, d.events) /\ ClaimsNear(l, M, d, K)
      /\ r.cursor = c /\ [K EXCEPT ![a] = c] = K
  BY DEF Leaves, Facing, Visited, Stored
<1>2. \A b \in Actor : K[b] # NoCursor => K[b].sid # fresh
  BY FacingCursor
<1>3. CASE e.claims = d.claims
  <2>1. ClaimsNear(l, M \cup {fresh}, e, K)
    BY <1>1, <1>2, <1>3, ClaimsAside
  <2> QED BY <1>1, <2>1 DEF Visited
<1>4. CASE Repeats(d, c, m, fresh, e)
  <2>1. PICK sid : ClaimSid(c, m, fresh, sid) /\ e.claims = ClaimsWith(d, sid, m)
    BY <1>4 DEF Repeats
  <2>2. m.id \in Stored(d)
    BY <1>4 DEF Repeats
  <2>3. CASE sid = fresh
    <3>1. \A claim \in e.claims : claim \in d.claims \/ claim[1] = fresh
      BY <2>1, <2>3, FreshClaim
    <3>2. ClaimsNear(l, M \cup {fresh}, e, K)
      BY <1>1, <1>2, <3>1, ClaimsAside
    <3> QED BY <1>1, <3>2 DEF Visited
  <2>4. CASE Within(c, m) /\ sid = c.sid
    <3>1. ClaimsNear(l, M \cup {fresh}, e, [K EXCEPT ![a] = c])
      BY <1>1, <2>1, <2>2, <2>4, ClaimsKeptNear
    <3> QED BY <1>1, <3>1 DEF Visited
  <2> QED BY <2>1, <2>3, <2>4 DEF ClaimSid
<1> QED BY <1>3, <1>4 DEF Leaves, Discards, Refuses


LEMMA NearNoPause ==
  ASSUME NEW a, NEW s, NEW t, Near(log, a, s, t)
  PROVE  NoPause(a, s, t)
BY DEF Near, NoPause, Pause, OfActor

\* A message that is discarded has been stored, or its row would be refused.
LEMMA DiscardsStored ==
  ASSUME TimeoutSuffices, NoneDiscarded,
         NEW X, NEW M, NEW d, NEW K, NEW a, NEW i, NEW fresh,
         Facing(X, log, M, d, K, a, i, fresh), NEW e, Discards(d, K[a], log[i], fresh, e)
  PROVE  Settled(log, d, i)
<1> DEFINE c == K[a]
           m == log[i]
<1>1. PICK sid : ClaimSid(c, m, fresh, sid) /\ <<sid, m.product>> \in d.claims
  BY DEF Discards
<1>2. /\ i \in 1 .. Len(log) /\ a \in Actor /\ m.actor = a /\ fresh \notin M
      /\ ClaimsNear(log, M, d, K) /\ EventsFrom(log, d.events) /\ OneEach(log)
      /\ m.product # NoProduct /\ m \in Message
  BY FacingCursor DEF Facing, Visited, Discards
<1>3. sid \in M
  <2>1. PICK claim \in d.claims : claim = <<sid, m.product>>
    BY <1>1
  <2>2. claim[1] = sid
    BY <2>1
  <2> QED BY <1>2, <2>1, <2>2 DEF ClaimsNear
<1>4. Within(c, m) /\ sid = c.sid /\ c # NoCursor /\ m.product \in Product
  BY <1>1, <1>2, <1>3 DEF ClaimSid, Within, Message
<1>5. PICK k \in 1 .. Len(log) :
        /\ log[k].actor = a /\ log[k].product = m.product /\ log[k].id \in Stored(d)
        /\ Near(log, a, log[k].at, c.last)
  BY <1>1, <1>2, <1>4 DEF ClaimsNear
<1>6. Near(log, a, c.last, m.at)
  BY <1>4, FacingNear
<1>7. NoPause(a, log[k].at, m.at)
  BY <1>5, <1>6, NearOn, NearNoPause
<1>8. log[k].id \notin RefusedEvent
  BY <1>2, <1>5 DEF Stored, EventsFrom
<1>9. CASE m.id \in RefusedEvent
  BY <1>9 DEF Settled
<1>10. CASE m.id \notin RefusedEvent
  <2>1. log[k].id = m.id
    <3>1. a # NoActor
      BY <1>2, WriterAssumption
    <3>2. /\ k \in {j \in 1 .. Len(log) : log[j].id \notin RefusedEvent}
          /\ i \in {j \in 1 .. Len(log) : log[j].id \notin RefusedEvent}
      BY <1>2, <1>5, <1>8, <1>10
    <3>3. /\ log[k].actor = log[i].actor /\ log[k].actor # NoActor
          /\ log[k].product = log[i].product /\ log[k].product # NoProduct
          /\ NoPause(log[k].actor, log[k].at, log[i].at)
      BY <1>2, <1>5, <1>7, <3>1
    <3> HIDE DEF m
    <3>4. log[k].id = log[i].id
      BY <3>2, <3>3 DEF NoneDiscarded
    <3> QED BY <3>4 DEF m
  <2> QED BY <1>5, <2>1 DEF Settled
<1> QED BY <1>9, <1>10

\* What becomes of a message of an identified actor.
LEMMA MessageSettled ==
  ASSUME TimeoutSuffices, NoneDiscarded,
         NEW X, NEW M, NEW d, NEW K, NEW a, NEW i, NEW fresh,
         Facing(X, log, M, d, K, a, i, fresh), NEW r,
         \/ Stores(X, d, K[a], log[i], fresh, r.db, r.cursor)
         \/ Leaves(d, K[a], log[i], fresh, r)
  PROVE  /\ Settled(log, r.db, i) \/ (r.outcome = "refused" /\ Stuck(r.cursor))
         /\ Stored(d) \subseteq Stored(r.db)
<1>1. CASE Stores(X, d, K[a], log[i], fresh, r.db, r.cursor)
  <2>1. PICK new : new = [id |-> log[i].id, actor |-> log[i].actor, sid |-> r.cursor.sid]
    OBVIOUS
  <2>2. r.db.events = d.events \cup {new} /\ new.id = log[i].id
    BY <1>1, <2>1 DEF Stores
  <2>3. Stored(r.db) = Stored(d) \cup {log[i].id}
    BY <2>2, StoredWith
  <2> QED BY <2>3 DEF Settled
<1>2. CASE Leaves(d, K[a], log[i], fresh, r)
  <2>1. Stored(r.db) = Stored(d) /\ r.cursor = K[a]
    BY <1>2 DEF Leaves, Stored
  <2>2. CASE Discards(d, K[a], log[i], fresh, r.db)
    <3>1. Settled(log, d, i)
      BY <2>2, DiscardsStored
    <3> QED BY <2>1, <3>1 DEF Settled
  <2>3. CASE Repeats(d, K[a], log[i], fresh, r.db)
    BY <2>1, <2>3 DEF Repeats, Settled
  <2>4. CASE Refuses(d, K[a], log[i], r.db) /\ r.outcome = "refused"
    BY <2>1, <2>4 DEF Refuses, Settled
  <2> QED BY <1>2, <2>1, <2>2, <2>3, <2>4 DEF Leaves
<1> QED BY <1>1, <1>2

\* An actor whose session cannot be closed stays with it.
LEMMA StaysStuck ==
  ASSUME NEW X, NEW d, NEW c \in CursorOver(X), NEW m \in Message, NEW fresh, NEW e, NEW k,
         X \subseteq Nat \X Nat, Stores(X, d, c, m, fresh, e, k), Stuck(c)
  PROVE  Stuck(k)
<1>1. c # NoCursor /\ k.seq = Append(c.seq, m.id)
  BY DEF Stores, Joins, Begins, Stuck
<1>2. c.seq \in Seq(EventId) /\ m.id \in EventId
  BY <1>1, CursorKind DEF Message
<1>3. Ids(k.seq) = Ids(c.seq) \cup {m.id}
  BY <1>1, <1>2, IdsAppend
<1>4. k # NoCursor
  BY NotNoCursor DEF Stores
<1> QED BY <1>3, <1>4 DEF Stuck


-----------------------------------------------------------------------------
(* A message in order *)

\* The actor's records that are to come, if any can, are not before the i-th.
Before(l, D, d, c, a, i) ==
  \A j \in 1 .. Len(l) :
    l[j].actor = a /\ j \notin D /\ ~Settled(l, d, j) =>
      Stuck(c) \/ l[i].at <= l[j].at + Tolerance

LEMMA InOrderStored ==
  ASSUME NEW X, NEW l, NEW M, NEW d, NEW K, NEW a, NEW i, NEW fresh,
         Facing(X, l, M, d, K, a, i, fresh), NEW D, InOrder(l, D, d, K),
         Before(l, D, d, K[a], a, i), NEW e, NEW k, Stores(X, d, K[a], l[i], fresh, e, k)
  PROVE  InOrder(l, D, e, [K EXCEPT ![a] = k])
<1> DEFINE c == K[a]
           m == l[i]
           K2 == [K EXCEPT ![a] = k]
<1>1. /\ l \in Seq(Message) /\ OneEach(l) /\ i \in 1 .. Len(l) /\ a \in Actor /\ m.actor = a
      /\ \A b \in Actor : K2[b] = IF b = a THEN k ELSE K[b]
      /\ X \subseteq Nat \X Nat
  BY DEF Facing
<1>2. m \in Message /\ c \in CursorOver(X)
  BY FacingCursor
<1>3. Stored(e) = Stored(d) \cup {m.id}
  <2>1. PICK new : new = [id |-> m.id, actor |-> m.actor, sid |-> k.sid]
    OBVIOUS
  <2>2. e.events = d.events \cup {new} /\ new.id = m.id
    BY <2>1 DEF Stores
  <2> QED BY <2>2, StoredWith
<1>4. (Stuck(c) => Stuck(k)) /\ k # NoCursor
  <2>1. k \in [sid : X, start : Int, last : Int, seq : Seq(EventId)]
    BY DEF Stores
  <2>2. Stuck(c) => Stuck(k)
    BY <1>1, <1>2, StaysStuck
  <2> QED BY <1>1, <2>1, <2>2, NotNoCursor
<1>5. \A j \in 1 .. Len(l) : l[j].at \in Int
  <2>1. \A j \in 1 .. Len(l) : l[j] \in Message
    BY <1>1
  <2> QED BY <2>1 DEF Message
<1>6. Timeout \in Nat /\ Tolerance \in Nat
  BY WriterAssumption
<1> HIDE DEF c, K2
<1>7. ASSUME NEW b \in Actor, NEW x \in 1 .. Len(l), NEW y \in 1 .. Len(l),
             l[x].actor = b, x \notin D, ~Settled(l, e, x), l[y].actor = b, l[y].id \in Stored(e)
      PROVE  \/ Stuck(K2[b])
             \/ K2[b] # NoCursor /\ l[y].at <= l[x].at + Tolerance
             \/ K2[b] = NoCursor /\ l[x].at - l[y].at > Timeout
  <2>1. ~Settled(l, d, x)
    BY <1>3, <1>7 DEF Settled
  <2>2. l[y].id \in Stored(d) =>
          \/ Stuck(K[b])
          \/ K[b] # NoCursor /\ l[y].at <= l[x].at + Tolerance
          \/ K[b] = NoCursor /\ l[x].at - l[y].at > Timeout
    BY <1>7, <2>1 DEF InOrder
  <2>3. CASE b # a
    <3>1. l[y].id \in Stored(d)
      BY <1>1, <1>3, <1>7, <2>3 DEF OneEach
    <3> QED BY <1>1, <2>2, <2>3, <3>1
  <2>4. CASE b = a /\ l[y].id \in Stored(d)
    <3>1. l[x].at \in Int /\ l[y].at \in Int
      BY <1>5
    <3> QED BY <1>1, <1>4, <1>6, <2>2, <2>4, <3>1 DEF c
  <2>5. CASE b = a /\ l[y].id = m.id
    <3>1. l[y] = l[i]
      BY <1>1, <2>5 DEF OneEach
    <3>2. Stuck(c) \/ l[i].at <= l[x].at + Tolerance
      BY <1>7, <2>1, <2>5 DEF Before, c
    <3> QED BY <1>1, <1>4, <2>5, <3>1, <3>2
  <2> QED BY <1>3, <1>7, <2>3, <2>4, <2>5
<1>8. InOrder(l, D, e, K2)
  BY <1>7 DEF InOrder
<1> QED BY <1>8 DEF K2

\* The session ends before one that its actor begins with a message in order.
LEMMA BeginsClear ==
  ASSUME TimeoutSuffices, NEW X, NEW l, NEW M, NEW d, NEW K, NEW a, NEW i, NEW fresh,
         Facing(X, l, M, d, K, a, i, fresh), NEW D, i \notin D, ~Settled(l, d, i),
         InOrder(l, D, d, K), Apart(l, d.sessions, K),
         K[a] # NoCursor => ~Within(K[a], l[i]) /\ ~Stuck(K[a])
  PROVE  /\ K[a] # NoCursor => Clear(l, K[a].seq, l[i].at)
         /\ \A s \in d.sessions : s.actor = a => Clear(l, s.seq, l[i].at)
<1> DEFINE c == K[a]
           m == l[i]
<1>1. /\ l \in Seq(Message) /\ OneEach(l) /\ i \in 1 .. Len(l) /\ a \in Actor /\ m.actor = a
      /\ LastSound(l, K) /\ StepsSound(d.events, d.sessions, K) /\ EventsFrom(l, d.events)
  BY DEF Facing, Sound, Visited
<1>2. /\ m \in Message /\ (c # NoCursor =>
           c.start \in Int /\ c.last \in Int /\ c.start <= c.last)
  BY <1>1, FacingCursor
<1>3. \A j \in 1 .. Len(l) : l[j].at \in Int
  <2>1. \A j \in 1 .. Len(l) : l[j] \in Message
    BY <1>1
  <2> QED BY <2>1 DEF Message
<1>4. Timeout \in Nat /\ Tolerance \in Nat /\ m.at \in Int
  BY <1>1, <1>3, WriterAssumption
<1>5. \A b \in Actor : \A s \in Rows(d.sessions, K, b) : \A j \in StepsIn(l, s.seq) :
        l[j].id \in Stored(d) /\ l[j].actor = b
  <2> TAKE b \in Actor
  <2> TAKE s \in Rows(d.sessions, K, b)
  <2> TAKE j \in StepsIn(l, s.seq)
  <2>1. PICK n \in 1 .. Len(s.seq) : s.seq[n] = l[j].id
    BY DEF StepsIn, Ids
  <2>2. PICK f : f = [id |-> s.seq[n], actor |-> b, sid |-> s.sid]
    OBVIOUS
  <2>3. f \in d.events /\ f.id = l[j].id /\ f.actor = b
    BY <1>1, <2>1, <2>2 DEF StepsSound
  <2>4. PICK y \in 1 .. Len(l) : l[y].id = f.id /\ l[y].actor = f.actor
    BY <1>1, <2>3 DEF EventsFrom
  <2>5. l[y] = l[j]
    BY <1>1, <2>3, <2>4 DEF OneEach, StepsIn
  <2> QED BY <2>3, <2>4, <2>5 DEF Stored
<1>6. \A y \in 1 .. Len(l) : l[y].actor = a /\ l[y].id \in Stored(d) =>
        \/ c # NoCursor /\ l[y].at <= m.at + Tolerance
        \/ c = NoCursor /\ m.at - l[y].at > Timeout
  BY <1>1 DEF InOrder, Stuck
<1> HIDE DEF c, m
<1>7. CASE c = NoCursor
  <2>1. \A s \in d.sessions : s.actor = a => Clear(l, s.seq, m.at)
    BY <1>1, <1>5, <1>6, <1>7 DEF Clear, Rows, StepsIn
  <2> QED BY <1>7, <2>1 DEF c, m
<1>8. CASE c # NoCursor
  <2>1. PICK y \in StepsIn(l, c.seq) : l[y].at = c.last
    BY <1>1, <1>8 DEF LastSound, c
  <2>2. Closed(a, c) \in Rows(d.sessions, K, a) /\ Closed(a, c).seq = c.seq
    BY <1>8 DEF Rows, Closed, c
  <2>3. c.last <= m.at + Tolerance
    BY <1>1, <1>5, <1>6, <1>8, <2>1, <2>2 DEF StepsIn
  <2>4. m.at - c.last > Timeout
    BY <1>2, <1>4, <1>8, <2>3 DEF Within, c, m
  <2>5. Clear(l, c.seq, m.at)
    <3> SUFFICES ASSUME NEW j \in StepsIn(l, c.seq) PROVE m.at - l[j].at > Timeout
      BY DEF Clear
    <3>1. l[j].at <= c.last /\ l[j].at \in Int
      BY <1>1, <1>3, <1>8 DEF LastSound, StepsIn, c
    <3> QED BY <1>2, <1>4, <1>8, <2>4, <3>1
  <2>6. ASSUME NEW s \in d.sessions, s.actor = a PROVE Clear(l, s.seq, m.at)
    <3>1. Clear(l, s.seq, c.start)
      BY <1>1, <1>8, <2>6 DEF Apart, c
    <3> SUFFICES ASSUME NEW j \in StepsIn(l, s.seq) PROVE m.at - l[j].at > Timeout
      BY DEF Clear
    <3>2. c.start - l[j].at > Timeout /\ l[j].at \in Int
      BY <1>3, <3>1 DEF Clear, StepsIn
    <3> QED BY <1>2, <1>4, <1>8, <2>4, <3>2
  <2> QED BY <2>5, <2>6 DEF c, m
<1> QED BY <1>7, <1>8


\* Sessions stay apart when a message is stored.
LEMMA ApartStored ==
  ASSUME TimeoutSuffices, NEW X, NEW l, NEW M, NEW d, NEW K, NEW a, NEW i, NEW fresh,
         Facing(X, l, M, d, K, a, i, fresh), NEW D, i \notin D,
         InOrder(l, D, d, K), Apart(l, d.sessions, K),
         NEW e, NEW k, Stores(X, d, K[a], l[i], fresh, e, k)
  PROVE  Apart(l, e.sessions, [K EXCEPT ![a] = k])
<1> DEFINE c == K[a]
           m == l[i]
           K2 == [K EXCEPT ![a] = k]
<1>1. /\ a \in Actor /\ m.actor = a
      /\ \A b \in Actor : K2[b] = IF b = a THEN k ELSE K[b]
  BY DEF Facing
<1>2. \A b \in Actor : \A s \in d.sessions : s.actor = b =>
        /\ \A t \in d.sessions : t.actor = b =>
             s = t \/ Clear(l, s.seq, t.start) \/ Clear(l, t.seq, s.start)
        /\ K[b] # NoCursor => Clear(l, s.seq, K[b].start)
  BY DEF Apart
<1>3. CASE Joins(c, m, k) /\ e.sessions = d.sessions
  <2>1. k.start = c.start /\ c # NoCursor
    BY <1>3 DEF Joins, Within
  <2> HIDE DEF K2
  <2>2. Apart(l, e.sessions, K2)
    BY <1>1, <1>2, <1>3, <2>1 DEF Apart
  <2> QED BY <2>2 DEF K2
<1>4. CASE /\ Begins(c, m, fresh, k)
           /\ e.sessions = d.sessions \cup (IF c = NoCursor THEN {} ELSE {Closed(m.actor, c)})
  <2>1. k.start = m.at /\ (c # NoCursor => ~Within(c, m) /\ ~Stuck(c))
    BY <1>4 DEF Begins
  <2>2. ~Settled(l, d, i)
    BY DEF Stores, Settled
  <2>3. /\ c # NoCursor => Clear(l, c.seq, m.at)
        /\ \A s \in d.sessions : s.actor = a => Clear(l, s.seq, m.at)
    BY <2>1, <2>2, BeginsClear
  <2>4. PICK z : z = Closed(a, c)
    OBVIOUS
  <2>5. z.actor = a /\ z.seq = c.seq /\ z.start = c.start
    BY <2>4 DEF Closed
  <2>6. \A s \in e.sessions : s \in d.sessions \/ (c # NoCursor /\ s = z)
    BY <1>1, <1>4, <2>4
  <2> HIDE DEF K2, c, m
  <2>7. ASSUME NEW b \in Actor, NEW s \in e.sessions, s.actor = b
        PROVE  /\ \A t \in e.sessions : t.actor = b =>
                    s = t \/ Clear(l, s.seq, t.start) \/ Clear(l, t.seq, s.start)
               /\ K2[b] # NoCursor => Clear(l, s.seq, K2[b].start)
    <3>1. \A t \in e.sessions : t.actor = b =>
            s = t \/ Clear(l, s.seq, t.start) \/ Clear(l, t.seq, s.start)
      BY <1>1, <1>2, <2>5, <2>6, <2>7 DEF c
    <3>2. CASE b = a
      <4>1. Clear(l, s.seq, m.at)
        BY <2>3, <2>5, <2>6, <2>7, <3>2
      <4> QED BY <1>1, <2>1, <3>1, <3>2, <4>1
    <3>3. CASE b # a
      BY <1>1, <1>2, <2>5, <2>6, <2>7, <3>1, <3>3
    <3> QED BY <3>2, <3>3
  <2>8. Apart(l, e.sessions, K2)
    BY <2>7 DEF Apart
  <2> QED BY <2>8 DEF K2
<1> QED BY <1>3, <1>4 DEF Stores

\* The claims stay backed when a message is stored.
LEMMA BackedStored ==
  ASSUME NEW X, NEW l, NEW M, NEW d, NEW K, NEW a, NEW i, NEW fresh,
         Facing(X, l, M, d, K, a, i, fresh), Backed(l, d.claims, d.sessions, K),
         NEW e, NEW k, Stores(X, d, K[a], l[i], fresh, e, k),
         NEW M2, Sound(l, M2, e, [K EXCEPT ![a] = k])
  PROVE  Backed(l, e.claims, e.sessions, [K EXCEPT ![a] = k])
<1> DEFINE c == K[a]
           m == l[i]
           K2 == [K EXCEPT ![a] = k]
<1>1. /\ l \in Seq(Message) /\ OneEach(l) /\ i \in 1 .. Len(l) /\ a \in Actor /\ m.actor = a
      /\ \A b \in Actor : K2[b] = IF b = a THEN k ELSE K[b]
      /\ X \subseteq Nat \X Nat /\ fresh \notin M /\ ClaimsNear(l, M, d, K)
  BY DEF Facing, Visited
<1>2. k # NoCursor /\ e.claims = ClaimsWith(d, k.sid, m)
  <2>1. k \in [sid : X, start : Int, last : Int, seq : Seq(EventId)]
    BY DEF Stores
  <2> QED BY <1>1, <2>1, NotNoCursor DEF Stores
<1>3. OpenSound(l, M2, e.sessions, K2)
  BY DEF Sound
<1>4. PICK z : z = Closed(a, k)
  OBVIOUS
<1>5. z.sid = k.sid /\ z.seq = k.seq
  BY <1>4 DEF Closed
<1>6. \A claim \in e.claims : claim \in d.claims \/ (claim = <<k.sid, m.product>>)
  BY <1>2 DEF ClaimsWith
<1>7. i \in StepsIn(l, k.seq) /\ (Joins(c, m, k) => StepsIn(l, c.seq) \subseteq StepsIn(l, k.seq))
  <2>1. l \in Seq(Message) /\ OneEach(l) /\ i \in 1 .. Len(l)
    BY <1>1
  <2>2. CASE Joins(c, m, k)
    <3>1. k.seq = Append(c.seq, m.id) /\ c # NoCursor
      BY <2>2 DEF Joins, Within
    <3>2. PICK q \in Seq(EventId) : q = c.seq
      BY <1>1, <3>1, FacingCursor
    <3>3. Joined(l, i, q, Append(q, l[i].id))
      BY <2>1, StepsJoined
    <3>4. Joined(l, i, c.seq, k.seq)
      BY <3>1, <3>2, <3>3
    <3> QED BY <3>4 DEF Joined
  <2>3. CASE Begins(c, m, fresh, k)
    <3>1. k.seq = <<m.id>>
      BY <2>3 DEF Begins
    <3>2. i \in StepsIn(l, k.seq)
      BY <2>1, <3>1, StepsBegun
    <3>3. ~Joins(c, m, k)
      BY <2>3 DEF Begins, Joins, Within
    <3> QED BY <3>2, <3>3
  <2> QED BY <2>2, <2>3 DEF Stores
<1>8. \A b \in Actor : \A s \in Rows(e.sessions, K2, b) :
        s \in Rows(d.sessions, K, b) \/ (b = a /\ s = z)
  <2> TAKE b \in Actor
  <2> TAKE s \in Rows(e.sessions, K2, b)
  <2>1. CASE s \in e.sessions /\ s.actor = b
    <3>1. CASE s \in d.sessions
      BY <2>1, <3>1 DEF Rows
    <3>2. CASE s = Closed(m.actor, c) /\ c # NoCursor
      <4>1. s.actor = a
        BY <1>1, <3>2 DEF Closed
      <4> QED BY <1>1, <2>1, <3>2, <4>1 DEF Rows
    <3> QED BY <2>1, <3>1, <3>2 DEF Stores
  <2>2. CASE K2[b] # NoCursor /\ s = Closed(b, K2[b])
    <3> HIDE DEF K2
    <3> QED BY <1>1, <1>4, <2>2 DEF Rows
  <2> QED BY <2>1, <2>2 DEF Rows
<1>9. k.sid = fresh \/ (Joins(c, m, k) /\ k.sid = c.sid /\ c # NoCursor)
  BY DEF Stores, Begins, Joins, Within
<1> HIDE DEF K2, c, m
<1>10. ASSUME NEW b \in Actor, NEW s \in Rows(e.sessions, K2, b), NEW p \in Product,
              <<s.sid, p>> \in e.claims
       PROVE  \E j \in StepsIn(l, s.seq) : l[j].product = p
  <2>1. CASE <<s.sid, p>> = <<k.sid, m.product>>
    <3>1. s.sid = k.sid /\ p = m.product
      BY <2>1
    <3>2. K2[a] = k /\ (\A t \in e.sessions : t.sid # k.sid) /\ l[k.sid[1]].actor = a
      BY <1>1, <1>2, <1>3 DEF OpenSound
    <3>3. s \notin e.sessions
      BY <3>1, <3>2
    <3>4. K2[b] # NoCursor /\ s = Closed(b, K2[b])
      BY <3>3 DEF Rows
    <3>5. s.sid = K2[b].sid /\ l[K2[b].sid[1]].actor = b
      BY <1>3, <3>4 DEF OpenSound, Closed
    <3>6. s = z
      BY <1>4, <3>1, <3>2, <3>4, <3>5
    <3> QED BY <1>5, <1>7, <3>1, <3>6 DEF m
  <2>2. CASE <<s.sid, p>> \in d.claims
    <3>1. CASE s \in Rows(d.sessions, K, b)
      BY <2>2, <3>1 DEF Backed
    <3>2. CASE b = a /\ s = z
      <4>1. s.sid = k.sid /\ s.seq = k.seq
        BY <1>5, <3>2
      <4>2. k.sid \in M
        <5>1. PICK claim \in d.claims : claim = <<s.sid, p>>
          BY <2>2
        <5>2. claim[1] = s.sid
          BY <5>1
        <5> QED BY <1>1, <4>1, <5>1, <5>2 DEF ClaimsNear
      <4>3. Joins(c, m, k) /\ k.sid = c.sid /\ c # NoCursor
        BY <1>1, <1>9, <4>2
      <4>4. Closed(a, c) \in Rows(d.sessions, K, a)
        BY <4>3 DEF Rows, c
      <4>5. PICK y : y = Closed(a, c)
        OBVIOUS
      <4>6. y.sid = c.sid /\ y.seq = c.seq /\ y \in Rows(d.sessions, K, a)
        BY <4>4, <4>5 DEF Closed
      <4>7. <<y.sid, p>> \in d.claims
        BY <2>2, <4>1, <4>3, <4>6
      <4>8. PICK j \in StepsIn(l, y.seq) : l[j].product = p
        BY <1>1, <4>6, <4>7 DEF Backed
      <4> QED BY <1>7, <4>1, <4>3, <4>6, <4>8
    <3> QED BY <1>8, <3>1, <3>2
  <2> QED BY <1>6, <1>10, <2>1, <2>2
<1>11. Backed(l, e.claims, e.sessions, K2)
  BY <1>10 DEF Backed
<1> QED BY <1>11 DEF K2


\* A claim with a session id that no session has backs nothing.
LEMMA BackedAside ==
  ASSUME NEW l, NEW M, NEW d, NEW K, Sound(l, M, d, K), Backed(l, d.claims, d.sessions, K),
         NEW fresh, fresh \notin M, NEW C,
         \A claim \in C : claim \in d.claims \/ claim[1] = fresh
  PROVE  Backed(l, C, d.sessions, K)
<1> SUFFICES ASSUME NEW b \in Actor, NEW s \in Rows(d.sessions, K, b), NEW p \in Product,
                    <<s.sid, p>> \in C
             PROVE  \E j \in StepsIn(l, s.seq) : l[j].product = p
  BY DEF Backed
<1>1. s.sid \in M
  BY DEF Sound, ClosedSound, OpenSound, Rows, Closed
<1>2. PICK claim \in C : claim = <<s.sid, p>>
  OBVIOUS
<1>3. claim[1] = s.sid
  BY <1>2
<1>4. <<s.sid, p>> \in d.claims
  BY <1>1, <1>2, <1>3
<1> QED BY <1>4 DEF Backed

\* A stored record is a step of a session of its actor.
LEMMA StoredIsStep ==
  ASSUME NEW l \in Seq(Message), OneEach(l), NEW d, NEW K,
         StepsSound(d.events, d.sessions, K), EventsFrom(l, d.events),
         NEW i \in 1 .. Len(l), NEW a \in Actor, l[i].actor = a, l[i].id \in Stored(d)
  PROVE  \E s \in Rows(d.sessions, K, a) : i \in StepsIn(l, s.seq)
<1>1. PICK f \in d.events : f.id = l[i].id
  BY DEF Stored
<1>2. f.actor = a /\ a # NoActor
  <2>1. PICK y \in 1 .. Len(l) : l[y].id = f.id /\ l[y].actor = f.actor
    BY DEF EventsFrom
  <2>2. l[y] = l[i]
    BY <1>1, <2>1 DEF OneEach
  <2> QED BY <2>1, <2>2, WriterAssumption
<1>3. PICK s \in Rows(d.sessions, K, a) : s.sid = f.sid /\ HasOnce(s.seq, f.id)
  BY <1>2 DEF StepsSound
<1>4. i \in StepsIn(l, s.seq)
  BY <1>1, <1>3 DEF HasOnce, StepsIn, Ids
<1> QED BY <1>3, <1>4

\* A record that comes again within the session it was stored in, or the one
\* after: it is a step of the open one.
LEMMA RepeatsInside ==
  ASSUME TimeoutSuffices, NEW X, NEW l, NEW M, NEW d, NEW K, NEW a, NEW i, NEW fresh,
         Facing(X, l, M, d, K, a, i, fresh), Apart(l, d.sessions, K),
         Within(K[a], l[i]), l[i].id \in Stored(d)
  PROVE  i \in StepsIn(l, K[a].seq)
<1> DEFINE c == K[a]
           m == l[i]
<1>1. /\ l \in Seq(Message) /\ OneEach(l) /\ i \in 1 .. Len(l) /\ a \in Actor /\ m.actor = a
      /\ StepsSound(d.events, d.sessions, K) /\ EventsFrom(l, d.events)
  BY DEF Facing, Sound, Visited
<1>2. /\ c # NoCursor /\ c.start \in Int /\ c.last \in Int /\ c.start <= c.last
  BY <1>1, FacingCursor DEF Within
<1>3. m.at \in Int /\ Timeout \in Nat /\ Tolerance \in Nat /\ Tolerance <= Timeout
  BY FacingCursor, WriterAssumption DEF Message, TimeoutSuffices
<1>7. PICK s \in Rows(d.sessions, K, a) : i \in StepsIn(l, s.seq)
  BY <1>1, StoredIsStep
<1>8. CASE s \in d.sessions /\ s.actor = a
  <2>1. Clear(l, s.seq, c.start)
    BY <1>1, <1>2, <1>8 DEF Apart
  <2>2. c.start - m.at > Timeout
    BY <1>7, <2>1 DEF Clear
  <2>3. ~(m.at - c.last < -Tolerance)
    BY DEF Within
  <2> HIDE DEF c, m
  <2> QED BY <1>2, <1>3, <2>2, <2>3
<1>9. CASE s = Closed(a, c)
  <2>1. s.seq = c.seq
    BY <1>9 DEF Closed
  <2> QED BY <1>7, <2>1
<1> QED BY <1>2, <1>7, <1>8, <1>9 DEF Rows

\* The claims stay backed when a message is not stored.
LEMMA BackedLeft ==
  ASSUME TimeoutSuffices, NEW X, NEW l, NEW M, NEW d, NEW K, NEW a, NEW i, NEW fresh,
         Facing(X, l, M, d, K, a, i, fresh), Apart(l, d.sessions, K),
         Backed(l, d.claims, d.sessions, K), NEW r, Leaves(d, K[a], l[i], fresh, r)
  PROVE  Backed(l, r.db.claims, d.sessions, K)
<1> DEFINE c == K[a]
           m == l[i]
           e == r.db
<1>1. CASE e.claims = d.claims
  BY <1>1
<1>2. CASE Repeats(d, c, m, fresh, e)
  <2>1. PICK sid : ClaimSid(c, m, fresh, sid) /\ e.claims = ClaimsWith(d, sid, m)
    BY <1>2 DEF Repeats
  <2>2. m.id \in Stored(d)
    BY <1>2 DEF Repeats
  <2>3. CASE sid = fresh
    <3>1. \A claim \in e.claims : claim \in d.claims \/ claim[1] = fresh
      BY <2>1, <2>3, FreshClaim
    <3>2. Sound(l, M, d, K) /\ fresh \notin M
      BY DEF Facing
    <3> QED BY <3>1, <3>2, BackedAside
  <2>4. CASE Within(c, m) /\ sid = c.sid
    <3>1. i \in StepsIn(l, c.seq)
      BY <2>2, <2>4, RepeatsInside
    <3>2. \A claim \in e.claims : claim \in d.claims \/ claim = <<c.sid, m.product>>
      BY <2>1, <2>4 DEF ClaimsWith
    <3>3. ASSUME NEW b \in Actor, NEW s \in Rows(d.sessions, K, b), NEW p \in Product,
                 <<s.sid, p>> \in e.claims
          PROVE  \E j \in StepsIn(l, s.seq) : l[j].product = p
      <4>1. CASE <<s.sid, p>> \in d.claims
        BY <4>1 DEF Backed
      <4>2. CASE <<s.sid, p>> = <<c.sid, m.product>>
        <5>1. s.sid = c.sid /\ p = m.product /\ c # NoCursor
          BY <2>4, <4>2 DEF Within
        <5>2. \A t \in d.sessions : t.sid # c.sid
          <6>1. a \in Actor
            BY DEF Facing
          <6> QED BY <5>1, <6>1, FacingCursor
        <5>3. K[b] # NoCursor /\ s = Closed(b, K[b])
          BY <5>1, <5>2 DEF Rows
        <5>4. K[b].sid = c.sid /\ s.seq = K[b].seq
          BY <5>1, <5>3 DEF Closed
        <5>5. b = a
          BY <5>1, <5>3, <5>4, FacingCursor
        <5> QED BY <3>1, <5>1, <5>4, <5>5
      <4> QED BY <3>2, <3>3, <4>1, <4>2
    <3> QED BY <3>3 DEF Backed
  <2> QED BY <2>1, <2>3, <2>4 DEF ClaimSid
<1> QED BY <1>1, <1>2 DEF Leaves, Discards, Refuses

\* Order is kept by a message of an identified actor.
LEMMA OrderedStored ==
  ASSUME TimeoutSuffices, NEW X, NEW l, NEW M, NEW d, NEW K, NEW a, NEW i, NEW fresh,
         Facing(X, l, M, d, K, a, i, fresh), NEW D, i \notin D, Ordered(l, D, d, K),
         Before(l, D, d, K[a], a, i), NEW e, NEW k, Stores(X, d, K[a], l[i], fresh, e, k),
         NEW M2, Sound(l, M2, e, [K EXCEPT ![a] = k])
  PROVE  Ordered(l, D, e, [K EXCEPT ![a] = k])
<1>1. Apart(l, d.sessions, K) /\ Backed(l, d.claims, d.sessions, K) /\ InOrder(l, D, d, K)
  BY DEF Ordered
<1>2. Apart(l, e.sessions, [K EXCEPT ![a] = k])
  BY <1>1, ApartStored
<1>3. Backed(l, e.claims, e.sessions, [K EXCEPT ![a] = k])
  BY <1>1, BackedStored
<1>4. InOrder(l, D, e, [K EXCEPT ![a] = k])
  BY <1>1, InOrderStored
<1> QED BY <1>2, <1>3, <1>4 DEF Ordered

LEMMA OrderedLeft ==
  ASSUME TimeoutSuffices, NEW X, NEW l, NEW M, NEW d, NEW K, NEW a, NEW i, NEW fresh,
         Facing(X, l, M, d, K, a, i, fresh), NEW D, Ordered(l, D, d, K),
         NEW r, Leaves(d, K[a], l[i], fresh, r)
  PROVE  Ordered(l, D, r.db, [K EXCEPT ![a] = r.cursor])
<1>1. Apart(l, d.sessions, K) /\ Backed(l, d.claims, d.sessions, K) /\ InOrder(l, D, d, K)
  BY DEF Ordered
<1>2. /\ r.db.sessions = d.sessions /\ Stored(r.db) = Stored(d)
      /\ [K EXCEPT ![a] = r.cursor] = K
  BY DEF Leaves, Facing, Stored
<1>3. Backed(l, r.db.claims, d.sessions, K)
  BY <1>1, BackedLeft
<1>4. InOrder(l, D, r.db, K)
  BY <1>1, <1>2 DEF InOrder, Settled
<1> QED BY <1>1, <1>2, <1>3, <1>4 DEF Ordered

\* A message without identity touches no visit.
LEMMA ActorlessVisit ==
  ASSUME NEW X, NEW l \in Seq(Message), OneEach(l), NEW M, NEW d, NEW K,
         Sound(l, M, d, K), Visited(l, M, d, K),
         NEW i \in 1 .. Len(l), l[i].actor = NoActor, NEW fresh, fresh \notin M,
         NEW r, Aside(d, l[i], fresh, r)
  PROVE  /\ Visited(l, M \cup {fresh}, r.db, K)
         /\ Settled(l, r.db, i) /\ Stored(d) \subseteq Stored(r.db)
         /\ \A D : Ordered(l, D, d, K) => Ordered(l, D, r.db, K)
<1> DEFINE m == l[i]
           e == r.db
<1>1. /\ e.sessions = d.sessions
      /\ \A claim \in e.claims : claim \in d.claims \/ claim[1] = fresh
  BY FreshClaim DEF Aside
<1>2. \A b \in Actor : K[b] # NoCursor => K[b].sid # fresh
  BY DEF Sound, OpenSound
<1>3. LastSound(l, K) /\ EventsFrom(l, d.events) /\ ClaimsNear(l, M, d, K)
  BY DEF Visited
<1>4. /\ Stored(e) = Stored(d) \/ Stored(e) = Stored(d) \cup {m.id}
      /\ Settled(l, e, i)
      /\ EventsFrom(l, e.events)
  <2>1. CASE /\ m.id \notin RefusedEvent
             /\ e.events = d.events \cup {[id |-> m.id, actor |-> m.actor, sid |-> fresh]}
    <3>1. PICK new : new = [id |-> m.id, actor |-> m.actor, sid |-> fresh]
      OBVIOUS
    <3>2. Stored(e) = Stored(d) \cup {new.id} /\ new.id = m.id /\ new.actor = m.actor
      BY <2>1, <3>1, StoredWith
    <3>3. EventsFrom(l, e.events)
      BY <1>3, <2>1, <3>1, <3>2 DEF EventsFrom
    <3> QED BY <3>2, <3>3 DEF Settled
  <2>2. CASE /\ e.events = d.events
             /\ m.id \in Stored(d) \/ m.id \in RefusedEvent \/ \E p : <<fresh, p>> \in d.claims
    <3>1. \A p : <<fresh, p>> \notin d.claims
      <4>1. \A claim \in d.claims : claim[1] # fresh
        BY <1>3 DEF ClaimsNear
      <4> TAKE p
      <4>2. PICK claim : claim = <<fresh, p>>
        OBVIOUS
      <4>3. claim[1] = fresh
        BY <4>2
      <4> QED BY <4>1, <4>2, <4>3
    <3>2. Stored(e) = Stored(d)
      BY <2>2 DEF Stored
    <3> QED BY <1>3, <2>2, <3>1, <3>2 DEF Settled
  <2> QED BY <2>1, <2>2 DEF Aside
<1>5. ClaimsNear(l, M \cup {fresh}, e, K)
  <2>1. Stored(d) \subseteq Stored(e)
    BY <1>4
  <2> QED BY <1>1, <1>2, <1>3, <2>1, ClaimsAside
<1>6. Visited(l, M \cup {fresh}, e, K)
  BY <1>3, <1>4, <1>5 DEF Visited
<1>7. ASSUME NEW D, Ordered(l, D, d, K)
      PROVE  Ordered(l, D, e, K)
  <2>1. Apart(l, d.sessions, K) /\ Backed(l, d.claims, d.sessions, K) /\ InOrder(l, D, d, K)
    BY <1>7 DEF Ordered
  <2>2. Backed(l, e.claims, d.sessions, K)
    BY <1>1, <2>1, BackedAside
  <2>3. InOrder(l, D, e, K)
    <3>1. \A y \in 1 .. Len(l) : l[y].actor \in Actor /\ l[y].id \in Stored(e) => l[y].id \in Stored(d)
      <4>1. \A y \in 1 .. Len(l) : l[y].id = m.id => l[y] = l[i]
        BY DEF OneEach
      <4> QED BY <1>4, <4>1, WriterAssumption
    <3>2. \A x \in 1 .. Len(l) : ~Settled(l, e, x) => ~Settled(l, d, x)
      BY <1>4 DEF Settled
    <3> QED BY <2>1, <3>1, <3>2 DEF InOrder
  <2> QED BY <1>1, <2>1, <2>2, <2>3 DEF Ordered
<1> QED BY <1>4, <1>6, <1>7


-----------------------------------------------------------------------------
(* Visits: every step of the writer *)

LEMMA VisitGrows ==
  ASSUME NEW l, NEW M, NEW M2, M \subseteq M2, NEW d, NEW K, Visited(l, M, d, K)
  PROVE  Visited(l, M2, d, K)
BY DEF Visited, ClaimsNear

\* What is said of the log stays so.
LEMMA LogFixed ==
  ASSUME log' = log
  PROVE  /\ (Plain' <=> Plain) /\ (WellSent' <=> WellSent)
         /\ (WellSent => Plain)
<1>1. /\ IdsNameMessages' <=> IdsNameMessages
      /\ SendOrdered' <=> SendOrdered
      /\ RefusedOnce' <=> RefusedOnce
  BY DEF IdsNameMessages, SendOrdered, RefusedOnce
<1>2. \A a, s, t : NoPause(a, s, t)' <=> NoPause(a, s, t)
  BY DEF NoPause, Pause, OfActor
<1>3. NoneDiscarded' <=> NoneDiscarded
  BY <1>2 DEF NoneDiscarded
<1> QED BY <1>1, <1>3 DEF Plain, WellSent

LEMMA MadeAtBegin ==
  ASSUME WriterInv, runs' = runs + 1, log' = log
  PROVE  Made \subseteq Made'
<1>1. runs \in Nat /\ SessionId' = SessionId /\ \A sid \in SessionId : sid[2] \in Nat
  BY Setup DEF WriterInv, SessionId
<1>2. \A sid \in SessionId : sid[2] <= runs => sid[2] <= runs' /\ sid[2] # runs'
  BY <1>1
<1> QED BY <1>1, <1>2 DEF Made

LEMMA EmptyVisited ==
  ASSUME NEW l, NEW M
  PROVE  Visited(l, M, EmptyDb, EmptyDb.cursors)
<1>1. /\ EmptyDb.claims = {} /\ EmptyDb.events = {}
      /\ \A a \in Actor : EmptyDb.cursors[a] = NoCursor
  BY DEF EmptyDb
<1> QED BY <1>1 DEF Visited, LastSound, EventsFrom, ClaimsNear

LEMMA PlainInit ==
  ASSUME Init PROVE PlainInv
<1>1. Whole
  <2>1. OfActor({}, NoActor) = {} /\ \A a \in Actor : OfActor({}, a) = {}
    BY DEF OfActor
  <2> QED BY <2>1 DEF Init, Whole
<1>2. VisitInv
  BY EmptyVisited DEF Init, VisitInv
<1>3. Kept
  BY DEF Init, Kept
<1> QED BY <1>1, <1>2, <1>3 DEF PlainInv

LEMMA BeginVisits ==
  ASSUME WriterInv, PlainInv, NEW i \in 1 .. Len(log), Begin(i)
  PROVE  PlainInv'
<1>1. /\ batch = {} /\ failed = {} /\ group = NoActor
      /\ batch' = Upcoming(i) /\ left' = batch' /\ tx' = db /\ runs' = runs + 1
      /\ UNCHANGED <<log, db, done, dropped, failed, group, cur, changed, mark>>
  BY DEF Begin, WriterInv, TypeOK, Stages, dbVars, groupVars
<1>2. Len(log) \in Nat /\ Made \subseteq Made'
  BY <1>1, MadeAtBegin, Setup DEF WriterInv
<1>3. Whole'
  <2>1. \A n \in batch' : \A j \in 1 .. n : j \in done' \/ j \in batch'
    BY <1>1, <1>2 DEF Upcoming
  <2>2. batch' \cap done' = {}
    BY <1>1 DEF Upcoming
  <2>3. \A a \in Actor : OfActor(left, a)' = OfActor(batch, a)'
    BY <1>1 DEF OfActor
  <2> QED BY <2>1, <2>2, <2>3 DEF Whole
<1>4. ASSUME VisitInv, Kept
      PROVE  VisitInv' /\ Kept'
  <2>1. PICK M2 : M2 = Made'
    OBVIOUS
  <2>2. Visited(log, M2, db, db.cursors)
    BY <1>2, <1>4, <2>1, VisitGrows DEF VisitInv
  <2>3. Cursors' = db.cursors
    BY <1>1 DEF Cursors
  <2>4. VisitInv'
    BY <1>1, <2>1, <2>2, <2>3 DEF VisitInv
  <2>5. Kept'
    BY <1>1, <1>4 DEF Kept
  <2> QED BY <2>4, <2>5
<1> QED BY <1>1, <1>3, <1>4, LogFixed DEF PlainInv

\* The transaction is over.
LEMMA EndsVisits ==
  ASSUME WriterInv, PlainInv, TransactionEnds,
         Plain => /\ Visited(log, Made, db', db'.cursors)
                  /\ \A i \in done' : i \in dropped' \/ Settled(log, db', i)
  PROVE  PlainInv'
<1>1. /\ batch' = {} /\ left' = {} /\ tx' = EmptyDb /\ failed' = {} /\ group' = NoActor
      /\ log' = log /\ Made \subseteq Made'
  BY EndsKeeps DEF TransactionEnds, GroupEnds
<1>2. Whole'
  BY <1>1 DEF Whole, OfActor
<1>3. ASSUME Plain PROVE VisitInv' /\ Kept'
  <2>1. PICK M2, e : M2 = Made' /\ e = db'
    OBVIOUS
  <2>2. Visited(log, M2, e, e.cursors)
    BY <1>1, <1>3, <2>1, VisitGrows
  <2>3. VisitInv'
    BY <1>1, <2>1, <2>2 DEF VisitInv
  <2>4. Kept'
    BY <1>1, <1>3 DEF Kept
  <2> QED BY <2>3, <2>4
<1> QED BY <1>1, <1>2, <1>3, LogFixed DEF PlainInv

LEMMA RollbackVisits ==
  ASSUME WriterInv, PlainInv, Rollback
  PROVE  PlainInv'
<1>1. TransactionEnds /\ UNCHANGED <<db, done, dropped>>
  BY DEF Rollback, dbVars
<1>2. Plain => /\ Visited(log, Made, db', db'.cursors)
               /\ \A i \in done' : i \in dropped' \/ Settled(log, db', i)
  BY <1>1 DEF PlainInv, VisitInv, Kept
<1> QED BY <1>1, <1>2, EndsVisits

LEMMA SettledGrows ==
  ASSUME NEW l, NEW d, NEW e, Stored(d) \subseteq Stored(e), NEW i, Settled(l, d, i)
  PROVE  Settled(l, e, i)
BY DEF Settled

LEMMA StoredGrows ==
  ASSUME NEW d, NEW e, Extends(d, e)
  PROVE  Stored(d) \subseteq Stored(e)
BY DEF Extends, Stored

LEMMA CommitVisits ==
  ASSUME WriterInv, PlainInv, NEW kept \in SUBSET batch, Commit(kept)
  PROVE  PlainInv'
<1>1. /\ batch # {} /\ left = {} /\ group = NoActor /\ db' = tx
      /\ done' = done \cup kept /\ dropped' = dropped \cup (failed \cap kept)
      /\ TransactionEnds
  BY DEF Commit
<1>2. Extends(db, tx) /\ Cursors = tx.cursors
  BY <1>1 DEF WriterInv, ViewSound, Cursors
<1>3. ASSUME Plain
      PROVE  /\ Visited(log, Made, db', db'.cursors)
             /\ \A i \in done' : i \in dropped' \/ Settled(log, db', i)
  <2>1. VisitInv /\ Kept
    BY <1>3 DEF PlainInv
  <2>2. Visited(log, Made, tx, tx.cursors)
    BY <1>1, <1>2, <2>1 DEF VisitInv
  <2>3. ASSUME NEW i \in done' PROVE i \in dropped' \/ Settled(log, tx, i)
    <3>1. CASE i \in done
      <4>1. i \in dropped \/ Settled(log, db, i)
        BY <2>1, <3>1 DEF Kept
      <4> QED BY <1>1, <1>2, <4>1, StoredGrows, SettledGrows
    <3>2. CASE i \in kept
      <4>1. i \in failed \/ Settled(log, tx, i)
        BY <1>1, <2>1, <3>2 DEF Kept
      <4> QED BY <1>1, <3>2, <4>1
    <3> QED BY <1>1, <2>3, <3>1, <3>2
  <2> QED BY <1>1, <2>2, <2>3
<1> QED BY <1>1, <1>3, EndsVisits

LEMMA OpenGroupVisits ==
  ASSUME WriterInv, PlainInv, NEW a \in Actor, OpenGroup(a)
  PROVE  PlainInv'
<1>1. /\ group = NoActor /\ OfActor(left, NoActor) = {} /\ OfActor(left, a) # {}
      /\ group' = a /\ cur' = tx.cursors[a] /\ mark' = tx
      /\ UNCHANGED <<log, db, done, dropped, batch, left, tx, failed, changed, runs>>
  BY DEF OpenGroup, dbVars
<1>2. a # NoActor /\ batch # {} /\ left \subseteq batch
  BY <1>1, WriterAssumption DEF WriterInv, TypeOK, OfActor
<1>3. Made' = Made
  BY <1>1 DEF SessionId, Made
<1>4. Cursors = tx.cursors /\ Cursors' = tx.cursors
  <2>1. tx \in DbOver(SessionId)
    BY Setup DEF WriterInv, TypeOK
  <2>2. [tx.cursors EXCEPT ![a] = tx.cursors[a]] = tx.cursors
    BY <2>1 DEF DbOver
  <2> QED BY <1>1, <1>2, <2>2 DEF Cursors
<1>5. \A b \in Actor : OfActor(left, b)' = OfActor(left, b) /\ OfActor(batch, b)' = OfActor(batch, b)
  BY <1>1 DEF OfActor
<1>6. Whole'
  BY <1>1, <1>2, <1>5, WriterAssumption DEF PlainInv, Whole
<1>7. ASSUME VisitInv, Kept
      PROVE  VisitInv' /\ Kept'
  <2>1. VisitInv'
    BY <1>1, <1>2, <1>3, <1>4, <1>7 DEF VisitInv
  <2>2. OfActor(left, a) = OfActor(batch, a)
    BY <1>1 DEF PlainInv, Whole
  <2>3. \A i \in batch \ left : log[i].actor # a /\ (i \in failed \/ Settled(log, tx, i))
    BY <1>2, <1>7, <2>2 DEF Kept, OfActor
  <2>4. Kept'
    BY <1>1, <1>7, <2>3 DEF Kept
  <2> QED BY <2>1, <2>4
<1> QED BY <1>1, <1>6, <1>7, LogFixed DEF PlainInv


\* save_cursor: the transaction has the tables as they are and the cursors as
\* they stand in memory.
GroupSaved ==
  /\ tx'.claims = tx.claims /\ tx'.events = tx.events /\ tx'.sessions = tx.sessions
  /\ tx'.cursors = Cursors

LEMMA SavedIs ==
  ASSUME WriterInv, CloseGroup, ~CursorRefused
  PROVE  GroupSaved
<1>1. group # NoActor /\ tx' = IF changed THEN [tx EXCEPT !.cursors[group] = cur] ELSE tx
  BY DEF CloseGroup, Saved
<1>2. group \in Actor /\ tx \in DbOver(SessionId) /\ (~changed => cur = tx.cursors[group])
  BY <1>1, Setup DEF WriterInv, TypeOK, Stages
<1>3. /\ tx.cursors \in [Actor -> CursorOver(SessionId)]
      /\ tx = [claims |-> tx.claims, events |-> tx.events, sessions |-> tx.sessions,
               cursors |-> tx.cursors]
  BY <1>2 DEF DbOver
<1>4. Cursors = [tx.cursors EXCEPT ![group] = cur]
  BY <1>1 DEF Cursors
<1>5. CASE changed
  <2>1. tx' = [claims |-> tx.claims, events |-> tx.events, sessions |-> tx.sessions,
               cursors |-> [tx.cursors EXCEPT ![group] = cur]]
    BY <1>1, <1>3, <1>5
  <2> QED BY <1>4, <2>1 DEF GroupSaved
<1>6. CASE ~changed
  <2>1. Cursors = tx.cursors /\ tx' = tx
    BY <1>1, <1>2, <1>3, <1>4, <1>6
  <2> QED BY <2>1 DEF GroupSaved
<1> QED BY <1>5, <1>6


LEMMA ApplyActorlessVisits ==
  ASSUME WriterInv, PlainInv, NEW i \in left, ApplyActorless(i)
  PROVE  PlainInv'
<1> DEFINE fresh == <<i, runs>>
<1>1. PICK r : r = ApplyOne(tx, NoCursor, log[i], fresh)
  OBVIOUS
<1>2. /\ tx' = r.db /\ failed' = FailedWith(i, r.outcome) /\ left' = left \ {i}
      /\ UNCHANGED <<log, db, done, dropped, batch, group, cur, changed, mark, runs>>
  BY <1>1 DEF ApplyActorless, dbVars, groupVars
<1>3. /\ i \in 1 .. Len(log) /\ i \in batch /\ batch # {}
      /\ fresh \in SessionId /\ fresh \notin Made
  BY FreshId
<1>4. i \in OfActor(left, NoActor)
  BY DEF ApplyActorless, FirstOf
<1>5. log[i].actor = NoActor /\ group = NoActor
  BY <1>4 DEF OfActor, WriterInv, Stages
<1>6. /\ tx \in DbOver(SessionId) /\ NoCursor \in CursorOver(SessionId)
      /\ log[i] \in Message /\ log \in Seq(Message)
  BY <1>3, Setup DEF WriterInv, TypeOK, CursorOver
<1>7. Sound(log, Made, tx, tx.cursors)
  BY <1>3, <1>5 DEF WriterInv, ViewSound, Cursors
<1>8. r.db.cursors = tx.cursors
  <2> HIDE DEF fresh
  <2> QED BY <1>1, <1>3, <1>6, Setup, ApplyTypes DEF WriterInv
<1>9. Made \cup {fresh} \subseteq Made' /\ Made \subseteq Made'
  BY <1>2, MadeNow
<1>10. Cursors = tx.cursors /\ Cursors' = tx.cursors
  BY <1>2, <1>5, <1>8 DEF Cursors
<1>11. failed \subseteq failed'
  BY <1>2 DEF FailedWith
<1>12. Whole'
  <2>1. \A b \in Actor : OfActor(left, b)' = OfActor(left, b) /\ OfActor(batch, b)' = OfActor(batch, b)
    BY <1>2, <1>5, WriterAssumption DEF OfActor
  <2> QED BY <1>2, <2>1 DEF PlainInv, Whole
<1>13. Aside(tx, log[i], fresh, r)
  <2> HIDE DEF fresh
  <2> QED BY <1>1, <1>5, <1>6, ActorlessLeaves
<1>14. ASSUME Plain PROVE VisitInv' /\ Kept'
  <2>1. VisitInv /\ Kept /\ OneEach(log)
    BY <1>14 DEF PlainInv, Plain, IdsNameMessages, OneEach
  <2>2. Visited(log, Made, tx, tx.cursors)
    BY <1>3, <1>10, <2>1 DEF VisitInv
  <2>3. /\ Visited(log, Made \cup {fresh}, r.db, tx.cursors)
        /\ Settled(log, r.db, i) /\ Stored(tx) \subseteq Stored(r.db)
    <3> HIDE DEF fresh
    <3> QED BY <1>3, <1>5, <1>6, <1>7, <1>13, <2>1, <2>2, ActorlessVisit
  <2>4. PICK M2 : M2 = Made'
    OBVIOUS
  <2>5. Visited(log, M2, r.db, tx.cursors) /\ Visited(log, M2, db, db.cursors)
    <3> HIDE DEF fresh
    <3> QED BY <1>9, <2>1, <2>3, <2>4, VisitGrows DEF VisitInv
  <2>6. VisitInv'
    BY <1>2, <1>5, <1>10, <2>4, <2>5 DEF VisitInv
  <2>7. \A n \in batch \ left' : n \in failed' \/ Settled(log, r.db, n)
    <3> TAKE n \in batch \ left'
    <3>1. CASE n = i
      BY <2>3, <3>1
    <3>2. CASE n \in batch \ left
      <4>1. n \in failed \/ Settled(log, tx, n)
        BY <2>1, <3>2 DEF Kept
      <4> QED BY <1>11, <2>3, <4>1, SettledGrows
    <3> QED BY <1>2, <3>1, <3>2
  <2>8. Kept'
    BY <1>2, <1>5, <2>1, <2>7 DEF Kept
  <2> QED BY <2>6, <2>8
<1> QED BY <1>2, <1>12, <1>14, LogFixed DEF PlainInv

\* A message of the group, what it leaves and where it stood.
Steps(i, r) ==
  /\ Facing(SessionId, log, Made, tx, Cursors, group, i, <<i, runs>>)
  /\ Cursors[group] = cur
  /\ \/ Stores(SessionId, tx, cur, log[i], <<i, runs>>, r.db, r.cursor)
     \/ Leaves(tx, cur, log[i], <<i, runs>>, r)
  /\ Sound(log, Made \cup {<<i, runs>>}, r.db, [Cursors EXCEPT ![group] = r.cursor])

LEMMA ApplyMessageSteps ==
  ASSUME WriterInv, VisitInv, IdsNameMessages, NEW i \in left, ApplyMessage(i)
  PROVE  \E r :
           /\ tx' = r.db /\ cur' = r.cursor
           /\ failed' = FailedWith(i, r.outcome) /\ left' = left \ {i}
           /\ UNCHANGED <<log, db, done, dropped, batch, group, mark, runs>>
           /\ Cursors' = [Cursors EXCEPT ![group] = r.cursor]
           /\ Steps(i, r)
<1> DEFINE fresh == <<i, runs>>
           K == Cursors
<1>1. PICK r : r = ApplyOne(tx, cur, log[i], fresh)
  OBVIOUS
<1>2. /\ tx' = r.db /\ cur' = r.cursor
      /\ failed' = FailedWith(i, r.outcome) /\ left' = left \ {i}
      /\ UNCHANGED <<log, db, done, dropped, batch, group, mark, runs>>
  BY <1>1 DEF ApplyMessage, dbVars
<1>3. /\ i \in 1 .. Len(log) /\ i \in batch /\ batch # {}
      /\ fresh \in SessionId /\ fresh \notin Made /\ fresh[1] = i
  BY FreshId
<1>4. i \in OfActor(left, group) /\ group # NoActor
  BY DEF ApplyMessage, FirstOf
<1>5. log[i].actor = group /\ group \in Actor
  BY <1>4 DEF OfActor, WriterInv, TypeOK
<1>6. /\ tx \in DbOver(SessionId) /\ SessionId \subseteq Nat \X Nat /\ cur \in CursorOver(SessionId)
      /\ log[i] \in Message /\ log \in Seq(Message)
  BY <1>3, Setup DEF WriterInv, TypeOK
<1>7. K = [tx.cursors EXCEPT ![group] = cur]
  BY <1>4 DEF Cursors
<1>8. K \in [Actor -> CursorOver(SessionId)] /\ K[group] = cur
  <2>1. tx.cursors \in [Actor -> CursorOver(SessionId)]
    BY <1>6 DEF DbOver
  <2> HIDE DEF K
  <2> QED BY <1>5, <1>6, <1>7, <2>1
<1>9. Sound(log, Made, tx, K) /\ Extends(db, tx) /\ Visited(log, Made, tx, K)
  BY <1>3 DEF WriterInv, ViewSound, VisitInv
<1>10. r.db.cursors = tx.cursors
  <2> HIDE DEF fresh
  <2> QED BY <1>1, <1>3, <1>6, ApplyTypes
<1>11. Sound(log, Made \cup {fresh}, r.db, [K EXCEPT ![group] = r.cursor])
  <2> HIDE DEF fresh, K
  <2>1. r = ApplyOne(tx, K[group], log[i], fresh)
    BY <1>1, <1>8
  <2>2. Treated(log, Made, db, tx, K, group, i, fresh, ApplyOne(tx, K[group], log[i], fresh))
    BY <1>3, <1>5, <1>6, <1>8, <1>9, MessageTreated, Zenon
  <2> QED BY <1>8, <2>1, <2>2 DEF Treated, Accounted
<1>12. Cursors' = [K EXCEPT ![group] = r.cursor]
  <2>1. Cursors' = [tx.cursors EXCEPT ![group] = r.cursor]
    BY <1>2, <1>4, <1>10 DEF Cursors
  <2> QED BY <1>7, <2>1
<1>13. OneEach(log)
  BY DEF IdsNameMessages, OneEach
<1>14. Facing(SessionId, log, Made, tx, K, group, i, fresh)
  <2> HIDE DEF fresh, K
  <2> QED BY <1>3, <1>5, <1>6, <1>8, <1>9, <1>13 DEF Facing
<1>15. \/ Stores(SessionId, tx, cur, log[i], fresh, r.db, r.cursor)
       \/ Leaves(tx, cur, log[i], fresh, r)
  <2> HIDE DEF fresh, K
  <2>1. \A s \in tx.sessions : cur # NoCursor => s.sid # cur.sid
    BY <1>5, <1>8, <1>9 DEF Sound, OpenSound
  <2>2. log[i].actor # NoActor
    BY <1>4, <1>5
  <2>3. PICK m \in Message : m = log[i]
    BY <1>6
  <2>4. LET z == ApplyOne(tx, cur, m, fresh)
        IN  \/ Stores(SessionId, tx, cur, m, fresh, z.db, z.cursor) /\ z.outcome = "applied"
            \/ Leaves(tx, cur, m, fresh, z)
    BY <1>3, <1>6, <2>1, <2>2, <2>3, MessageLeaves
  <2> QED BY <1>1, <2>3, <2>4
<1>16. Steps(i, r)
  BY <1>8, <1>11, <1>14, <1>15 DEF Steps
<1> QED BY <1>2, <1>12, <1>16

LEMMA ApplyMessageVisits ==
  ASSUME TimeoutSuffices, WriterInv, PlainInv, NEW i \in left, ApplyMessage(i)
  PROVE  PlainInv'
<1> DEFINE fresh == <<i, runs>>
<1>1. /\ left' = left \ {i}
      /\ UNCHANGED <<log, db, done, dropped, batch, group, mark, runs>>
      /\ group # NoActor
  BY DEF ApplyMessage, dbVars
<1>2. i \in batch /\ batch # {} /\ i \in OfActor(left, group) /\ log[i].actor = group
  BY FreshId DEF ApplyMessage, FirstOf, OfActor
<1>3. Made \cup {fresh} \subseteq Made' /\ Made \subseteq Made'
  BY <1>1, MadeNow
<1>4. Whole'
  <2>1. \A b \in Actor : b # group =>
          OfActor(left, b)' = OfActor(left, b) /\ OfActor(batch, b)' = OfActor(batch, b)
    BY <1>1, <1>2 DEF OfActor
  <2> QED BY <1>1, <2>1 DEF PlainInv, Whole
<1>5. ASSUME Plain PROVE VisitInv' /\ Kept'
  <2>1. VisitInv /\ Kept /\ IdsNameMessages /\ NoneDiscarded
    BY <1>5 DEF PlainInv, Plain
  <2>2. PICK r :
           /\ tx' = r.db /\ cur' = r.cursor
           /\ failed' = FailedWith(i, r.outcome)
           /\ Cursors' = [Cursors EXCEPT ![group] = r.cursor]
           /\ Steps(i, r)
    BY <2>1, ApplyMessageSteps
  <2>3. /\ Facing(SessionId, log, Made, tx, Cursors, group, i, fresh)
        /\ Cursors[group] = cur
        /\ \/ Stores(SessionId, tx, cur, log[i], fresh, r.db, r.cursor)
           \/ Leaves(tx, cur, log[i], fresh, r)
    BY <2>2 DEF Steps
  <2> HIDE DEF fresh
  <2>4. PICK K2 : K2 = [Cursors EXCEPT ![group] = r.cursor]
    OBVIOUS
  <2>5. Visited(log, Made \cup {fresh}, r.db, K2)
    <3>1. CASE Stores(SessionId, tx, cur, log[i], fresh, r.db, r.cursor)
      BY <2>3, <2>4, <3>1, VisitStored
    <3>2. CASE Leaves(tx, cur, log[i], fresh, r)
      BY <2>3, <2>4, <3>2, VisitLeft
    <3> QED BY <2>3, <3>1, <3>2
  <2>6. PICK M2 : M2 = Made'
    OBVIOUS
  <2>7. /\ Visited(log, M2, r.db, K2) /\ Visited(log, M2, db, db.cursors)
        /\ Visited(log, M2, mark, mark.cursors)
    BY <1>1, <1>3, <2>1, <2>5, <2>6, VisitGrows DEF VisitInv
  <2>8. VisitInv'
    BY <1>1, <2>2, <2>4, <2>6, <2>7 DEF VisitInv
  <2>9. /\ Settled(log, r.db, i) \/ (r.outcome = "refused" /\ Stuck(r.cursor))
        /\ Stored(tx) \subseteq Stored(r.db)
    <3>1. \/ Stores(SessionId, tx, Cursors[group], log[i], fresh, r.db, r.cursor)
          \/ Leaves(tx, Cursors[group], log[i], fresh, r)
      BY <2>3
    <3> QED BY <2>1, <2>3, <3>1, MessageSettled
  <2>10. failed' = IF r.outcome = "refused" THEN failed \cup {i} ELSE failed
    BY <2>2 DEF FailedWith
  <2>11. Stuck(cur) => Stuck(r.cursor)
    <3>1. CASE Stores(SessionId, tx, cur, log[i], fresh, r.db, r.cursor)
      <4>1. cur \in CursorOver(SessionId) /\ log[i] \in Message /\ SessionId \subseteq Nat \X Nat
        BY <2>3, FacingCursor DEF Facing
      <4> QED BY <3>1, <4>1, StaysStuck
    <3>2. CASE Leaves(tx, cur, log[i], fresh, r)
      BY <3>2 DEF Leaves
    <3> QED BY <2>3, <3>1, <3>2
  <2>12. ASSUME NEW n \in batch \ left'
         PROVE  /\ n \in failed' \/ Settled(log, r.db, n)
                /\ IF log[n].actor = group THEN Settled(log, r.db, n) \/ Stuck(r.cursor)
                   ELSE n \in failed' \/ Settled(log, mark, n)
    <3>1. CASE n = i
      BY <1>2, <2>9, <2>10, <3>1
    <3>2. CASE n \in batch \ left
      <4>1. /\ n \in failed \/ Settled(log, tx, n)
            /\ IF log[n].actor = group THEN Settled(log, tx, n) \/ Stuck(cur)
               ELSE n \in failed \/ Settled(log, mark, n)
        BY <1>1, <2>1, <3>2 DEF Kept
      <4>2. Settled(log, tx, n) => Settled(log, r.db, n)
        BY <2>9, SettledGrows
      <4> QED BY <2>10, <2>11, <4>1, <4>2
    <3> QED BY <1>1, <3>1, <3>2
  <2>13. Kept'
    BY <1>1, <2>1, <2>2, <2>12 DEF Kept
  <2> QED BY <2>8, <2>13
<1> QED BY <1>1, <1>4, <1>5, LogFixed DEF PlainInv

LEMMA CloseGroupVisits ==
  ASSUME WriterInv, PlainInv, CloseGroup
  PROVE  PlainInv'
<1>1. /\ group # NoActor /\ OfActor(left, group) = {} /\ tx' = Saved /\ failed' = FailedByGroup
      /\ group' = NoActor /\ cur' = NoCursor
      /\ UNCHANGED <<log, db, done, dropped, batch, left, runs>>
  BY DEF CloseGroup, GroupEnds, dbVars
<1>2. /\ group \in Actor /\ batch # {}
      /\ tx \in DbOver(SessionId) /\ cur \in CursorOver(SessionId)
  BY <1>1, Setup DEF WriterInv, TypeOK, Stages
<1>3. Made' = Made /\ Cursors' = tx'.cursors
  BY <1>1 DEF SessionId, Made, Cursors
<1>4. Whole'
  <2>1. \A b \in Actor :
          OfActor(left, b)' = OfActor(left, b) /\ OfActor(batch, b)' = OfActor(batch, b)
    BY <1>1 DEF OfActor
  <2> QED BY <1>1, <2>1 DEF PlainInv, Whole
<1>5. ASSUME Plain PROVE VisitInv' /\ Kept'
  <2>1. VisitInv /\ Kept
    BY <1>5 DEF PlainInv
  <2>2. CASE CursorRefused
    <3>1. tx' = mark /\ failed' = failed \cup OfActor(batch, group)
      BY <1>1, <2>2 DEF Saved, FailedByGroup
    <3>2. VisitInv'
      BY <1>1, <1>3, <2>1, <3>1 DEF VisitInv
    <3>3. \A n \in batch \ left : n \in failed' \/ Settled(log, mark, n)
      BY <1>1, <2>1, <3>1 DEF Kept, OfActor
    <3>4. Kept'
      BY <1>1, <2>1, <3>1, <3>3 DEF Kept
    <3> QED BY <3>2, <3>4
  <2>3. CASE ~CursorRefused
    <3>1. failed' = failed /\ GroupSaved
      BY <1>1, <2>3, SavedIs DEF FailedByGroup
    <3>2. tx'.claims = tx.claims /\ tx'.events = tx.events /\ tx'.cursors = Cursors
      BY <3>1 DEF GroupSaved
    <3>3. Visited(log, Made, tx, Cursors)
      BY <1>2, <2>1 DEF VisitInv
    <3>4. PICK e : e = tx'
      OBVIOUS
    <3>5. Stored(e) = Stored(tx) /\ Visited(log, Made, e, e.cursors)
      BY <3>2, <3>3, <3>4 DEF Visited, ClaimsNear, Stored
    <3>6. VisitInv'
      BY <1>1, <1>3, <2>1, <3>4, <3>5 DEF VisitInv
    <3>7. \A n \in batch \ left : n \in failed \/ Settled(log, e, n)
      BY <2>1, <3>5 DEF Kept, Settled
    <3>8. Kept'
      BY <1>1, <2>1, <3>1, <3>4, <3>7 DEF Kept
    <3> QED BY <3>6, <3>8
  <2> QED BY <2>2, <2>3
<1> QED BY <1>1, <1>4, <1>5, LogFixed DEF PlainInv


-----------------------------------------------------------------------------
(* Visits: the sweep *)

\* What a chunk of a sweep that goes on writes: it closes the sessions of R.
Sweeps(R) ==
  /\ \A a \in R : db.cursors[a] # NoCursor /\ db.cursors[a].last < cutoff /\ ~Stuck(db.cursors[a])
  /\ db'.events = db.events /\ db'.claims = db.claims
  /\ db'.sessions = {s \in db.sessions : \A a \in R : s.sid # db.cursors[a].sid}
                      \cup {Closed(a, db.cursors[a]) : a \in R}
  /\ db'.cursors = [a \in Actor |-> IF a \in R THEN NoCursor ELSE db.cursors[a]]

LEMMA ChunkSweeps ==
  ASSUME SweepInv, NEW S \in SUBSET Actor, SweepChunk(S)
  PROVE  /\ \E R \in SUBSET Actor : Sweeps(R)
         /\ batch = {} /\ group = NoActor /\ cutoff # NoSweep /\ cutoff' \in {cutoff, NoSweep}
         /\ UNCHANGED <<log, done, dropped, batch, left, tx, failed, group, cur, changed, mark, runs>>
<1> DEFINE R == Readable(S)
<1>1. /\ batch = {} /\ db' = CloseAll(R) /\ cutoff # NoSweep
      /\ UNCHANGED <<log, done, dropped, batch, left, tx, failed, group, cur, changed, mark, runs>>
  BY DEF SweepChunk, SweepInv, groupVars
<1>2. cutoff' \in {cutoff, NoSweep}
  BY DEF SweepChunk, EndSweep
<1>3. /\ R \in SUBSET Actor
      /\ \A a \in R : db.cursors[a] # NoCursor /\ db.cursors[a].last < cutoff /\ ~Stuck(db.cursors[a])
  BY DEF SweepChunk, IsChunk, Idle, Open, Readable, Holds, Stuck
<1> HIDE DEF R
<1>4. db \in DbOver(SessionId) /\ group = NoActor
  BY <1>1, Setup DEF SweepInv, WriterInv, TypeOK, Stages
<1>5. db = [claims |-> db.claims, events |-> db.events, sessions |-> db.sessions,
            cursors |-> db.cursors]
  BY <1>4 DEF DbOver
<1>6. PICK new : new = {s \in db.sessions : \A a \in R : s.sid # db.cursors[a].sid}
                         \cup {Closed(a, db.cursors[a]) : a \in R}
  OBVIOUS
<1>7. PICK K : K = [a \in Actor |-> IF a \in R THEN NoCursor ELSE db.cursors[a]]
  OBVIOUS
<1>8. db' = [db EXCEPT !.sessions = new, !.cursors = K]
  BY <1>1, <1>6, <1>7 DEF CloseAll
<1>9. db' = [claims |-> db.claims, events |-> db.events, sessions |-> new, cursors |-> K]
  BY <1>5, <1>8
<1>10. Sweeps(R)
  BY <1>3, <1>6, <1>7, <1>9 DEF Sweeps
<1> QED BY <1>1, <1>2, <1>3, <1>4, <1>10

LEMMA SweepVisits ==
  ASSUME SweepInv, PlainInv, NEW S \in SUBSET Actor, SweepChunk(S)
  PROVE  PlainInv'
<1>1. PICK R \in SUBSET Actor : Sweeps(R)
  BY ChunkSweeps
<1>2. /\ batch = {} /\ group = NoActor
      /\ UNCHANGED <<log, done, dropped, batch, left, tx, failed, group, cur, changed, mark, runs>>
  BY ChunkSweeps
<1>3. Made' = Made /\ left = {}
  BY <1>2 DEF SessionId, Made, SweepInv, WriterInv, TypeOK
<1>4. Whole'
  BY <1>2, <1>3 DEF PlainInv, Whole, OfActor
<1>5. PICK e : e = db'
  OBVIOUS
<1>6. /\ e.events = db.events /\ e.claims = db.claims /\ Stored(e) = Stored(db)
      /\ \A a \in Actor : e.cursors[a] = db.cursors[a] \/ e.cursors[a] = NoCursor
  BY <1>1, <1>5 DEF Sweeps, Stored
<1>7. ASSUME Plain PROVE VisitInv' /\ Kept'
  <2>1. VisitInv /\ Kept
    BY <1>7 DEF PlainInv
  <2>2. LastSound(log, e.cursors) /\ EventsFrom(log, e.events)
    BY <1>6, <2>1 DEF VisitInv, Visited, LastSound
  <2>3. ClaimsNear(log, Made, e, e.cursors)
    BY <1>6, <2>1 DEF VisitInv, Visited, ClaimsNear
  <2>4. VisitInv'
    BY <1>2, <1>3, <1>5, <2>2, <2>3 DEF VisitInv, Visited
  <2>5. Kept'
    BY <1>2, <1>5, <1>6, <2>1 DEF Kept, Settled
  <2> QED BY <2>4, <2>5
<1> QED BY <1>2, <1>4, <1>7, LogFixed DEF PlainInv

LEMMA StutterVisits ==
  ASSUME PlainInv, UNCHANGED vars
  PROVE  PlainInv'
<1>1. UNCHANGED <<log, db, done, dropped, batch, left, tx, failed, group, cur, changed, mark, runs>>
  BY DEF vars, dbVars, groupVars
<1>2. /\ Made' = Made /\ Cursors' = Cursors
      /\ \A b : OfActor(left, b)' = OfActor(left, b) /\ OfActor(batch, b)' = OfActor(batch, b)
  BY <1>1 DEF SessionId, Made, Cursors, OfActor
<1>3. Whole' <=> Whole
  BY <1>1, <1>2 DEF Whole
<1>4. (VisitInv' <=> VisitInv) /\ (Kept' <=> Kept)
  BY <1>1, <1>2 DEF VisitInv, Kept
<1> QED BY <1>1, <1>3, <1>4, LogFixed DEF PlainInv

\* The steps of the writer beside the sweep.
LEMMA PlainStep ==
  ASSUME TimeoutSuffices, SweepInv, PlainInv, [SweepNext]_allVars
  PROVE  PlainInv'
<1>1. WriterInv
  BY DEF SweepInv
<1>2. CASE Next
  <2>1. CASE \E i \in 1 .. Len(log) : Begin(i)
    BY <1>1, <2>1, BeginVisits
  <2>2. CASE \E i \in left : ApplyActorless(i)
    BY <1>1, <2>2, ApplyActorlessVisits
  <2>3. CASE \E i \in left : ApplyMessage(i)
    BY <1>1, <2>3, ApplyMessageVisits
  <2>4. CASE \E a \in Actor : OpenGroup(a)
    BY <1>1, <2>4, OpenGroupVisits
  <2>5. CASE CloseGroup
    BY <1>1, <2>5, CloseGroupVisits
  <2>6. CASE \E kept \in SUBSET batch : Commit(kept)
    BY <1>1, <2>6, CommitVisits
  <2>7. CASE Rollback
    BY <1>1, <2>7, RollbackVisits
  <2> QED BY <1>2, <2>1, <2>2, <2>3, <2>4, <2>5, <2>6, <2>7 DEF Next
<1>3. CASE \E S \in SUBSET Actor : SweepChunk(S)
  BY <1>3, SweepVisits
<1>4. CASE UNCHANGED vars
  BY <1>4, StutterVisits
<1> QED BY <1>2, <1>3, <1>4 DEF SweepNext, StartSweep, SweepEnds, allVars


-----------------------------------------------------------------------------
(* Order: every step of the writer *)

\* What the set of positions has, it has first.
LEMMA FirstPosition ==
  ASSUME NEW S, S \subseteq Nat, S # {}
  PROVE  \E n \in S : \A k \in S : ~(k < n)
<1> DEFINE R == OpToRel(<, Nat)
<1>1. IsWellFoundedOn(R, Nat)
  BY NatLessThanWellFounded, Zenon
<1>2. PICK n \in S : \A k \in S : ~(<<k, n>> \in R)
  <2> HIDE DEF R
  <2> QED BY <1>1, WFMin, Zenon
<1>3. \A k \in S : ~(k < n)
  BY <1>2 DEF OpToRel
<1> QED BY <1>3

\* Every record has been sent once first.
LEMMA FirstSent ==
  ASSUME NEW l \in Seq(Message), NEW j \in 1 .. Len(l)
  PROVE  \E f \in 1 .. j : l[f] = l[j] /\ \A k \in 1 .. f - 1 : l[k] # l[f]
<1> DEFINE S == {k \in 1 .. j : l[k] = l[j]}
<1>1. j \in Nat /\ Len(l) \in Nat
  OBVIOUS
<1>2. S \subseteq Nat /\ j \in S
  BY <1>1
<1>3. PICK f \in S : \A k \in S : ~(k < f)
  BY <1>2, FirstPosition
<1>4. \A k \in 1 .. f - 1 : l[k] # l[f]
  <2> TAKE k \in 1 .. f - 1
  <2>1. k \in 1 .. j /\ k < f
    BY <1>1
  <2> QED BY <1>3, <2>1
<1> QED BY <1>3, <1>4

\* A record none of whose copies comes before the i-th is not earlier, give or
\* take the tolerance.
LEMMA SentBefore ==
  ASSUME log \in Seq(Message), SendOrdered, NEW i \in 1 .. Len(log), NEW j \in 1 .. Len(log),
         \A f \in 1 .. i - 1 : log[f] # log[j]
  PROVE  log[i].at <= log[j].at + Tolerance
<1>1. PICK f \in 1 .. j : log[f] = log[j] /\ \A k \in 1 .. f - 1 : log[k] # log[f]
  BY FirstSent
<1>2. f \in 1 .. Len(log) /\ i \in Nat /\ f \in Nat /\ ~(f < i)
  BY <1>1
<1>3. CASE i < f
  <2>1. log[i].at <= log[f].at + Tolerance
    BY <1>1, <1>2, <1>3 DEF SendOrdered
  <2> QED BY <1>1, <2>1
<1>4. CASE i = f
  <2>1. log[i] \in Message /\ log[i] = log[j]
    BY <1>1, <1>4
  <2>2. log[i].at \in Int /\ Tolerance \in Nat
    BY <2>1, WriterAssumption DEF Message
  <2> QED BY <2>1, <2>2
<1> QED BY <1>2, <1>3, <1>4

\* A record that is to come has no copy among those that are done.
LEMMA NoCopyDone ==
  ASSUME WriterInv, PlainInv, WellSent, NEW j \in 1 .. Len(log), j \notin done,
         ~Settled(log, db, j), NEW f \in 1 .. Len(log), log[f] = log[j]
  PROVE  f \notin done
<1> SUFFICES ASSUME f \in done PROVE FALSE
  OBVIOUS
<1>1. Kept /\ RefusedOnce
  BY DEF PlainInv, Plain, WellSent
<1>2. f # j
  OBVIOUS
<1>3. f \in dropped \/ Settled(log, db, f)
  BY <1>1 DEF Kept
<1>4. CASE Settled(log, db, f)
  BY <1>4 DEF Settled
<1>5. CASE f \in dropped
  <2>1. Refusable(log, f)
    BY <1>5 DEF WriterInv, RefusedOnly
  <2>2. log[f].id \notin RefusedEvent
    BY DEF Settled
  <2>3. PICK k \in 1 .. Len(log) :
          log[k].actor = log[f].actor /\ log[k].id \in RefusedSession \cup RefusedCursor
    BY <2>1, <2>2 DEF Refusable
  <2> QED BY <1>1, <1>2, <2>3 DEF RefusedOnce
<1> QED BY <1>3, <1>4, <1>5

\* In a group, messages that can still be stored are not before the next one.
LEMMA MessageBefore ==
  ASSUME WriterInv, PlainInv, WellSent, NEW i \in left, ApplyMessage(i)
  PROVE  Before(log, done, tx, cur, group, i) /\ i \notin done
<1>1. /\ i \in batch /\ batch # {} /\ i \in 1 .. Len(log) /\ group # NoActor
      /\ i \in OfActor(left, group) /\ \A j \in OfActor(left, group) : i <= j
      /\ log \in Seq(Message) /\ left \subseteq batch
  BY FreshId, Setup DEF ApplyMessage, FirstOf, WriterInv, TypeOK
<1>2. /\ SendOrdered /\ Kept /\ Whole /\ Extends(db, tx)
  BY <1>1 DEF PlainInv, Plain, WellSent, WriterInv, ViewSound
<1>3. i \notin done
  BY <1>1, <1>2 DEF Whole
<1>4. ASSUME NEW j \in 1 .. Len(log), log[j].actor = group, j \notin done, ~Settled(log, tx, j),
             ~Stuck(cur)
      PROVE  log[i].at <= log[j].at + Tolerance
  <2>1. ~Settled(log, db, j)
    BY <1>2, <1>4, StoredGrows, SettledGrows
  <2>2. ASSUME NEW f \in 1 .. i - 1, log[f] = log[j] PROVE FALSE
    <3>1. f \in 1 .. Len(log) /\ f \in 1 .. i /\ ~(i <= f)
      BY <1>1
    <3>2. f \notin done
      BY <1>4, <2>1, <2>2, <3>1, NoCopyDone
    <3>3. f \in batch
      BY <1>1, <1>2, <3>1, <3>2 DEF Whole
    <3>4. log[f].actor = group
      BY <1>4, <2>2
    <3>5. f \in batch \ left
      BY <1>1, <3>1, <3>3, <3>4 DEF OfActor
    <3>6. Settled(log, tx, f)
      BY <1>1, <1>2, <1>4, <3>4, <3>5 DEF Kept
    <3> QED BY <1>4, <2>2, <3>6 DEF Settled
  <2> QED BY <1>1, <1>2, <2>2, SentBefore
<1> QED BY <1>3, <1>4 DEF Before


LEMMA OrderedGrows ==
  ASSUME NEW l, NEW D, NEW D2, D \subseteq D2, NEW d, NEW K, Ordered(l, D, d, K)
  PROVE  Ordered(l, D2, d, K)
BY DEF Ordered, InOrder

LEMMA EmptyOrdered ==
  ASSUME NEW l, NEW D
  PROVE  Ordered(l, D, EmptyDb, EmptyDb.cursors)
<1>1. /\ EmptyDb.claims = {} /\ EmptyDb.events = {} /\ EmptyDb.sessions = {}
  BY DEF EmptyDb
<1> QED BY <1>1 DEF Ordered, Apart, Backed, InOrder, Stored

LEMMA OrderInit ==
  ASSUME Init PROVE OrderInv
BY EmptyOrdered DEF Init, OrderInv

LEMMA BeginOrder ==
  ASSUME WriterInv, OrderInv, NEW i \in 1 .. Len(log), Begin(i)
  PROVE  OrderInv'
<1>1. /\ batch = {} /\ group = NoActor /\ tx' = db
      /\ UNCHANGED <<log, db, done, group, cur, mark>>
  BY DEF Begin, WriterInv, Stages, dbVars, groupVars
<1>2. Cursors' = db.cursors
  BY <1>1 DEF Cursors
<1> QED BY <1>1, <1>2 DEF OrderInv

LEMMA EndsOrder ==
  ASSUME TransactionEnds, Ordered(log, done', db', db'.cursors)
  PROVE  OrderInv'
<1>1. batch' = {} /\ group' = NoActor /\ log' = log
  BY DEF TransactionEnds, GroupEnds
<1> QED BY <1>1 DEF OrderInv

LEMMA RollbackOrder ==
  ASSUME OrderInv, Rollback
  PROVE  OrderInv'
<1>1. TransactionEnds /\ UNCHANGED <<db, done>>
  BY DEF Rollback, dbVars
<1> QED BY <1>1, EndsOrder DEF OrderInv

LEMMA CommitOrder ==
  ASSUME OrderInv, NEW kept \in SUBSET batch, Commit(kept)
  PROVE  OrderInv'
<1>1. /\ batch # {} /\ group = NoActor /\ db' = tx /\ done' = done \cup kept
      /\ TransactionEnds
  BY DEF Commit
<1>2. Cursors = tx.cursors
  BY <1>1 DEF Cursors
<1>3. PICK D, e : D = done' /\ e = db'
  OBVIOUS
<1>4. Ordered(log, D, e, e.cursors)
  BY <1>1, <1>2, <1>3, OrderedGrows DEF OrderInv
<1> QED BY <1>1, <1>3, <1>4, EndsOrder

LEMMA OpenGroupOrder ==
  ASSUME WriterInv, OrderInv, NEW a \in Actor, OpenGroup(a)
  PROVE  OrderInv'
<1>1. /\ group = NoActor /\ OfActor(left, a) # {}
      /\ group' = a /\ cur' = tx.cursors[a] /\ mark' = tx
      /\ UNCHANGED <<log, db, done, batch, left, tx>>
  BY DEF OpenGroup, dbVars
<1>2. a # NoActor /\ batch # {}
  BY <1>1, WriterAssumption DEF WriterInv, TypeOK, OfActor
<1>3. Cursors = tx.cursors /\ Cursors' = tx.cursors
  <2>1. tx \in DbOver(SessionId)
    BY Setup DEF WriterInv, TypeOK
  <2>2. [tx.cursors EXCEPT ![a] = tx.cursors[a]] = tx.cursors
    BY <2>1 DEF DbOver
  <2> QED BY <1>1, <1>2, <2>2 DEF Cursors
<1> QED BY <1>1, <1>2, <1>3 DEF OrderInv

LEMMA ApplyActorlessOrder ==
  ASSUME WriterInv, PlainInv, Plain, OrderInv, NEW i \in left, ApplyActorless(i)
  PROVE  OrderInv'
<1> DEFINE fresh == <<i, runs>>
<1>1. PICK r : r = ApplyOne(tx, NoCursor, log[i], fresh)
  OBVIOUS
<1>2. tx' = r.db /\ UNCHANGED <<log, db, done, batch, group, cur, mark>>
  BY <1>1 DEF ApplyActorless, dbVars, groupVars
<1>3. /\ i \in 1 .. Len(log) /\ batch # {} /\ fresh \in SessionId /\ fresh \notin Made
  BY FreshId
<1>4. i \in OfActor(left, NoActor)
  BY DEF ApplyActorless, FirstOf
<1>5. log[i].actor = NoActor /\ group = NoActor
  BY <1>4 DEF OfActor, WriterInv, Stages
<1>6. /\ tx \in DbOver(SessionId) /\ NoCursor \in CursorOver(SessionId)
      /\ log[i] \in Message /\ log \in Seq(Message)
  BY <1>3, Setup DEF WriterInv, TypeOK, CursorOver
<1>7. r.db.cursors = tx.cursors
  <2> HIDE DEF fresh
  <2> QED BY <1>1, <1>3, <1>6, Setup, ApplyTypes DEF WriterInv
<1>8. Cursors = tx.cursors /\ Cursors' = tx.cursors
  BY <1>2, <1>5, <1>7 DEF Cursors
<1>9. Sound(log, Made, tx, tx.cursors) /\ Visited(log, Made, tx, tx.cursors) /\ OneEach(log)
  BY <1>3, <1>8 DEF WriterInv, ViewSound, PlainInv, Plain, VisitInv, IdsNameMessages, OneEach
<1>10. Aside(tx, log[i], fresh, r)
  <2> HIDE DEF fresh
  <2> QED BY <1>1, <1>5, <1>6, ActorlessLeaves
<1>11. Ordered(log, done, tx, tx.cursors) => Ordered(log, done, r.db, tx.cursors)
  <2> HIDE DEF fresh
  <2> QED BY <1>3, <1>5, <1>6, <1>9, <1>10, ActorlessVisit
<1> QED BY <1>2, <1>3, <1>5, <1>8, <1>11 DEF OrderInv

LEMMA ApplyMessageOrder ==
  ASSUME TimeoutSuffices, WriterInv, PlainInv, WellSent, OrderInv, NEW i \in left, ApplyMessage(i)
  PROVE  OrderInv'
<1> DEFINE fresh == <<i, runs>>
<1>1. VisitInv /\ IdsNameMessages
  BY DEF PlainInv, Plain, WellSent
<1>2. PICK r :
         /\ tx' = r.db /\ cur' = r.cursor
         /\ UNCHANGED <<log, db, done, dropped, batch, group, mark, runs>>
         /\ Cursors' = [Cursors EXCEPT ![group] = r.cursor]
         /\ Steps(i, r)
  BY <1>1, ApplyMessageSteps
<1>3. /\ Facing(SessionId, log, Made, tx, Cursors, group, i, fresh)
      /\ Cursors[group] = cur
      /\ \/ Stores(SessionId, tx, cur, log[i], fresh, r.db, r.cursor)
         \/ Leaves(tx, cur, log[i], fresh, r)
      /\ Sound(log, Made \cup {fresh}, r.db, [Cursors EXCEPT ![group] = r.cursor])
  BY <1>2 DEF Steps
<1>4. Before(log, done, tx, cur, group, i) /\ i \notin done
  BY MessageBefore
<1>5. Ordered(log, done, tx, Cursors)
  BY FreshId DEF OrderInv
<1> HIDE DEF fresh
<1>6. CASE Stores(SessionId, tx, cur, log[i], fresh, r.db, r.cursor)
  <2>1. PICK M2 : M2 = Made \cup {fresh}
    OBVIOUS
  <2>2. Sound(log, M2, r.db, [Cursors EXCEPT ![group] = r.cursor])
    BY <1>3, <2>1
  <2>3. Ordered(log, done, r.db, [Cursors EXCEPT ![group] = r.cursor])
    BY <1>3, <1>4, <1>5, <1>6, <2>2, OrderedStored
  <2> QED BY <1>2, <2>3 DEF OrderInv
<1>7. CASE Leaves(tx, cur, log[i], fresh, r)
  <2>1. Ordered(log, done, r.db, [Cursors EXCEPT ![group] = r.cursor])
    BY <1>3, <1>5, <1>7, OrderedLeft
  <2> QED BY <1>2, <2>1 DEF OrderInv
<1> QED BY <1>3, <1>6, <1>7

LEMMA CloseGroupOrder ==
  ASSUME WriterInv, OrderInv, CloseGroup
  PROVE  OrderInv'
<1>1. /\ group # NoActor /\ tx' = Saved /\ group' = NoActor
      /\ UNCHANGED <<log, db, done, batch>>
  BY DEF CloseGroup, GroupEnds, dbVars
<1>2. batch # {} /\ Cursors' = tx'.cursors
  BY <1>1 DEF WriterInv, Stages, Cursors
<1>3. CASE CursorRefused
  <2>1. tx' = mark
    BY <1>1, <1>3 DEF Saved
  <2> QED BY <1>1, <1>2, <2>1 DEF OrderInv
<1>4. CASE ~CursorRefused
  <2>1. GroupSaved
    BY <1>4, SavedIs
  <2>2. PICK e : e = tx'
    OBVIOUS
  <2>3. /\ e.claims = tx.claims /\ e.sessions = tx.sessions /\ Stored(e) = Stored(tx)
        /\ e.cursors = Cursors
    BY <2>1, <2>2 DEF GroupSaved, Stored
  <2>4. Ordered(log, done, tx, Cursors)
    BY <1>2 DEF OrderInv
  <2>5. Ordered(log, done, e, e.cursors)
    BY <2>3, <2>4 DEF Ordered, InOrder, Settled
  <2> QED BY <1>1, <1>2, <2>2, <2>5 DEF OrderInv
<1> QED BY <1>3, <1>4


-----------------------------------------------------------------------------
(* Order: the sweep *)

\* The records of a log have a latest time.
LEMMA LatestTime ==
  ASSUME NEW l \in Seq(Message), NEW T, T \subseteq {l[k].at : k \in 1 .. Len(l)}, T # {}
  PROVE  \E t \in T : \A u \in T : u <= t
<1>1. Len(l) \in Nat /\ \A k \in 1 .. Len(l) : l[k].at \in Int
  <2>1. \A k \in 1 .. Len(l) : l[k] \in Message
    OBVIOUS
  <2> QED BY <2>1 DEF Message
<1> DEFINE Bounded(n) == \E b \in Int : \A k \in 1 .. Len(l) : k <= n => l[k].at <= b
           S == {n \in Nat : ~Bounded(n)}
<1>2. S = {}
  <2> SUFFICES ASSUME S # {} PROVE FALSE
    OBVIOUS
  <2>1. PICK n \in S : \A k \in S : ~(k < n)
    <3> HIDE DEF S
    <3>1. S \subseteq Nat
      BY DEF S
    <3> QED BY <3>1, FirstPosition
  <2>2. n \in Nat /\ ~Bounded(n)
    OBVIOUS
  <2>3. CASE n = 0
    <3>1. \A k \in 1 .. Len(l) : k <= 0 => l[k].at <= 0
      BY <1>1
    <3> QED BY <2>2, <2>3, <3>1
  <2>4. CASE n # 0
    <3>1. n - 1 \in Nat /\ n - 1 < n
      BY <2>2, <2>4
    <3>2. Bounded(n - 1)
      BY <2>1, <3>1
    <3>3. PICK b \in Int : \A k \in 1 .. Len(l) : k <= n - 1 => l[k].at <= b
      BY <3>2
    <3>4. CASE n \in 1 .. Len(l)
      <4>1. PICK c \in Int : c = IF l[n].at > b THEN l[n].at ELSE b
        BY <1>1, <3>4
      <4>2. \A k \in 1 .. Len(l) : k <= n => l[k].at <= c
        <5> TAKE k \in 1 .. Len(l)
        <5> HIDE DEF S, Bounded
        <5>1. k \in Nat /\ l[k].at \in Int /\ l[n].at \in Int
          BY <1>1, <3>4
        <5>2. k <= n => k <= n - 1 \/ k = n
          BY <2>2, <5>1
        <5>3. b <= c /\ l[n].at <= c
          BY <3>3, <4>1, <5>1
        <5>4. CASE k <= n - 1
          <6>1. l[k].at <= b
            BY <3>3, <5>4
          <6> QED BY <3>3, <4>1, <5>1, <5>3, <6>1
        <5> QED BY <5>2, <5>3, <5>4
      <4> QED BY <2>2, <4>2
    <3>5. CASE n \notin 1 .. Len(l)
      <4>1. \A k \in 1 .. Len(l) : k <= n => k <= n - 1
        BY <1>1, <2>2, <3>5
      <4> QED BY <2>2, <3>3, <4>1
    <3> QED BY <3>4, <3>5
  <2> QED BY <2>3, <2>4
<1>3. PICK b \in Int : \A k \in 1 .. Len(l) : l[k].at <= b
  <2>1. Bounded(Len(l))
    BY <1>1, <1>2
  <2>2. PICK b \in Int : \A k \in 1 .. Len(l) : k <= Len(l) => l[k].at <= b
    BY <2>1
  <2>3. \A k \in 1 .. Len(l) : k <= Len(l)
    BY <1>1
  <2> QED BY <2>2, <2>3
<1> HIDE DEF S, Bounded
<1>4. \A t \in T : t \in Int /\ t <= b
  BY <1>1, <1>3
<1> DEFINE G == {b - t : t \in T}
<1>5. G \subseteq Nat /\ G # {}
  BY <1>4
<1>6. PICK g \in G : \A h \in G : ~(h < g)
  <2> HIDE DEF G
  <2> QED BY <1>5, FirstPosition
<1>7. PICK t \in T : g = b - t
  OBVIOUS
<1>8. \A u \in T : u <= t
  <2> TAKE u \in T
  <2>1. b - u \in G
    OBVIOUS
  <2>2. ~(b - u < g)
    BY <1>6, <2>1
  <2> QED BY <1>4, <1>7, <2>2
<1> QED BY <1>8

\* latest_cursor_time is the time of a record that has been stored.
LEMMA LatestStored ==
  ASSUME WriterInv, Visited(log, Made, db, db.cursors), Current # {}
  PROVE  \E y \in 1 .. Len(log) : log[y].at = Latest /\ log[y].id \in Stored(db)
<1> DEFINE T == {db.cursors[a].last : a \in Current}
<1>1. log \in Seq(Message) /\ db \in DbOver(SessionId)
  BY Setup DEF WriterInv, TypeOK
<1>2. \A a \in Current : a \in Actor /\ db.cursors[a] # NoCursor
  BY DEF Current, Open
<1>3. ASSUME NEW a \in Current
      PROVE  \E y \in 1 .. Len(log) : log[y].at = db.cursors[a].last /\ log[y].id \in Stored(db)
  <2>1. PICK y \in StepsIn(log, db.cursors[a].seq) : log[y].at = db.cursors[a].last
    BY <1>2 DEF Visited, LastSound
  <2>2. PICK n \in 1 .. Len(db.cursors[a].seq) : db.cursors[a].seq[n] = log[y].id
    BY DEF StepsIn, Ids
  <2>3. PICK s : s = Closed(a, db.cursors[a])
    OBVIOUS
  <2>4. s \in Rows(db.sessions, db.cursors, a) /\ s.seq = db.cursors[a].seq
    BY <1>2, <2>3 DEF Rows, Closed
  <2>5. PICK f : f = [id |-> s.seq[n], actor |-> a, sid |-> s.sid]
    OBVIOUS
  <2>6. f \in db.events /\ f.id = log[y].id
    BY <1>2, <2>2, <2>4, <2>5 DEF WriterInv, Sound, StepsSound
  <2> QED BY <2>1, <2>6 DEF StepsIn, Stored
<1>4. T \subseteq {log[k].at : k \in 1 .. Len(log)} /\ T # {}
  BY <1>3
<1>5. PICK t \in T : \A u \in T : u <= t
  <2> HIDE DEF T
  <2> QED BY <1>1, <1>4, LatestTime
<1>6. Latest \in T
  BY <1>5 DEF Latest
<1>7. PICK a \in Current : Latest = db.cursors[a].last
  BY <1>6
<1> QED BY <1>3, <1>7

LEMMA StartSweepOrder ==
  ASSUME WriterInv, PlainInv, WellSent, StartSweep
  PROVE  SweepInOrder'
<1>1. CycleDone /\ Current # {} /\ cutoff' = Latest - Timeout - Margin /\ UNCHANGED <<log, db, done>>
  BY DEF StartSweep, Cutoff, vars, dbVars
<1>2. /\ VisitInv /\ SendOrdered /\ IdsNameMessages /\ log \in Seq(Message) /\ Len(log) \in Nat
  BY Setup DEF PlainInv, Plain, WellSent, WriterInv
<1>3. PICK y \in 1 .. Len(log) : log[y].at = Latest /\ log[y].id \in Stored(db)
  BY <1>1, <1>2, LatestStored DEF VisitInv
<1>4. PICK n \in 0 .. Len(log) : done = 1 .. n
  BY <1>1 DEF CycleDone
<1>5. PICK z \in done : log[z].id = log[y].id
  BY <1>1, <1>3 DEF CycleDone
<1>6. z \in 1 .. Len(log) /\ z \in 1 .. n /\ log[z] = log[y]
  BY <1>2, <1>4, <1>5 DEF IdsNameMessages
<1>7. \A i \in 1 .. Len(log) : log[i].at \in Int
  <2>1. \A i \in 1 .. Len(log) : log[i] \in Message
    BY <1>2
  <2> QED BY <2>1 DEF Message
<1>8. /\ Latest \in Int /\ Timeout \in Int /\ Margin \in Int /\ Tolerance \in Int
      /\ Tolerance <= Margin
  BY <1>3, <1>7, WriterAssumption, SweepAssumption
<1>9. ASSUME NEW i \in 1 .. Len(log), i \notin done, ~Settled(log, db, i)
      PROVE  log[i].at >= Latest - Timeout - Margin + Timeout
  <2>1. \A f \in 1 .. z - 1 : log[f] # log[i]
    <3> SUFFICES ASSUME NEW f \in 1 .. z - 1, log[f] = log[i] PROVE FALSE
      OBVIOUS
    <3>1. f \in 1 .. Len(log) /\ f \in done
      BY <1>2, <1>4, <1>6
    <3> QED BY <1>9, <3>1, NoCopyDone
  <2>2. log[z].at <= log[i].at + Tolerance
    BY <1>2, <1>6, <2>1, SentBefore
  <2> QED BY <1>3, <1>6, <1>7, <1>8, <2>2
<1>10. PICK c \in Int : c = Latest - Timeout - Margin
  BY <1>8
<1>11. \A i \in 1 .. Len(log) : i \notin done /\ ~Settled(log, db, i) => log[i].at >= c + Timeout
  BY <1>9, <1>10
<1> QED BY <1>1, <1>10, <1>11 DEF SweepInOrder

\* The sessions of R have been closed, long before what is still to come.
\* What a chunk does to a view: the sessions of R, all idle, are closed.
SweptAway(d, K, R, cut, e, K2) ==
  /\ \A a \in R : K[a] # NoCursor /\ K[a].last < cut /\ ~Stuck(K[a])
  /\ e.events = d.events /\ e.claims = d.claims
  /\ e.sessions = {s \in d.sessions : \A a \in R : s.sid # K[a].sid}
                    \cup {Closed(a, K[a]) : a \in R}
  /\ K2 = [a \in Actor |-> IF a \in R THEN NoCursor ELSE K[a]]

\* Whatever the cycles have not taken yet is a timeout later than the cutoff.
RestIsLate(l, D, d, cut) ==
  \A i \in 1 .. Len(l) : i \notin D /\ ~Settled(l, d, i) => l[i].at >= cut + Timeout

LEMMA OrderedSwept ==
  ASSUME NEW X, NEW l \in Seq(Message), OneEach(l), NEW M, NEW d, NEW K \in [Actor -> CursorOver(X)],
         Sound(l, M, d, K), Visited(l, M, d, K), NEW D, Ordered(l, D, d, K),
         NEW R \in SUBSET Actor, NEW cut \in Int,
         RestIsLate(l, D, d, cut), NEW e, NEW K2, SweptAway(d, K, R, cut, e, K2)
  PROVE  Ordered(l, D, e, K2)
<1>0. /\ \A a \in R : K[a] # NoCursor /\ K[a].last < cut /\ ~Stuck(K[a])
      /\ \A i \in 1 .. Len(l) : i \notin D /\ ~Settled(l, d, i) => l[i].at >= cut + Timeout
      /\ e.events = d.events /\ e.claims = d.claims
      /\ e.sessions = {s \in d.sessions : \A a \in R : s.sid # K[a].sid}
                        \cup {Closed(a, K[a]) : a \in R}
      /\ K2 = [a \in Actor |-> IF a \in R THEN NoCursor ELSE K[a]]
  BY DEF SweptAway, RestIsLate
<1> USE <1>0
<1>1. /\ Apart(l, d.sessions, K) /\ Backed(l, d.claims, d.sessions, K) /\ InOrder(l, D, d, K)
      /\ LastSound(l, K) /\ EventsFrom(l, d.events)
      /\ StepsSound(d.events, d.sessions, K) /\ OpenSound(l, M, d.sessions, K)
  BY DEF Ordered, Visited, Sound
<1>2. \A a \in Actor : K2[a] = (IF a \in R THEN NoCursor ELSE K[a])
  OBVIOUS
<1>3. \A s \in e.sessions : s \in d.sessions \/ \E a \in R : s = Closed(a, K[a])
  OBVIOUS
<1>4. \A b \in Actor : \A s \in e.sessions : s.actor = b =>
        s \in d.sessions \/ (b \in R /\ K[b] # NoCursor /\ s = Closed(b, K[b]))
  <2>1. \A a \in R : Closed(a, K[a]).actor = a
    BY DEF Closed
  <2> QED BY <1>3, <2>1
<1>5. \A b \in Actor : \A s \in Rows(e.sessions, K2, b) : s \in Rows(d.sessions, K, b)
  BY <1>2, <1>4 DEF Rows
<1>6. Backed(l, e.claims, e.sessions, K2)
  BY <1>1, <1>5 DEF Backed
<1>7. Apart(l, e.sessions, K2)
  <2>1. \A b \in Actor : Closed(b, K[b]).seq = K[b].seq /\ Closed(b, K[b]).start = K[b].start
    BY DEF Closed
  <2>2. ASSUME NEW b \in Actor, NEW s \in e.sessions, s.actor = b, NEW t \in e.sessions, t.actor = b
        PROVE  s = t \/ Clear(l, s.seq, t.start) \/ Clear(l, t.seq, s.start)
    BY <1>1, <1>4, <2>1, <2>2 DEF Apart
  <2>3. ASSUME NEW b \in Actor, NEW s \in e.sessions, s.actor = b, K2[b] # NoCursor
        PROVE  Clear(l, s.seq, K2[b].start)
    BY <1>1, <1>2, <1>4, <2>3 DEF Apart
  <2> QED BY <2>2, <2>3 DEF Apart
<1>8. \A i \in 1 .. Len(l) : l[i].at \in Int
  <2>1. \A i \in 1 .. Len(l) : l[i] \in Message
    OBVIOUS
  <2> QED BY <2>1 DEF Message
<1>9. Timeout \in Nat
  BY WriterAssumption
<1>10. ASSUME NEW b \in R, NEW y \in 1 .. Len(l), l[y].actor = b, l[y].id \in Stored(d)
       PROVE  l[y].at < cut
  <2>1. b \in Actor /\ K[b] # NoCursor /\ K[b].last < cut
    OBVIOUS
  <2>2. K[b].start \in Int /\ K[b].last \in Int /\ K[b].start <= K[b].last
    <3>1. K[b] \in [sid : X, start : Int, last : Int, seq : Seq(EventId)]
      BY <2>1 DEF CursorOver
    <3> QED BY <1>1, <2>1, <3>1 DEF OpenSound
  <2>3. PICK s \in Rows(d.sessions, K, b) : y \in StepsIn(l, s.seq)
    BY <1>1, <1>10, <2>1, StoredIsStep
  <2>4. CASE s = Closed(b, K[b])
    <3>1. y \in StepsIn(l, K[b].seq)
      BY <2>3, <2>4 DEF Closed
    <3>2. l[y].at <= K[b].last
      BY <1>1, <2>1, <3>1 DEF LastSound
    <3> QED BY <1>8, <2>1, <2>2, <3>2
  <2>5. CASE s \in d.sessions /\ s.actor = b
    <3>1. Clear(l, s.seq, K[b].start)
      BY <1>1, <2>1, <2>5 DEF Apart
    <3>2. K[b].start - l[y].at > Timeout
      BY <2>3, <3>1 DEF Clear
    <3> QED BY <1>8, <1>9, <2>1, <2>2, <3>2
  <2> QED BY <2>1, <2>3, <2>4, <2>5 DEF Rows
<1>11. Stored(e) = Stored(d)
  BY DEF Stored
<1>12. ASSUME NEW b \in Actor, NEW x \in 1 .. Len(l), NEW y \in 1 .. Len(l),
              l[x].actor = b, x \notin D, ~Settled(l, e, x), l[y].actor = b, l[y].id \in Stored(e)
       PROVE  \/ Stuck(K2[b])
              \/ K2[b] # NoCursor /\ l[y].at <= l[x].at + Tolerance
              \/ K2[b] = NoCursor /\ l[x].at - l[y].at > Timeout
  <2>1. ~Settled(l, d, x) /\ l[y].id \in Stored(d)
    BY <1>11, <1>12 DEF Settled
  <2>2. CASE b \in R
    <3>1. l[y].at < cut /\ l[x].at >= cut + Timeout
      BY <1>10, <1>12, <2>1, <2>2
    <3>2. l[x].at - l[y].at > Timeout
      BY <1>8, <1>9, <3>1
    <3> QED BY <1>2, <2>2, <3>2
  <2>3. CASE b \notin R
    <3>1. K2[b] = K[b]
      BY <1>2, <2>3
    <3>2. \/ Stuck(K[b])
          \/ K[b] # NoCursor /\ l[y].at <= l[x].at + Tolerance
          \/ K[b] = NoCursor /\ l[x].at - l[y].at > Timeout
      BY <1>1, <1>12, <2>1 DEF InOrder
    <3> QED BY <3>1, <3>2
  <2> QED BY <2>2, <2>3
<1>13. InOrder(l, D, e, K2)
  BY <1>12 DEF InOrder
<1> QED BY <1>6, <1>7, <1>13 DEF Ordered


LEMMA SweepChunkOrder ==
  ASSUME SweepInv, PlainInv, Plain, OrderInv, SweepInOrder, NEW S \in SUBSET Actor, SweepChunk(S)
  PROVE  OrderInv' /\ SweepInOrder'
<1>1. PICK R \in SUBSET Actor : Sweeps(R)
  BY ChunkSweeps
<1>2. /\ batch = {} /\ group = NoActor /\ cutoff # NoSweep /\ cutoff' \in {cutoff, NoSweep}
      /\ UNCHANGED <<log, done, batch, group>>
  BY ChunkSweeps
<1>3. /\ log \in Seq(Message) /\ db.cursors \in [Actor -> CursorOver(SessionId)]
      /\ Sound(log, Made, db, db.cursors)
  <2>1. TypeOK /\ Sound(log, Made, db, db.cursors)
    BY DEF SweepInv, WriterInv
  <2>2. log \in Seq(Message) /\ db \in DbOver(SessionId)
    <3>1. log \in Seq(Message) /\ db \in Database
      BY <2>1 DEF TypeOK
    <3> QED BY <2>1, <3>1, Setup
  <2> QED BY <2>1, <2>2 DEF DbOver
<1>4. OneEach(log) /\ Visited(log, Made, db, db.cursors) /\ Ordered(log, done, db, db.cursors)
  BY DEF PlainInv, Plain, VisitInv, IdsNameMessages, OneEach, OrderInv
<1>5. /\ cutoff \in Int
      /\ \A i \in 1 .. Len(log) : i \notin done /\ ~Settled(log, db, i) => log[i].at >= cutoff + Timeout
  BY <1>2 DEF SweepInOrder
<1>6. PICK e, K2 : e = db' /\ K2 = e.cursors
  OBVIOUS
<1>7. SweptAway(db, db.cursors, R, cutoff, e, K2)
  BY <1>1, <1>6 DEF Sweeps, SweptAway
<1>8. Ordered(log, done, e, K2)
  <2>0. PICK K : K = db.cursors
    OBVIOUS
  <2>1. PICK cut \in Int : cut = cutoff
    BY <1>5
  <2>2. /\ K \in [Actor -> CursorOver(SessionId)] /\ Sound(log, Made, db, K)
        /\ Visited(log, Made, db, K) /\ Ordered(log, done, db, K)
        /\ SweptAway(db, K, R, cut, e, K2)
    BY <1>3, <1>4, <1>7, <2>0, <2>1
  <2>3. RestIsLate(log, done, db, cut)
    BY <1>5, <2>1 DEF RestIsLate
  <2> QED BY <1>3, <1>4, <2>2, <2>3, OrderedSwept
<1>9. OrderInv'
  BY <1>2, <1>6, <1>8 DEF OrderInv
<1>10. SweepInOrder'
  <2>1. Stored(e) = Stored(db)
    BY <1>7 DEF Stored, SweptAway
  <2> QED BY <1>2, <1>5, <1>6, <2>1 DEF SweepInOrder, Settled
<1> QED BY <1>9, <1>10

LEMMA StutterOrder ==
  ASSUME OrderInv, UNCHANGED vars
  PROVE  OrderInv'
<1>1. UNCHANGED <<log, db, done, batch, tx, group, cur, mark>>
  BY DEF vars, dbVars, groupVars
<1>2. Cursors' = Cursors
  BY <1>1 DEF Cursors
<1> QED BY <1>1, <1>2 DEF OrderInv

LEMMA StutterSweep ==
  ASSUME SweepInOrder, UNCHANGED vars, cutoff' \in {cutoff, NoSweep}
  PROVE  SweepInOrder'
<1>1. UNCHANGED <<log, db, done>>
  BY DEF vars, dbVars
<1> QED BY <1>1 DEF SweepInOrder

\* The steps of the writer beside the sweep.
LEMMA WellStep ==
  ASSUME TimeoutSuffices, SweepInv, PlainInv, WellInv, [SweepNext]_allVars
  PROVE  WellInv'
<1>1. log' = log
  BY DEF SweepNext, Next, Begin, ApplyActorless, ApplyMessage, OpenGroup, CloseGroup, Commit,
         Rollback, TransactionEnds, StartSweep, SweepChunk, SweepEnds, allVars, vars
<1> SUFFICES ASSUME WellSent PROVE OrderInv' /\ SweepInOrder'
  BY <1>1, LogFixed DEF WellInv
<1>2. WriterInv /\ Plain /\ OrderInv /\ SweepInOrder
  BY <1>1, LogFixed DEF SweepInv, WellInv
<1>3. CASE cutoff = NoSweep /\ Next /\ UNCHANGED sweepVars
  <2>1. SweepInOrder'
    BY <1>3 DEF sweepVars, SweepInOrder
  <2>2. CASE \E i \in 1 .. Len(log) : Begin(i)
    BY <1>2, <2>1, <2>2, BeginOrder
  <2>3. CASE \E i \in left : ApplyActorless(i)
    BY <1>2, <2>1, <2>3, ApplyActorlessOrder
  <2>4. CASE \E i \in left : ApplyMessage(i)
    BY <1>2, <2>1, <2>4, ApplyMessageOrder
  <2>5. CASE \E a \in Actor : OpenGroup(a)
    BY <1>2, <2>1, <2>5, OpenGroupOrder
  <2>6. CASE CloseGroup
    BY <1>2, <2>1, <2>6, CloseGroupOrder
  <2>7. CASE \E kept \in SUBSET batch : Commit(kept)
    BY <1>2, <2>1, <2>7, CommitOrder
  <2>8. CASE Rollback
    BY <1>2, <2>1, <2>8, RollbackOrder
  <2> QED BY <1>3, <2>2, <2>3, <2>4, <2>5, <2>6, <2>7, <2>8 DEF Next
<1>4. CASE StartSweep
  <2>1. UNCHANGED vars
    BY <1>4 DEF StartSweep
  <2> QED BY <1>2, <1>4, <2>1, StartSweepOrder, StutterOrder
<1>5. CASE \E S \in SUBSET Actor : SweepChunk(S)
  BY <1>2, <1>5, SweepChunkOrder
<1>6. CASE SweepEnds
  <2>1. UNCHANGED vars /\ cutoff' = NoSweep
    BY <1>6 DEF SweepEnds, EndSweep
  <2> QED BY <1>2, <2>1, StutterOrder, StutterSweep
<1>7. CASE UNCHANGED allVars
  <2>1. UNCHANGED vars /\ cutoff' = cutoff
    BY <1>7 DEF allVars, sweepVars
  <2> QED BY <1>2, <2>1, StutterOrder, StutterSweep
<1> QED BY <1>3, <1>4, <1>5, <1>6, <1>7 DEF SweepNext

\* With a tolerance up to the timeout, the invariants of visits and order hold.
THEOREM VisitsInvariant ==
  ASSUME TimeoutSuffices
  PROVE  SweepSpec => [](SweepInv /\ PlainInv /\ WellInv)
<1>1. SweepInit => SweepInv /\ PlainInv /\ WellInv
  BY SweepInvInit, PlainInit, OrderInit DEF SweepInit, WellInv, SweepInOrder
<1>2. SweepInv /\ PlainInv /\ WellInv /\ [SweepNext]_allVars => (SweepInv /\ PlainInv /\ WellInv)'
  BY SweepInvStep, PlainStep, WellStep
<1> QED BY <1>1, <1>2, PTL DEF SweepSpec

\* No visit is cut in two and no two visits are merged, of any well sent log,
\* however often records come again, whichever commits are lost, whatever rows
\* MySQL refuses and whenever a sweep runs: with a tolerance up to the timeout.
THEOREM SessionsAlwaysApart ==
  ASSUME TimeoutSuffices
  PROVE  SweepSpec => []SessionsApart
<1>1. SweepInv /\ PlainInv /\ WellInv => SessionsApart
  <2> SUFFICES ASSUME SweepInv, WellInv, WellSent,
                      NEW a \in Actor, NEW s \in SessionsOf(db, a), NEW t \in SessionsOf(db, a)
               PROVE  \/ s = t
                      \/ \A i \in StepsOf(s) : t.start - log[i].at > Timeout
                      \/ \A i \in StepsOf(t) : s.start - log[i].at > Timeout
    BY DEF SessionsApart
  <2>1. Apart(log, db.sessions, db.cursors)
    BY DEF WellInv, OrderInv, Ordered
  <2>2. \A z : StepsOf(z) = StepsIn(log, z.seq)
    BY DEF StepsOf, StepsIn
  <2>3. Closed(a, db.cursors[a]).start = db.cursors[a].start
    BY DEF Closed
  <2>4. s = t \/ Clear(log, s.seq, t.start) \/ Clear(log, t.seq, s.start)
    BY <2>1, <2>3 DEF SessionsOf, Apart
  <2> QED BY <2>2, <2>4 DEF Clear
<1> QED BY <1>1, VisitsInvariant, PTL

\* Whoever has claimed an add-to-cart has stored one of that product in the same
\* session, of any well sent log: what is discarded is a duplicate.
THEOREM ClaimsAlwaysBacked ==
  ASSUME TimeoutSuffices
  PROVE  SweepSpec => []ClaimsBacked
<1>1. SweepInv /\ PlainInv /\ WellInv => ClaimsBacked
  <2> SUFFICES ASSUME SweepInv, WellInv, WellSent,
                      NEW a \in Actor, NEW s \in SessionsOf(db, a), NEW p \in Product,
                      <<s.sid, p>> \in db.claims
               PROVE  \E n \in 1 .. Len(s.seq), i \in 1 .. Len(log) :
                        log[i].id = s.seq[n] /\ log[i].product = p
    BY DEF ClaimsBacked
  <2>1. s \in Rows(db.sessions, db.cursors, a)
    BY DEF SessionsOf, Rows
  <2>2. PICK i \in StepsIn(log, s.seq) : log[i].product = p
    BY <2>1 DEF WellInv, OrderInv, Ordered, Backed
  <2> QED BY <2>2 DEF StepsIn, Ids
<1> QED BY <1>1, VisitsInvariant, PTL

-----------------------------------------------------------------------------
(* What applying each record once gives *)

Whose == Actor \cup {NoActor}

EventsOf(d, b) == {e \in d.events : e.actor = b}
ClosedOf(d, b) == {s \in d.sessions : s.actor = b}
HasEvent(d, b, id) == \E e \in EventsOf(d, b) : e.id = id

\* Up to the names of sessions, as in Content.
Unnamed(s) == [s EXCEPT !.sid = @[1]]
NoNames(S) == {Unnamed(s) : s \in S}

SameCursor(c, k) ==
  \/ c = NoCursor /\ k = NoCursor
  \/ /\ c # NoCursor /\ k # NoCursor /\ c.sid[1] = k.sid[1]
     /\ c.start = k.start /\ c.last = k.last /\ c.seq = k.seq

\* The actor's session in o is over: what is to come is in another visit.
Over(l, o, a) ==
  \A i \in 1 .. Len(l) :
    l[i].actor = a /\ ~HasEvent(o, a, l[i].id) =>
      l[i].at - o.cursors[a].last > Timeout

SameEvents(d, o, b) == NoNames(EventsOf(d, b)) = NoNames(EventsOf(o, b))

\* Both have the actor's session open, or d has closed it and o has not yet.
SameSessions(l, d, K, o, a) ==
  \/ NoNames(ClosedOf(d, a)) = NoNames(ClosedOf(o, a)) /\ SameCursor(K[a], o.cursors[a])
  \/ /\ K[a] = NoCursor /\ o.cursors[a] # NoCursor
     /\ NoNames(ClosedOf(d, a)) = NoNames(ClosedOf(o, a)) \cup {Unnamed(Closed(a, o.cursors[a]))}
     /\ Over(l, o, a)

\* A view with the cursors K has what o has of b.
Same(l, d, K, o, b) ==
  /\ SameEvents(d, o, b)
  /\ b \in Actor => SameSessions(l, d, K, o, b)

\* Of b's records beyond the N-th the transaction has applied those up to the n-th.
UpTo(N, n, b) ==
  \A k \in N + 1 .. Len(log) : log[k].actor = b => (k <= n <=> k \in batch \ left)

TxSame(N, b) ==
  \E n \in N .. Len(log) : Same(log, tx, Cursors, Once[n], b) /\ UpTo(N, n, b)

\* The tables have what the first N records give.
Agrees(N) ==
  /\ done \subseteq 1 .. N
  /\ \A b \in Whose : Same(log, db, db.cursors, Once[N], b)
  /\ batch # {} =>
       /\ \A b \in Whose : TxSame(N, b)
       /\ \E t \in batch : \A k \in batch : k <= t

OnceInv == \E N \in 0 .. Len(log) : Agrees(N)

Quiet == ClockOrdered /\ NothingRefused /\ IdsNameMessages /\ NoneDiscarded
TransInv == Quiet => OnceInv /\ SweepInOrder

-----------------------------------------------------------------------------
(* Once is what its equation says *)

\* The n-th record, applied to what the ones before it give.
OnceNext(d, n) ==
  LET m == log[n]
      r == ApplyOne(d, IF m.actor = NoActor THEN NoCursor ELSE d.cursors[m.actor], m, <<n, 1>>)
  IN  IF m.actor = NoActor THEN r.db ELSE [r.db EXCEPT !.cursors[m.actor] = r.cursor]

OnceAt(f, n) == IF n = 0 THEN EmptyDb ELSE OnceNext(f[n - 1], n)

Follows(f, m) == \A n \in 0 .. m : f[n] = OnceAt(f, n)

LEMMA FollowsExists ==
  ASSUME NEW m \in Nat
  PROVE  \E f : Follows(f, m)
<1> DEFINE S == {k \in Nat : ~\E f : Follows(f, k)}
<1> SUFFICES ASSUME S # {} PROVE FALSE
  OBVIOUS
<1>1. PICK n \in S : \A k \in S : ~(k < n)
  <2> HIDE DEF S
  <2>1. S \subseteq Nat
    BY DEF S
  <2> QED BY <2>1, FirstPosition
<1>2. n \in Nat /\ ~\E f : Follows(f, n)
  OBVIOUS
<1>3. CASE n = 0
  <2>1. PICK f : f = [k \in {0} |-> EmptyDb]
    OBVIOUS
  <2>2. \A k \in 0 .. 0 : k = 0
    OBVIOUS
  <2>3. f[0] = EmptyDb
    BY <2>1
  <2>4. Follows(f, 0)
    BY <2>2, <2>3 DEF Follows, OnceAt
  <2> QED BY <1>2, <1>3, <2>4
<1>4. CASE n # 0
  <2>1. n - 1 \in Nat /\ n - 1 < n
    BY <1>2, <1>4
  <2>2. PICK f : Follows(f, n - 1)
    BY <1>1, <2>1
  <2>3. PICK v : v = OnceNext(f[n - 1], n)
    OBVIOUS
  <2>4. PICK g : g = [k \in 0 .. n |-> IF k = n THEN v ELSE f[k]]
    OBVIOUS
  <2>5. /\ \A k \in 0 .. n : k # n => g[k] = f[k] /\ k \in 0 .. n - 1
        /\ g[n] = v /\ n - 1 \in 0 .. n /\ n - 1 # n
    BY <1>2, <2>1, <2>4
  <2>6. ASSUME NEW k \in 0 .. n PROVE g[k] = OnceAt(g, k)
    <3>1. CASE k = n
      <4>1. g[n - 1] = f[n - 1]
        BY <2>5
      <4> QED BY <1>4, <2>3, <2>5, <3>1, <4>1 DEF OnceAt
    <3>2. CASE k # n /\ k = 0
      <4>1. g[k] = f[k] /\ f[k] = OnceAt(f, k)
        BY <2>2, <2>5, <3>2 DEF Follows
      <4> QED BY <3>2, <4>1 DEF OnceAt
    <3>3. CASE k # n /\ k # 0
      <4>1. k - 1 \in 0 .. n /\ k - 1 # n
        BY <1>2, <3>3
      <4>2. g[k] = f[k] /\ g[k - 1] = f[k - 1] /\ f[k] = OnceAt(f, k)
        BY <2>2, <2>5, <3>3, <4>1 DEF Follows
      <4> QED BY <3>3, <4>2 DEF OnceAt
    <3> QED BY <3>1, <3>2, <3>3
  <2>7. Follows(g, n)
    BY <2>6 DEF Follows
  <2> QED BY <1>2, <2>7
<1> QED BY <1>3, <1>4

LEMMA OnceIs ==
  ASSUME log \in Seq(Message)
  PROVE  Once[0] = EmptyDb /\ \A n \in 1 .. Len(log) : Once[n] = OnceNext(Once[n - 1], n)
<1>1. Len(log) \in Nat
  OBVIOUS
<1>2. PICK f : Follows(f, Len(log))
  BY <1>1, FollowsExists
<1>3. PICK g : g = [n \in 0 .. Len(log) |-> f[n]]
  OBVIOUS
<1>4. \A n \in 0 .. Len(log) : OnceAt(f, n) = OnceAt(g, n)
  <2> TAKE n \in 0 .. Len(log)
  <2>1. n # 0 => n - 1 \in 0 .. Len(log)
    BY <1>1
  <2>2. n # 0 => f[n - 1] = g[n - 1]
    BY <1>3, <2>1
  <2> QED BY <2>2 DEF OnceAt
<1>5. g = [n \in 0 .. Len(log) |-> OnceAt(g, n)]
  <2>1. \A n \in 0 .. Len(log) : f[n] = OnceAt(g, n)
    BY <1>2, <1>4 DEF Follows
  <2> QED BY <1>3, <2>1
<1>6. Once = CHOOSE h : h = [n \in 0 .. Len(log) |-> OnceAt(h, n)]
  BY Zenon DEF Once, OnceAt, OnceNext
<1>7. Once = [n \in 0 .. Len(log) |-> OnceAt(Once, n)]
  BY <1>5, <1>6, Zenon
<1>8. \A n \in 0 .. Len(log) : Once[n] = OnceAt(Once, n)
  BY <1>7, Zenon
<1>9. 0 \in 0 .. Len(log) /\ \A n \in 1 .. Len(log) : n \in 0 .. Len(log) /\ n # 0
  BY <1>1
<1> QED BY <1>8, <1>9 DEF OnceAt

LEMMA OnceFixed ==
  ASSUME log' = log
  PROVE  Once' = Once
BY SMT DEF Once

Names == Nat \X Nat

\* A message of the actor, what it leaves, and the database e after it.
NextSteps(M, d, a, n, r, e) ==
  /\ Facing(Names, log, M, d, d.cursors, a, n, <<n, 1>>)
  /\ \/ Stores(Names, d, d.cursors[a], log[n], <<n, 1>>, r.db, r.cursor)
     \/ Leaves(d, d.cursors[a], log[n], <<n, 1>>, r)
  /\ Sound(log, M \cup {<<n, 1>>}, r.db, [d.cursors EXCEPT ![a] = r.cursor])
  /\ e \in DbOver(Names)
  /\ e.claims = r.db.claims /\ e.events = r.db.events /\ e.sessions = r.db.sessions
  /\ e.cursors = [d.cursors EXCEPT ![a] = r.cursor]

LEMMA NextMessage ==
  ASSUME log \in Seq(Message), OneEach(log), NEW n \in 1 .. Len(log), NEW a \in Actor,
         log[n].actor = a, NEW M, <<n, 1>> \notin M, NEW d \in DbOver(Names),
         Sound(log, M, d, d.cursors), Visited(log, M, d, d.cursors)
  PROVE  \E r : NextSteps(M, d, a, n, r, OnceNext(d, n))
<1>1. PICK K, c, fresh : K = d.cursors /\ c = K[a] /\ fresh = <<n, 1>>
  OBVIOUS
<1>2. PICK r : r = ApplyOne(d, c, log[n], fresh)
  OBVIOUS
<1>3. PICK e : e = OnceNext(d, n)
  OBVIOUS
<1>4. a # NoActor
  BY WriterAssumption
<1>5. e = [r.db EXCEPT !.cursors[a] = r.cursor]
  BY <1>1, <1>2, <1>3, <1>4 DEF OnceNext
<1>6. /\ Names \subseteq Nat \X Nat /\ fresh \in Names /\ fresh[1] = n /\ n \in Nat
  BY <1>1 DEF Names
<1>7. log[n] \in Message /\ K \in [Actor -> CursorOver(Names)] /\ c \in CursorOver(Names)
  BY <1>1 DEF DbOver
<1>8. r.db \in DbOver(Names) /\ r.cursor \in CursorOver(Names) /\ r.db.cursors = K
  <2>1. PICK m \in Message : m = log[n]
    BY <1>7
  <2> QED BY <1>1, <1>2, <1>6, <1>7, <2>1, ApplyTypes
<1>9. /\ r.db.claims \in SUBSET (Names \X Product)
      /\ r.db = [claims |-> r.db.claims, events |-> r.db.events, sessions |-> r.db.sessions,
                 cursors |-> K]
  BY <1>8 DEF DbOver
<1>10. e = [claims |-> r.db.claims, events |-> r.db.events, sessions |-> r.db.sessions,
            cursors |-> [K EXCEPT ![a] = r.cursor]]
  BY <1>5, <1>9
<1>11. e \in DbOver(Names)
  <2>1. [K EXCEPT ![a] = r.cursor] \in [Actor -> CursorOver(Names)]
    BY <1>7, <1>8
  <2> QED BY <1>8, <1>10, <2>1 DEF DbOver
<1>12. Sound(log, M \cup {fresh}, r.db, [K EXCEPT ![a] = r.cursor])
  <2>1. Extends(EmptyDb, d)
    BY DEF Extends, EmptyDb
  <2>2. Sound(log, M, d, K) /\ fresh \notin M
    BY <1>1
  <2>3. Treated(log, M, EmptyDb, d, K, a, n, fresh, ApplyOne(d, K[a], log[n], fresh))
    BY <1>6, <1>7, <2>1, <2>2, MessageTreated, Zenon
  <2> QED BY <1>1, <1>2, <2>3 DEF Treated, Accounted
<1>13. Facing(Names, log, M, d, K, a, n, fresh)
  BY <1>1, <1>6, <1>7 DEF Facing
<1>14. \/ Stores(Names, d, c, log[n], fresh, r.db, r.cursor)
       \/ Leaves(d, c, log[n], fresh, r)
  <2>1. \A s \in d.sessions : c # NoCursor => s.sid # c.sid
    BY <1>1 DEF Sound, OpenSound
  <2>2. PICK m \in Message : m = log[n] /\ m.actor # NoActor
    BY <1>4, <1>7
  <2>3. LET z == ApplyOne(d, c, m, fresh)
        IN  \/ Stores(Names, d, c, m, fresh, z.db, z.cursor) /\ z.outcome = "applied"
            \/ Leaves(d, c, m, fresh, z)
    BY <1>6, <1>7, <2>1, <2>2, MessageLeaves
  <2> QED BY <1>2, <2>2, <2>3
<1>15. /\ e.claims = r.db.claims /\ e.events = r.db.events /\ e.sessions = r.db.sessions
       /\ e.cursors = [K EXCEPT ![a] = r.cursor]
  BY <1>10
<1>16. NextSteps(M, d, a, n, r, e)
  BY <1>1, <1>11, <1>12, <1>13, <1>14, <1>15 DEF NextSteps
<1> QED BY <1>3, <1>16

\* A message without identity.
LEMMA NextActorless ==
  ASSUME log \in Seq(Message), NEW n \in 1 .. Len(log), log[n].actor = NoActor,
         NEW M, <<n, 1>> \notin M, NEW d \in DbOver(Names), Sound(log, M, d, d.cursors)
  PROVE  \E r : /\ Aside(d, log[n], <<n, 1>>, r) /\ r.db = OnceNext(d, n)
                /\ r.db \in DbOver(Names) /\ r.db.cursors = d.cursors
                /\ Sound(log, M, r.db, d.cursors)
<1>1. PICK fresh : fresh = <<n, 1>>
  OBVIOUS
<1>2. PICK m \in Message : m = log[n]
  OBVIOUS
<1>3. PICK r : r = ApplyOne(d, NoCursor, m, fresh)
  OBVIOUS
<1>4. r.db = OnceNext(d, n)
  BY <1>1, <1>2, <1>3 DEF OnceNext
<1>5. Names \subseteq Nat \X Nat /\ fresh \in Names /\ NoCursor \in CursorOver(Names)
  BY <1>1 DEF Names, CursorOver
<1>6. r.db \in DbOver(Names) /\ r.db.cursors = d.cursors
  BY <1>3, <1>5, ApplyTypes
<1>7. Aside(d, m, fresh, r)
  BY <1>2, <1>3, ActorlessLeaves
<1>8. Sound(log, M, r.db, d.cursors)
  <2>1. Extends(EmptyDb, d)
    BY DEF Extends, EmptyDb
  <2>2. PICK K : K = d.cursors
    OBVIOUS
  <2>3. Sound(log, M, d, K) /\ fresh \notin M /\ fresh[1] = n
    BY <1>1, <2>2
  <2>4. LET z == ApplyOne(d, NoCursor, log[n], fresh)
        IN  Accounted(log, M, EmptyDb, d, K, n, z)
    BY <1>5, <2>1, <2>3, ActorlessAccounted
  <2> QED BY <1>2, <1>3, <2>2, <2>4 DEF Accounted
<1> QED BY <1>1, <1>2, <1>4, <1>6, <1>7, <1>8

\* Where MySQL refuses nothing, no session is stuck.
LEMMA NoneStuck ==
  ASSUME NothingRefused, NEW X, NEW M, NEW d, NEW K, NEW a, NEW i, NEW fresh,
         Facing(X, log, M, d, K, a, i, fresh)
  PROVE  ~Stuck(K[a])
<1> SUFFICES ASSUME Stuck(K[a]) PROVE FALSE
  OBVIOUS
<1>1. OpenSound(log, M, d.sessions, K) /\ a \in Actor /\ K[a] # NoCursor
  BY DEF Facing, Sound, Stuck
<1>2. PICK n \in 1 .. Len(K[a].seq) : K[a].seq[n] \in RefusedSession
  BY DEF Stuck, Ids
<1>3. PICK j \in 1 .. Len(log) : log[j].id = K[a].seq[n]
  BY <1>1 DEF OpenSound
<1> QED BY <1>2, <1>3 DEF NothingRefused

\* A message that is neither discarded nor refused.
TakenIn(X, d, c, m, fresh, r) ==
  IF m.id \in Stored(d) THEN Leaves(d, c, m, fresh, r)
  ELSE Stores(X, d, c, m, fresh, r.db, r.cursor)

\* A message is stored unless it was before.
LEMMA NewIsStored ==
  ASSUME TimeoutSuffices, NoneDiscarded, NothingRefused,
         NEW X, NEW M, NEW d, NEW K, NEW a, NEW i, NEW fresh,
         Facing(X, log, M, d, K, a, i, fresh), NEW r,
         \/ Stores(X, d, K[a], log[i], fresh, r.db, r.cursor)
         \/ Leaves(d, K[a], log[i], fresh, r)
  PROVE  TakenIn(X, d, K[a], log[i], fresh, r)
<1>1. i \in 1 .. Len(log) /\ log[i].id \notin RefusedEvent
  BY DEF Facing, NothingRefused
<1>2. CASE log[i].id \in Stored(d)
  BY <1>2 DEF Stores, TakenIn
<1>3. CASE log[i].id \notin Stored(d) /\ Leaves(d, K[a], log[i], fresh, r)
  <2>1. ~Settled(log, d, i)
    BY <1>1, <1>3 DEF Settled
  <2>2. ~Discards(d, K[a], log[i], fresh, r.db)
    BY <2>1, DiscardsStored
  <2>3. ~Refuses(d, K[a], log[i], r.db)
    BY <1>1, NoneStuck DEF Refuses
  <2> QED BY <1>3, <2>2, <2>3 DEF Leaves, Repeats
<1> QED BY <1>2, <1>3 DEF TakenIn

\* Either way it is stored then.
LEMMA StoredThen ==
  ASSUME NEW X, NEW d, NEW c, NEW m, NEW fresh, NEW r,
         TakenIn(X, d, c, m, fresh, r)
  PROVE  Stored(r.db) = Stored(d) \cup {m.id}
<1>1. CASE m.id \in Stored(d)
  BY <1>1 DEF Leaves, Stored, TakenIn
<1>2. CASE m.id \notin Stored(d)
  <2>1. PICK new : new = [id |-> m.id, actor |-> m.actor, sid |-> r.cursor.sid]
    OBVIOUS
  <2>2. r.db.events = d.events \cup {new} /\ new.id = m.id
    BY <1>2, <2>1 DEF Stores, TakenIn
  <2> QED BY <2>2, StoredWith
<1> QED BY <1>1, <1>2

OnceMade(n) == (1 .. n) \X {1}

\* The database after the first n records.
OnceOk(n) ==
  /\ Once[n] \in DbOver(Names)
  /\ Sound(log, OnceMade(n), Once[n], Once[n].cursors)
  /\ Visited(log, OnceMade(n), Once[n], Once[n].cursors)
  /\ \A k \in 1 .. n : log[k].id \in Stored(Once[n])

LEMMA OnceMessage ==
  ASSUME TimeoutSuffices, log \in Seq(Message), IdsNameMessages, NoneDiscarded, NothingRefused,
         NEW n \in 1 .. Len(log), NEW a \in Actor, log[n].actor = a, OnceOk(n - 1)
  PROVE  /\ OnceOk(n)
         /\ \E r : NextSteps(OnceMade(n - 1), Once[n - 1], a, n, r, Once[n])
<1>1. PICK d, e, M, fresh : /\ d = Once[n - 1] /\ e = Once[n]
                            /\ M = OnceMade(n - 1) /\ fresh = <<n, 1>>
  OBVIOUS
<1>2. n \in Nat /\ Len(log) \in Nat
  OBVIOUS
<1>3. fresh \notin M /\ M \cup {fresh} = OnceMade(n)
  BY <1>1, <1>2 DEF OnceMade
<1>4. e = OnceNext(d, n)
  BY <1>1, OnceIs
<1>5. OneEach(log)
  BY DEF IdsNameMessages, OneEach
<1>6. d \in DbOver(Names) /\ Sound(log, M, d, d.cursors) /\ Visited(log, M, d, d.cursors)
  BY <1>1 DEF OnceOk
<1>7. PICK r : NextSteps(M, d, a, n, r, OnceNext(d, n))
  BY <1>1, <1>3, <1>5, <1>6, NextMessage
<1>8. PICK K, c : K = d.cursors /\ c = K[a]
  OBVIOUS
<1>9. /\ Facing(Names, log, M, d, K, a, n, fresh)
      /\ \/ Stores(Names, d, c, log[n], fresh, r.db, r.cursor)
         \/ Leaves(d, c, log[n], fresh, r)
      /\ Sound(log, M \cup {fresh}, r.db, [K EXCEPT ![a] = r.cursor])
      /\ e \in DbOver(Names)
      /\ e.claims = r.db.claims /\ e.events = r.db.events /\ e.sessions = r.db.sessions
      /\ e.cursors = [K EXCEPT ![a] = r.cursor]
  BY <1>1, <1>4, <1>7, <1>8 DEF NextSteps
<1>10. Sound(log, M \cup {fresh}, e, e.cursors)
  BY <1>9 DEF Sound
<1>11. Visited(log, M \cup {fresh}, e, e.cursors)
  <2>1. Visited(log, M \cup {fresh}, r.db, [K EXCEPT ![a] = r.cursor])
    <3>1. CASE Stores(Names, d, c, log[n], fresh, r.db, r.cursor)
      BY <1>8, <1>9, <3>1, VisitStored
    <3>2. CASE Leaves(d, c, log[n], fresh, r)
      BY <1>8, <1>9, <3>2, VisitLeft
    <3> QED BY <1>9, <3>1, <3>2
  <2>2. Stored(e) = Stored(r.db)
    BY <1>9 DEF Stored
  <2> QED BY <1>9, <2>1, <2>2 DEF Visited, ClaimsNear
<1>12. Stored(e) = Stored(d) \cup {log[n].id}
  <2>1. TakenIn(Names, d, c, log[n], fresh, r)
    BY <1>8, <1>9, NewIsStored
  <2>2. Stored(r.db) = Stored(d) \cup {log[n].id}
    <3>1. PICK m : m = log[n]
      OBVIOUS
    <3> QED BY <2>1, <3>1, StoredThen
  <2>3. Stored(e) = Stored(r.db)
    BY <1>9 DEF Stored
  <2> QED BY <2>2, <2>3
<1>13. \A k \in 1 .. n : log[k].id \in Stored(e)
  <2> TAKE k \in 1 .. n
  <2>1. k = n \/ k \in 1 .. n - 1
    BY <1>2
  <2> QED BY <1>1, <1>12, <2>1 DEF OnceOk
<1>14. OnceOk(n)
  BY <1>1, <1>3, <1>9, <1>10, <1>11, <1>13 DEF OnceOk
<1> QED BY <1>1, <1>4, <1>7, <1>14

LEMMA OnceAside ==
  ASSUME TimeoutSuffices, log \in Seq(Message), IdsNameMessages, NothingRefused,
         NEW n \in 1 .. Len(log), log[n].actor = NoActor, OnceOk(n - 1)
  PROVE  /\ OnceOk(n)
         /\ \E r : Aside(Once[n - 1], log[n], <<n, 1>>, r) /\ r.db = Once[n]
         /\ Once[n].cursors = Once[n - 1].cursors
<1>1. PICK d, M, fresh : d = Once[n - 1] /\ M = OnceMade(n - 1) /\ fresh = <<n, 1>>
  OBVIOUS
<1>2. n \in Nat /\ Len(log) \in Nat
  OBVIOUS
<1>3. fresh \notin M /\ M \cup {fresh} = OnceMade(n)
  BY <1>1, <1>2 DEF OnceMade
<1>4. Once[n] = OnceNext(d, n)
  BY <1>1, OnceIs
<1>5. OneEach(log)
  BY DEF IdsNameMessages, OneEach
<1>6. d \in DbOver(Names) /\ Sound(log, M, d, d.cursors) /\ Visited(log, M, d, d.cursors)
  BY <1>1 DEF OnceOk
<1>7. PICK r : /\ Aside(d, log[n], fresh, r) /\ r.db = Once[n]
               /\ r.db \in DbOver(Names) /\ r.db.cursors = d.cursors
               /\ Sound(log, M, r.db, d.cursors)
  BY <1>1, <1>3, <1>4, <1>6, NextActorless
<1>8. PICK K : K = d.cursors
  OBVIOUS
<1>9. /\ Visited(log, M \cup {fresh}, r.db, K)
      /\ Settled(log, r.db, n) /\ Stored(d) \subseteq Stored(r.db)
  BY <1>3, <1>5, <1>6, <1>7, <1>8, ActorlessVisit
<1>10. Sound(log, M \cup {fresh}, r.db, K)
  BY <1>7, <1>8, SoundGrows
<1>11. \A k \in 1 .. n : log[k].id \in Stored(r.db)
  <2> TAKE k \in 1 .. n
  <2>1. k = n \/ k \in 1 .. n - 1
    BY <1>2
  <2>2. log[n].id \in Stored(r.db)
    BY <1>9 DEF Settled, NothingRefused
  <2> QED BY <1>1, <1>9, <2>1, <2>2 DEF OnceOk
<1>12. OnceOk(n)
  BY <1>3, <1>7, <1>8, <1>9, <1>10, <1>11 DEF OnceOk
<1> QED BY <1>1, <1>7, <1>12

LEMMA OnceSound ==
  ASSUME TimeoutSuffices, log \in Seq(Message), IdsNameMessages, NoneDiscarded, NothingRefused,
         NEW N \in 0 .. Len(log)
  PROVE  OnceOk(N)
<1> DEFINE S == {n \in 0 .. Len(log) : ~OnceOk(n)}
<1> SUFFICES ASSUME S # {} PROVE FALSE
  OBVIOUS
<1>1. PICK n \in S : \A k \in S : ~(k < n)
  <2> HIDE DEF S
  <2>1. S \subseteq Nat
    BY DEF S
  <2> QED BY <2>1, FirstPosition
<1>2. n \in 0 .. Len(log) /\ Len(log) \in Nat /\ ~OnceOk(n)
  OBVIOUS
<1>3. CASE n = 0
  <2>1. Once[0] = EmptyDb /\ Names \subseteq Nat \X Nat
    BY OnceIs DEF Names
  <2>2. EmptyDb \in DbOver(Names)
    BY DEF EmptyDb, DbOver, CursorOver
  <2>3. OnceOk(0)
    BY <2>1, <2>2, EmptySound, EmptyVisited DEF OnceOk
  <2> QED BY <1>2, <1>3, <2>3
<1>4. CASE n # 0
  <2>1. n \in 1 .. Len(log) /\ n - 1 \in 0 .. Len(log) /\ n - 1 < n
    BY <1>2, <1>4
  <2>2. OnceOk(n - 1)
    BY <1>1, <2>1
  <2> HIDE DEF S
  <2>3. log[n] \in Message
    BY <2>1
  <2>4. CASE log[n].actor = NoActor
    BY <1>2, <2>1, <2>2, <2>4, OnceAside
  <2>5. CASE log[n].actor \in Actor
    BY <1>2, <2>1, <2>2, <2>5, OnceMessage
  <2> QED BY <2>3, <2>4, <2>5 DEF Message
<1> QED BY <1>3, <1>4

-----------------------------------------------------------------------------
(* Comparing a view with it *)

LEMMA UnnamedEvent ==
  ASSUME NEW X, NEW e \in [id : EventId, actor : Whose, sid : X]
  PROVE  Unnamed(e) = [id |-> e.id, actor |-> e.actor, sid |-> e.sid[1]]
BY DEF Unnamed

LEMMA UnnamedRow ==
  ASSUME NEW X, NEW s \in [actor : Actor, sid : X, start : Int, end : Int, seq : Seq(EventId)]
  PROVE  Unnamed(s) = [actor |-> s.actor, sid |-> s.sid[1], start |-> s.start, end |-> s.end,
                       seq |-> s.seq]
BY DEF Unnamed

LEMMA NoNamesWith ==
  ASSUME NEW S, NEW x
  PROVE  NoNames(S \cup {x}) = NoNames(S) \cup {Unnamed(x)}
BY DEF NoNames

\* Whether a record is stored is seen among its actor's events.
LEMMA StoredOwn ==
  ASSUME NEW l, OneEach(l), NEW d, EventsFrom(l, d.events), NEW i \in 1 .. Len(l)
  PROVE  l[i].id \in Stored(d) <=> HasEvent(d, l[i].actor, l[i].id)
<1>1. ASSUME NEW e \in d.events, e.id = l[i].id
      PROVE  e \in EventsOf(d, l[i].actor)
  <2>1. PICK j \in 1 .. Len(l) : l[j].id = e.id /\ l[j].actor = e.actor
    BY DEF EventsFrom
  <2>2. l[j] = l[i]
    BY <1>1, <2>1 DEF OneEach
  <2> QED BY <2>1, <2>2 DEF EventsOf
<1> QED BY <1>1 DEF Stored, HasEvent, EventsOf

LEMMA SameIds ==
  ASSUME NEW X, NEW Y, NEW d \in DbOver(X), NEW o \in DbOver(Y), NEW b, NEW id,
         SameEvents(d, o, b), HasEvent(d, b, id)
  PROVE  HasEvent(o, b, id)
<1>1. PICK e \in EventsOf(d, b) : e.id = id
  BY DEF HasEvent
<1>2. PICK f \in EventsOf(o, b) : Unnamed(f) = Unnamed(e)
  BY DEF SameEvents, NoNames
<1>3. e \in [id : EventId, actor : Whose, sid : X] /\ f \in [id : EventId, actor : Whose, sid : Y]
  BY DEF EventsOf, DbOver, Whose
<1>4. f.id = e.id
  BY <1>2, <1>3, UnnamedEvent
<1> QED BY <1>1, <1>4 DEF HasEvent

LEMMA SameStored ==
  ASSUME NEW X, NEW Y, NEW d \in DbOver(X), NEW o \in DbOver(Y), NEW l, OneEach(l),
         EventsFrom(l, d.events), EventsFrom(l, o.events), NEW i \in 1 .. Len(l),
         NEW K, Same(l, d, K, o, l[i].actor)
  PROVE  l[i].id \in Stored(d) <=> l[i].id \in Stored(o)
<1>1. PICK b, id : b = l[i].actor /\ id = l[i].id
  OBVIOUS
<1>2. SameEvents(d, o, b) /\ SameEvents(o, d, b)
  BY <1>1 DEF Same, SameEvents
<1>3. HasEvent(d, b, id) => HasEvent(o, b, id)
  BY <1>2, SameIds
<1>4. HasEvent(o, b, id) => HasEvent(d, b, id)
  BY <1>2, SameIds
<1>5. id \in Stored(d) <=> HasEvent(d, b, id)
  BY <1>1, StoredOwn
<1>6. id \in Stored(o) <=> HasEvent(o, b, id)
  BY <1>1, StoredOwn
<1> QED BY <1>1, <1>3, <1>4, <1>5, <1>6

\* What there is of b stays.
Untouched(d, K, e, K2, b) ==
  /\ EventsOf(e, b) = EventsOf(d, b) /\ ClosedOf(e, b) = ClosedOf(d, b)
  /\ b \in Actor => K2[b] = K[b]

LEMMA SameLeft ==
  ASSUME NEW l, NEW d, NEW K, NEW o, NEW e, NEW K2, NEW b,
         Same(l, d, K, o, b), Untouched(d, K, e, K2, b)
  PROVE  Same(l, e, K2, o, b)
BY DEF Same, SameEvents, SameSessions, Untouched

LEMMA SameRight ==
  ASSUME NEW l, NEW d, NEW K, NEW o, NEW p, NEW b,
         Same(l, d, K, o, b), Untouched(o, o.cursors, p, p.cursors, b)
  PROVE  Same(l, d, K, p, b)
BY DEF Same, SameEvents, SameSessions, Untouched, Over, HasEvent

LEMMA OthersUntouched ==
  ASSUME NEW X, NEW l, NEW M, NEW d, NEW K, NEW a, NEW i, NEW fresh,
         Facing(X, l, M, d, K, a, i, fresh), NEW e, NEW k,
         Stores(X, d, K[a], l[i], fresh, e, k), NEW b \in Whose, b # a
  PROVE  Untouched(d, K, e, [K EXCEPT ![a] = k], b)
<1>1. l[i].actor = a /\ \A y \in Actor : y # a => [K EXCEPT ![a] = k][y] = K[y]
  BY DEF Facing
<1>2. e.events = d.events \cup {[id |-> l[i].id, actor |-> l[i].actor, sid |-> k.sid]}
  BY DEF Stores
<1>3. EventsOf(e, b) = EventsOf(d, b)
  BY <1>1, <1>2 DEF EventsOf
<1>4. e.sessions = d.sessions \/ e.sessions = d.sessions \cup {Closed(a, K[a])}
  BY <1>1 DEF Stores
<1>5. Closed(a, K[a]).actor = a
  BY DEF Closed
<1>6. ClosedOf(e, b) = ClosedOf(d, b)
  BY <1>4, <1>5 DEF ClosedOf
<1> QED BY <1>1, <1>3, <1>6 DEF Untouched

LEMMA LeftUntouched ==
  ASSUME NEW X, NEW l, NEW M, NEW d, NEW K, NEW a, NEW i, NEW fresh,
         Facing(X, l, M, d, K, a, i, fresh), NEW r, Leaves(d, K[a], l[i], fresh, r), NEW b
  PROVE  Untouched(d, K, r.db, [K EXCEPT ![a] = r.cursor], b)
<1>1. [K EXCEPT ![a] = r.cursor] = K
  BY DEF Facing, Leaves
<1>2. r.db.events = d.events /\ r.db.sessions = d.sessions
  BY DEF Leaves
<1> QED BY <1>1, <1>2 DEF Untouched, EventsOf, ClosedOf

LEMMA AsideUntouched ==
  ASSUME NEW d, NEW m, m.actor = NoActor, NEW fresh, NEW r, Aside(d, m, fresh, r), NEW K,
         NEW b \in Whose, b \in Actor \/ m.id \in Stored(d)
  PROVE  Untouched(d, K, r.db, K, b)
<1>1. r.db.sessions = d.sessions
  BY DEF Aside
<1>2. CASE m.id \in Stored(d)
  <2>1. r.db.events = d.events
    BY <1>2 DEF Aside
  <2> QED BY <1>1, <2>1 DEF Untouched, EventsOf, ClosedOf
<1>3. CASE b \in Actor
  <2>1. b # NoActor
    BY <1>3, WriterAssumption
  <2>2. \/ r.db.events = d.events
        \/ r.db.events = d.events \cup {[id |-> m.id, actor |-> m.actor, sid |-> fresh]}
    BY DEF Aside
  <2>3. EventsOf(r.db, b) = EventsOf(d, b)
    BY <2>1, <2>2 DEF EventsOf
  <2> QED BY <1>1, <2>3 DEF Untouched, ClosedOf
<1> QED BY <1>2, <1>3

\* Two sessions that differ in their names only give such rows.
LEMMA SameRow ==
  ASSUME NEW X, NEW Y, X \subseteq Nat \X Nat, Y \subseteq Nat \X Nat, NEW a \in Actor,
         NEW c \in CursorOver(X), NEW k \in CursorOver(Y), SameCursor(c, k), c # NoCursor
  PROVE  Unnamed(Closed(a, c)) = Unnamed(Closed(a, k))
<1>1. /\ c \in [sid : X, start : Int, last : Int, seq : Seq(EventId)]
      /\ k \in [sid : Y, start : Int, last : Int, seq : Seq(EventId)]
  BY CursorKind DEF SameCursor
<1>2. PICK s, t : s = Closed(a, c) /\ t = Closed(a, k)
  OBVIOUS
<1>3. /\ s \in [actor : Actor, sid : X, start : Int, end : Int, seq : Seq(EventId)]
      /\ t \in [actor : Actor, sid : Y, start : Int, end : Int, seq : Seq(EventId)]
      /\ s.actor = a /\ t.actor = a /\ s.sid = c.sid /\ t.sid = k.sid
      /\ s.start = c.start /\ t.start = k.start /\ s.end = c.last /\ t.end = k.last
      /\ s.seq = c.seq /\ t.seq = k.seq
  BY <1>1, <1>2 DEF Closed
<1>4. /\ Unnamed(s) = [actor |-> s.actor, sid |-> s.sid[1], start |-> s.start, end |-> s.end,
                       seq |-> s.seq]
      /\ Unnamed(t) = [actor |-> t.actor, sid |-> t.sid[1], start |-> t.start, end |-> t.end,
                       seq |-> t.seq]
  BY <1>3, UnnamedRow
<1>5. c.sid[1] = k.sid[1] /\ c.start = k.start /\ c.last = k.last /\ c.seq = k.seq
  BY DEF SameCursor
<1> QED BY <1>2, <1>3, <1>4, <1>5

SameRecord(x, y) == x[1] = y[1]

\* The cursors after the same message.
LEMMA SameAfter ==
  ASSUME NEW c, NEW k, NEW m, NEW x, NEW y, SameRecord(x, y), NEW c2, NEW k2,
         c2 # NoCursor, k2 # NoCursor, SameCursor(c, k) \/ (c = NoCursor /\ ~Within(k, m)),
         Joins(c, m, c2) \/ Begins(c, m, x, c2), Joins(k, m, k2) \/ Begins(k, m, y, k2)
  PROVE  /\ SameCursor(c2, k2)
         /\ SameCursor(c, k) => (Joins(c, m, c2) <=> Joins(k, m, k2))
         /\ ~SameCursor(c, k) => ~Joins(c, m, c2) /\ ~Joins(k, m, k2)
<1>1. CASE SameCursor(c, k)
  <2>1. Within(c, m) <=> Within(k, m)
    BY <1>1 DEF Within, SameCursor
  <2>2. CASE Within(c, m)
    <3>1. Joins(c, m, c2) /\ Joins(k, m, k2) /\ c # NoCursor /\ k # NoCursor
      BY <2>1, <2>2 DEF Within, Begins
    <3>2. c.sid[1] = k.sid[1] /\ c.start = k.start /\ c.last = k.last /\ c.seq = k.seq
      BY <1>1, <3>1 DEF SameCursor
    <3>3. c2.sid[1] = k2.sid[1] /\ c2.start = k2.start /\ c2.last = k2.last /\ c2.seq = k2.seq
      BY <3>1, <3>2 DEF Joins
    <3> QED BY <1>1, <3>1, <3>3 DEF SameCursor
  <2>3. CASE ~Within(c, m)
    <3>1. ~Joins(c, m, c2) /\ ~Joins(k, m, k2)
      BY <2>1, <2>3 DEF Joins
    <3>2. Begins(c, m, x, c2) /\ Begins(k, m, y, k2)
      BY <3>1
    <3>3. c2.sid[1] = k2.sid[1] /\ c2.start = k2.start /\ c2.last = k2.last /\ c2.seq = k2.seq
      BY <3>2 DEF Begins, SameRecord
    <3> QED BY <1>1, <3>1, <3>3 DEF SameCursor
  <2> QED BY <2>2, <2>3
<1>2. CASE ~SameCursor(c, k)
  <2>1. ~Within(c, m) /\ ~Within(k, m)
    BY <1>2 DEF Within
  <2>2. ~Joins(c, m, c2) /\ ~Joins(k, m, k2)
    BY <2>1 DEF Joins
  <2>3. Begins(c, m, x, c2) /\ Begins(k, m, y, k2)
    BY <2>2
  <2>4. c2.sid[1] = k2.sid[1] /\ c2.start = k2.start /\ c2.last = k2.last /\ c2.seq = k2.seq
    BY <2>3 DEF Begins, SameRecord
  <2> QED BY <1>2, <2>2, <2>4 DEF SameCursor
<1> QED BY <1>1, <1>2

\* The database p is q with the actor's cursor k, the others being those of o.
Leads(o, a, q, k, p) ==
  p.events = q.events /\ p.sessions = q.sessions /\ p.cursors = [o.cursors EXCEPT ![a] = k]

\* A message stored on both sides.
LEMMA BothStore ==
  ASSUME NEW X, NEW Y, NEW l, NEW M, NEW N, NEW d, NEW K, NEW o, NEW a, NEW i,
         NEW fresh, NEW other, SameRecord(fresh, other),
         Facing(X, l, M, d, K, a, i, fresh), Facing(Y, l, N, o, o.cursors, a, i, other),
         Same(l, d, K, o, a),
         NEW e, NEW c2, Stores(X, d, K[a], l[i], fresh, e, c2),
         NEW q, NEW k2, Stores(Y, o, o.cursors[a], l[i], other, q, k2),
         NEW p, Leads(o, a, q, k2, p)
  PROVE  Same(l, e, [K EXCEPT ![a] = c2], p, a)
<1>0. /\ p.events = q.events /\ p.sessions = q.sessions /\ p.cursors = [o.cursors EXCEPT ![a] = k2]
      /\ fresh[1] = other[1]
  BY DEF Leads, SameRecord
<1>1. PICK c, k, m, K2 : /\ c = K[a] /\ k = o.cursors[a] /\ m = l[i]
                         /\ K2 = [K EXCEPT ![a] = c2]
  OBVIOUS
<1>2. /\ X \subseteq Nat \X Nat /\ Y \subseteq Nat \X Nat /\ a \in Actor /\ m.actor = a
      /\ c \in CursorOver(X) /\ k \in CursorOver(Y) /\ m \in Message
      /\ K2[a] = c2 /\ p.cursors[a] = k2 /\ a # NoActor
  BY <1>0, <1>1, FacingCursor, WriterAssumption DEF Facing, DbOver
<1>3. /\ c2 \in [sid : X, start : Int, last : Int, seq : Seq(EventId)]
      /\ k2 \in [sid : Y, start : Int, last : Int, seq : Seq(EventId)]
  BY DEF Stores
<1>4. c2 # NoCursor /\ k2 # NoCursor
  BY <1>2, <1>3, NotNoCursor
<1>5. /\ Joins(c, m, c2) \/ Begins(c, m, fresh, c2)
      /\ Joins(k, m, k2) \/ Begins(k, m, other, k2)
  BY <1>1 DEF Stores
<1>6. SameSessions(l, d, K, o, a) /\ SameEvents(d, o, a)
  BY <1>2 DEF Same
<1>7. K[a] = NoCursor /\ Over(l, o, a) => ~Within(k, m)
  <2>1. SUFFICES ASSUME Over(l, o, a) PROVE ~Within(k, m)
    OBVIOUS
  <2>2. ~HasEvent(o, a, m.id)
    BY <1>1 DEF Stores, HasEvent, EventsOf, Stored
  <2>3. i \in 1 .. Len(l) /\ l[i].actor = a
    BY DEF Facing
  <2>4. m.at - k.last > Timeout
    BY <1>1, <2>1, <2>2, <2>3 DEF Over
  <2> QED BY <2>4 DEF Within
<1>8. SameCursor(c, k) \/ (c = NoCursor /\ ~Within(k, m))
  BY <1>1, <1>6, <1>7 DEF SameSessions
<1>9. /\ SameCursor(c2, k2)
      /\ SameCursor(c, k) => (Joins(c, m, c2) <=> Joins(k, m, k2))
      /\ ~SameCursor(c, k) => ~Joins(c, m, c2) /\ ~Joins(k, m, k2)
  BY <1>0, <1>4, <1>5, <1>8, SameAfter
<1>10. SameEvents(e, p, a)
  <2>1. PICK x, y : /\ x = [id |-> m.id, actor |-> a, sid |-> c2.sid]
                    /\ y = [id |-> m.id, actor |-> a, sid |-> k2.sid]
    OBVIOUS
  <2>2. e.events = d.events \cup {x} /\ p.events = o.events \cup {y} /\ x.actor = a /\ y.actor = a
    BY <1>0, <1>1, <1>2, <2>1 DEF Stores
  <2>3. /\ x \in [id : EventId, actor : Whose, sid : X] /\ y \in [id : EventId, actor : Whose, sid : Y]
        /\ x.id = y.id /\ x.actor = y.actor /\ x.sid = c2.sid /\ y.sid = k2.sid
    BY <1>2, <1>3, <2>1 DEF Message, Whose
  <2>4. x.sid[1] = y.sid[1]
    BY <1>9, <1>4, <2>3 DEF SameCursor
  <2>5. /\ Unnamed(x) = [id |-> x.id, actor |-> x.actor, sid |-> x.sid[1]]
        /\ Unnamed(y) = [id |-> y.id, actor |-> y.actor, sid |-> y.sid[1]]
    BY <2>3, UnnamedEvent
  <2>6. Unnamed(x) = Unnamed(y)
    BY <2>3, <2>4, <2>5
  <2>7. NoNames(EventsOf(e, a)) = NoNames(EventsOf(d, a)) \cup {Unnamed(x)}
    <3>1. EventsOf(e, a) = EventsOf(d, a) \cup {x}
      BY <2>2 DEF EventsOf
    <3>2. PICK S : S = EventsOf(d, a)
      OBVIOUS
    <3> QED BY <3>1, <3>2, NoNamesWith
  <2>8. NoNames(EventsOf(p, a)) = NoNames(EventsOf(o, a)) \cup {Unnamed(y)}
    <3>1. EventsOf(p, a) = EventsOf(o, a) \cup {y}
      BY <2>2 DEF EventsOf
    <3>2. PICK S : S = EventsOf(o, a)
      OBVIOUS
    <3> QED BY <3>1, <3>2, NoNamesWith
  <2> QED BY <1>6, <2>6, <2>7, <2>8 DEF SameEvents
<1>11. NoNames(ClosedOf(e, a)) = NoNames(ClosedOf(p, a))
  <2>1. /\ Joins(c, m, c2) => e.sessions = d.sessions
        /\ Joins(k, m, k2) => p.sessions = o.sessions
    BY <1>0, <1>1 DEF Stores, Joins, Begins
  <2>2. /\ ~Joins(c, m, c2) => e.sessions = d.sessions \cup (IF c = NoCursor THEN {} ELSE {Closed(a, c)})
        /\ ~Joins(k, m, k2) => p.sessions = o.sessions \cup (IF k = NoCursor THEN {} ELSE {Closed(a, k)})
    BY <1>0, <1>1, <1>2 DEF Stores
  <2>3. /\ e.sessions = d.sessions => ClosedOf(e, a) = ClosedOf(d, a)
        /\ p.sessions = o.sessions => ClosedOf(p, a) = ClosedOf(o, a)
    BY DEF ClosedOf
  <2>4. Closed(a, c).actor = a /\ Closed(a, k).actor = a
    BY DEF Closed
  <2>5. PICK s, t : s = Closed(a, c) /\ t = Closed(a, k)
    OBVIOUS
  <2>6. /\ e.sessions = d.sessions \cup {s} =>
             NoNames(ClosedOf(e, a)) = NoNames(ClosedOf(d, a)) \cup {Unnamed(s)}
        /\ p.sessions = o.sessions \cup {t} =>
             NoNames(ClosedOf(p, a)) = NoNames(ClosedOf(o, a)) \cup {Unnamed(t)}
    <3>1. s.actor = a /\ t.actor = a
      BY <2>4, <2>5
    <3>2. /\ e.sessions = d.sessions \cup {s} => ClosedOf(e, a) = ClosedOf(d, a) \cup {s}
          /\ p.sessions = o.sessions \cup {t} => ClosedOf(p, a) = ClosedOf(o, a) \cup {t}
      BY <3>1 DEF ClosedOf
    <3>3. PICK S, T : S = ClosedOf(d, a) /\ T = ClosedOf(o, a)
      OBVIOUS
    <3>4. /\ NoNames(S \cup {s}) = NoNames(S) \cup {Unnamed(s)}
          /\ NoNames(T \cup {t}) = NoNames(T) \cup {Unnamed(t)}
      BY NoNamesWith
    <3> QED BY <3>2, <3>3, <3>4
  <2>7. CASE SameCursor(c, k) /\ Joins(c, m, c2)
    <3>1. k # NoCursor \/ c = NoCursor
      BY <2>7 DEF SameCursor
    <3>2. c # NoCursor
      BY <2>7 DEF Joins, Within
    <3>3. NoNames(ClosedOf(d, a)) = NoNames(ClosedOf(o, a))
      BY <1>1, <1>6, <3>2 DEF SameSessions
    <3> QED BY <1>9, <2>1, <2>3, <2>7, <3>3
  <2>8. CASE SameCursor(c, k) /\ ~Joins(c, m, c2) /\ c = NoCursor
    <3>1. k = NoCursor
      BY <2>8 DEF SameCursor
    <3>2. NoNames(ClosedOf(d, a)) = NoNames(ClosedOf(o, a))
      BY <1>1, <1>6, <3>1 DEF SameSessions
    <3>3. e.sessions = d.sessions /\ p.sessions = o.sessions
      BY <1>9, <2>2, <2>8, <3>1
    <3> QED BY <2>3, <3>2, <3>3
  <2>9. CASE SameCursor(c, k) /\ ~Joins(c, m, c2) /\ c # NoCursor
    <3>1. k # NoCursor
      BY <2>9 DEF SameCursor
    <3>2. NoNames(ClosedOf(d, a)) = NoNames(ClosedOf(o, a))
      BY <1>1, <1>6, <2>9 DEF SameSessions
    <3>3. e.sessions = d.sessions \cup {s} /\ p.sessions = o.sessions \cup {t}
      BY <1>9, <2>2, <2>5, <2>9, <3>1
    <3>4. Unnamed(s) = Unnamed(t)
      BY <1>2, <2>5, <2>9, SameRow
    <3> QED BY <2>6, <3>2, <3>3, <3>4
  <2>10. CASE ~SameCursor(c, k)
    <3>1. /\ c = NoCursor /\ k # NoCursor
          /\ NoNames(ClosedOf(d, a)) = NoNames(ClosedOf(o, a)) \cup {Unnamed(Closed(a, k))}
      BY <1>1, <1>6, <2>10 DEF SameSessions
    <3>2. e.sessions = d.sessions /\ p.sessions = o.sessions \cup {t}
      BY <1>9, <2>2, <2>5, <2>10, <3>1
    <3> QED BY <2>3, <2>5, <2>6, <3>1, <3>2
  <2> QED BY <2>7, <2>8, <2>9, <2>10
<1>12. SameSessions(l, e, K2, p, a)
  BY <1>2, <1>9, <1>11 DEF SameSessions
<1> QED BY <1>1, <1>10, <1>12 DEF Same

\* A message without identity that is neither discarded nor refused.
TakenAside(d, m, fresh, e) ==
  /\ e.sessions = d.sessions
  /\ e.events = IF m.id \in Stored(d) THEN d.events
                ELSE d.events \cup {[id |-> m.id, actor |-> m.actor, sid |-> fresh]}

LEMMA AsideTaken ==
  ASSUME NothingRefused, NEW i \in 1 .. Len(log), NEW M, NEW d, NEW K, ClaimsNear(log, M, d, K),
         NEW fresh, fresh \notin M, NEW r, Aside(d, log[i], fresh, r)
  PROVE  TakenAside(d, log[i], fresh, r.db)
<1>1. log[i].id \notin RefusedEvent
  BY DEF NothingRefused
<1>2. ~\E p : <<fresh, p>> \in d.claims
  BY DEF ClaimsNear
<1> QED BY <1>1, <1>2 DEF Aside, TakenAside

\* A message without identity, on both sides.
LEMMA BothAside ==
  ASSUME NEW X, NEW Y, NEW d, NEW o, NEW m \in Message, m.actor = NoActor,
         NEW fresh \in X, NEW other \in Y, fresh[1] = other[1],
         m.id \in Stored(d) <=> m.id \in Stored(o),
         NEW l, NEW K, Same(l, d, K, o, NoActor),
         NEW e, TakenAside(d, m, fresh, e), NEW p, TakenAside(o, m, other, p)
  PROVE  Same(l, e, K, p, NoActor)
<1>1. SameEvents(d, o, NoActor) /\ NoActor \notin Actor
  BY WriterAssumption DEF Same
<1>2. SUFFICES SameEvents(e, p, NoActor)
  BY <1>1 DEF Same
<1>3. CASE m.id \in Stored(d)
  <2>1. e.events = d.events /\ p.events = o.events
    BY <1>3 DEF TakenAside
  <2> QED BY <1>1, <2>1 DEF SameEvents, EventsOf
<1>4. CASE m.id \notin Stored(d)
  <2>1. PICK x, y : /\ x = [id |-> m.id, actor |-> m.actor, sid |-> fresh]
                    /\ y = [id |-> m.id, actor |-> m.actor, sid |-> other]
    OBVIOUS
  <2>2. e.events = d.events \cup {x} /\ p.events = o.events \cup {y}
        /\ x.actor = NoActor /\ y.actor = NoActor
    BY <1>4, <2>1 DEF TakenAside
  <2>3. /\ x \in [id : EventId, actor : Whose, sid : X] /\ y \in [id : EventId, actor : Whose, sid : Y]
        /\ x.id = y.id /\ x.actor = y.actor /\ x.sid = fresh /\ y.sid = other
    BY <2>1 DEF Message, Whose
  <2>4. /\ Unnamed(x) = [id |-> x.id, actor |-> x.actor, sid |-> x.sid[1]]
        /\ Unnamed(y) = [id |-> y.id, actor |-> y.actor, sid |-> y.sid[1]]
    BY <2>3, UnnamedEvent
  <2>5. Unnamed(x) = Unnamed(y)
    BY <2>3, <2>4
  <2>6. /\ EventsOf(e, NoActor) = EventsOf(d, NoActor) \cup {x}
        /\ EventsOf(p, NoActor) = EventsOf(o, NoActor) \cup {y}
    BY <2>2 DEF EventsOf
  <2>7. PICK S, T : S = EventsOf(d, NoActor) /\ T = EventsOf(o, NoActor)
    OBVIOUS
  <2>8. /\ NoNames(S \cup {x}) = NoNames(S) \cup {Unnamed(x)}
        /\ NoNames(T \cup {y}) = NoNames(T) \cup {Unnamed(y)}
    BY NoNamesWith
  <2> QED BY <1>1, <2>5, <2>6, <2>7, <2>8 DEF SameEvents
<1> QED BY <1>3, <1>4

-----------------------------------------------------------------------------
(* Records that change nothing of b *)

OnceUntouched(n, m, b) == Untouched(Once[n], Once[n].cursors, Once[m], Once[m].cursors, b)

LEMMA OnceStep ==
  ASSUME TimeoutSuffices, log \in Seq(Message), IdsNameMessages, NoneDiscarded, NothingRefused,
         NEW n \in 1 .. Len(log), NEW b \in Whose,
         log[n].actor # b \/ log[n].id \in Stored(Once[n - 1])
  PROVE  OnceUntouched(n - 1, n, b)
<1>1. PICK d, e, M, K, fresh : /\ d = Once[n - 1] /\ e = Once[n] /\ M = OnceMade(n - 1)
                               /\ K = d.cursors /\ fresh = <<n, 1>>
  OBVIOUS
<1>2. OnceOk(n - 1) /\ log[n] \in Message
  <2>1. n - 1 \in 0 .. Len(log)
    OBVIOUS
  <2> QED BY <2>1, OnceSound
<1>3. CASE log[n].actor = NoActor
  <2>1. PICK r : Aside(d, log[n], fresh, r) /\ r.db = e
    BY <1>1, <1>2, <1>3, OnceAside
  <2>2. e.cursors = K
    BY <1>1, <1>2, <1>3, OnceAside
  <2>3. b \in Actor \/ log[n].id \in Stored(d)
    BY <1>1, <1>3 DEF Whose
  <2>4. PICK m : m = log[n] /\ m.actor = NoActor
    BY <1>3
  <2>5. Untouched(d, K, r.db, K, b)
    BY <2>1, <2>3, <2>4, AsideUntouched
  <2> QED BY <1>1, <2>1, <2>2, <2>5 DEF OnceUntouched
<1>4. CASE log[n].actor # NoActor
  <2>1. PICK a \in Actor : log[n].actor = a
    BY <1>2, <1>4 DEF Message
  <2>2. PICK r : NextSteps(M, d, a, n, r, e)
    BY <1>1, <1>2, <2>1, OnceMessage
  <2>3. PICK K2 : K2 = [K EXCEPT ![a] = r.cursor]
    OBVIOUS
  <2>4. /\ Facing(Names, log, M, d, K, a, n, fresh)
        /\ Stores(Names, d, K[a], log[n], fresh, r.db, r.cursor) \/ Leaves(d, K[a], log[n], fresh, r)
        /\ e.events = r.db.events /\ e.sessions = r.db.sessions /\ e.cursors = K2
    BY <1>1, <2>2, <2>3 DEF NextSteps
  <2>5. Untouched(d, K, r.db, K2, b)
    <3>1. CASE Stores(Names, d, K[a], log[n], fresh, r.db, r.cursor)
      <4>1. log[n].id \notin Stored(d)
        BY <3>1 DEF Stores
      <4>2. b # a
        BY <1>1, <2>1, <4>1
      <4>3. PICK e2, k2 : e2 = r.db /\ k2 = r.cursor
        OBVIOUS
      <4>4. Facing(Names, log, M, d, K, a, n, fresh) /\ Stores(Names, d, K[a], log[n], fresh, e2, k2)
        BY <2>4, <3>1, <4>3
      <4>5. Untouched(d, K, e2, [K EXCEPT ![a] = k2], b)
        BY <4>2, <4>4, OthersUntouched
      <4> QED BY <2>3, <4>3, <4>5
    <3>2. CASE Leaves(d, K[a], log[n], fresh, r)
      <4>1. Facing(Names, log, M, d, K, a, n, fresh)
        BY <2>4
      <4>2. Untouched(d, K, r.db, [K EXCEPT ![a] = r.cursor], b)
        BY <3>2, <4>1, LeftUntouched
      <4> QED BY <2>3, <4>2
    <3> QED BY <2>4, <3>1, <3>2
  <2> QED BY <1>1, <2>4, <2>5 DEF OnceUntouched, Untouched, EventsOf, ClosedOf
<1> QED BY <1>3, <1>4

\* Nothing of b comes between the two.
QuietBetween(n, m, b) == \A k \in n + 1 .. m : log[k].actor # b

LEMMA OnceQuiet ==
  ASSUME TimeoutSuffices, log \in Seq(Message), IdsNameMessages, NoneDiscarded, NothingRefused,
         NEW n \in 0 .. Len(log), NEW m \in n .. Len(log), NEW b \in Whose, QuietBetween(n, m, b)
  PROVE  OnceUntouched(n, m, b)
<1> DEFINE S == {k \in n .. m : ~OnceUntouched(n, k, b)}
<1>0. n \in Nat /\ m \in Nat /\ Len(log) \in Nat /\ n <= m /\ m <= Len(log)
  OBVIOUS
<1>1. S = {}
  <2> SUFFICES ASSUME S # {} PROVE FALSE
    OBVIOUS
  <2>1. PICK k \in S : \A j \in S : ~(j < k)
    <3> HIDE DEF S
    <3>1. S \subseteq Nat
      BY <1>0 DEF S
    <3> QED BY <3>1, FirstPosition
  <2>2. k \in n .. m /\ ~OnceUntouched(n, k, b)
    OBVIOUS
  <2>3. k # n
    <3>1. OnceUntouched(n, n, b)
      BY DEF OnceUntouched, Untouched
    <3> QED BY <2>2, <3>1
  <2>4. k - 1 \in n .. m /\ k - 1 < k /\ k \in 1 .. Len(log) /\ k \in n + 1 .. m
    BY <1>0, <2>2, <2>3
  <2>5. OnceUntouched(n, k - 1, b)
    BY <2>1, <2>4
  <2> HIDE DEF S
  <2>6. log[k].actor # b
    BY <2>4 DEF QuietBetween
  <2>7. OnceUntouched(k - 1, k, b)
    BY <2>4, <2>6, OnceStep
  <2>8. OnceUntouched(n, k, b)
    BY <2>5, <2>7 DEF OnceUntouched, Untouched
  <2> QED BY <2>2, <2>8
<1>2. m \in n .. m
  BY <1>0
<1> QED BY <1>1, <1>2

LEMMA SameOn ==
  ASSUME NEW l, NEW d, NEW K, NEW n, NEW m, NEW b,
         OnceUntouched(n, m, b) \/ OnceUntouched(m, n, b), Same(l, d, K, Once[n], b)
  PROVE  Same(l, d, K, Once[m], b)
<1>1. PICK o, p : o = Once[n] /\ p = Once[m]
  OBVIOUS
<1>2. Untouched(o, o.cursors, p, p.cursors, b)
  BY <1>1 DEF OnceUntouched, Untouched
<1>3. Same(l, d, K, o, b)
  BY <1>1
<1> QED BY <1>1, <1>2, <1>3, SameRight

-----------------------------------------------------------------------------
(* A record applied to a view that is the same *)

LEMMA StoredAlike ==
  ASSUME TimeoutSuffices, log \in Seq(Message), IdsNameMessages, NoneDiscarded, NothingRefused,
         NEW X, NEW d \in DbOver(X), EventsFrom(log, d.events), NEW i \in 1 .. Len(log),
         NEW n \in 0 .. Len(log), NEW K, Same(log, d, K, Once[n], log[i].actor)
  PROVE  log[i].id \in Stored(d) <=> log[i].id \in Stored(Once[n])
<1>1. PICK o : o = Once[n]
  OBVIOUS
<1>2. o \in DbOver(Names) /\ EventsFrom(log, o.events)
  BY <1>1, OnceSound DEF OnceOk, Visited
<1>3. OneEach(log)
  BY DEF IdsNameMessages, OneEach
<1>4. Same(log, d, K, o, log[i].actor)
  BY <1>1
<1>5. log[i].id \in Stored(d) <=> log[i].id \in Stored(o)
  BY <1>2, <1>3, <1>4, SameStored
<1> QED BY <1>1, <1>5

\* A record that comes again.
LEMMA AgainAlike ==
  ASSUME TimeoutSuffices, IdsNameMessages, NoneDiscarded, NothingRefused,
         NEW X, NEW M, NEW d, NEW K, NEW a, NEW i, NEW fresh,
         Facing(X, log, M, d, K, a, i, fresh), NEW r,
         \/ Stores(X, d, K[a], log[i], fresh, r.db, r.cursor)
         \/ Leaves(d, K[a], log[i], fresh, r),
         NEW n \in 0 .. Len(log), i <= n, Same(log, d, K, Once[n], a)
  PROVE  Same(log, r.db, [K EXCEPT ![a] = r.cursor], Once[n], a)
<1>1. /\ log \in Seq(Message) /\ d \in DbOver(X) /\ EventsFrom(log, d.events)
      /\ i \in 1 .. Len(log) /\ log[i].actor = a
  BY DEF Facing, Visited
<1>2. i \in 1 .. n
  BY <1>1
<1>3. log[i].id \in Stored(Once[n])
  BY <1>1, <1>2, OnceSound DEF OnceOk
<1>4. Same(log, d, K, Once[n], log[i].actor)
  BY <1>1
<1>5. log[i].id \in Stored(d)
  BY <1>1, <1>3, <1>4, StoredAlike
<1>6. Leaves(d, K[a], log[i], fresh, r)
  BY <1>5 DEF Stores
<1>7. PICK K2, e, o : K2 = [K EXCEPT ![a] = r.cursor] /\ e = r.db /\ o = Once[n]
  OBVIOUS
<1>8. Untouched(d, K, r.db, [K EXCEPT ![a] = r.cursor], a)
  BY <1>6, LeftUntouched
<1>9. Untouched(d, K, e, K2, a) /\ Same(log, d, K, o, a)
  BY <1>7, <1>8
<1>10. Same(log, e, K2, o, a)
  BY <1>9, SameLeft
<1> QED BY <1>7, <1>10

\* The next record.
LEMMA NextAlike ==
  ASSUME TimeoutSuffices, IdsNameMessages, NoneDiscarded, NothingRefused,
         NEW X, NEW M, NEW d, NEW K, NEW a, NEW i, NEW fresh, fresh[1] = i,
         Facing(X, log, M, d, K, a, i, fresh), NEW r,
         \/ Stores(X, d, K[a], log[i], fresh, r.db, r.cursor)
         \/ Leaves(d, K[a], log[i], fresh, r),
         Same(log, d, K, Once[i - 1], a)
  PROVE  Same(log, r.db, [K EXCEPT ![a] = r.cursor], Once[i], a)
<1>1. /\ log \in Seq(Message) /\ d \in DbOver(X) /\ EventsFrom(log, d.events)
      /\ i \in 1 .. Len(log) /\ log[i].actor = a /\ a \in Actor /\ a \in Whose
  BY DEF Facing, Visited, Whose
<1>2. i - 1 \in 0 .. Len(log) /\ Same(log, d, K, Once[i - 1], log[i].actor)
  BY <1>1
<1>3. log[i].id \in Stored(d) <=> log[i].id \in Stored(Once[i - 1])
  BY <1>1, <1>2, StoredAlike
<1>4. PICK K2, e, c2, o, p : /\ K2 = [K EXCEPT ![a] = r.cursor] /\ e = r.db /\ c2 = r.cursor
                             /\ o = Once[i - 1] /\ p = Once[i]
  OBVIOUS
<1>5. CASE log[i].id \in Stored(d)
  <2>1. Leaves(d, K[a], log[i], fresh, r)
    BY <1>5 DEF Stores
  <2>2. Untouched(d, K, r.db, [K EXCEPT ![a] = r.cursor], a)
    BY <2>1, LeftUntouched
  <2>3. Untouched(d, K, e, K2, a) /\ Same(log, d, K, o, a)
    BY <1>1, <1>2, <1>4, <2>2
  <2>4. Same(log, e, K2, o, a)
    BY <2>3, SameLeft
  <2>5. OnceUntouched(i - 1, i, a)
    BY <1>1, <1>3, <1>5, OnceStep
  <2>6. Untouched(o, o.cursors, p, p.cursors, a)
    BY <1>4, <2>5 DEF OnceUntouched
  <2>7. Same(log, e, K2, p, a)
    BY <2>4, <2>6, SameRight
  <2> QED BY <1>4, <2>7
<1>6. CASE log[i].id \notin Stored(d)
  <2>1. TakenIn(X, d, K[a], log[i], fresh, r)
    BY NewIsStored
  <2>2. Stores(X, d, K[a], log[i], fresh, e, c2)
    BY <1>4, <1>6, <2>1 DEF TakenIn
  <2>3. OnceOk(i - 1)
    BY <1>1, <1>2, OnceSound
  <2>4. PICK t : NextSteps(OnceMade(i - 1), Once[i - 1], a, i, t, Once[i])
    BY <1>1, <2>3, OnceMessage
  <2>5. PICK N, other, q, k2 : N = OnceMade(i - 1) /\ other = <<i, 1>> /\ q = t.db /\ k2 = t.cursor
    OBVIOUS
  <2>6. /\ Facing(Names, log, N, o, o.cursors, a, i, other)
        /\ Stores(Names, o, o.cursors[a], log[i], other, t.db, t.cursor)
             \/ Leaves(o, o.cursors[a], log[i], other, t)
        /\ p.events = q.events /\ p.sessions = q.sessions
        /\ p.cursors = [o.cursors EXCEPT ![a] = k2]
    BY <1>4, <2>4, <2>5 DEF NextSteps
  <2>7. PICK J : J = o.cursors
    OBVIOUS
  <2>8. TakenIn(Names, o, J[a], log[i], other, t)
    <3>1. /\ Facing(Names, log, N, o, J, a, i, other)
          /\ Stores(Names, o, J[a], log[i], other, t.db, t.cursor)
               \/ Leaves(o, J[a], log[i], other, t)
      BY <2>6, <2>7
    <3> QED BY <3>1, NewIsStored
  <2>9. log[i].id \notin Stored(o)
    BY <1>3, <1>4, <1>6
  <2>10. Stores(Names, o, o.cursors[a], log[i], other, q, k2)
    BY <2>5, <2>7, <2>8, <2>9 DEF TakenIn
  <2>11. SameRecord(fresh, other) /\ Same(log, d, K, o, a)
    BY <1>1, <1>2, <1>4, <2>5 DEF SameRecord
  <2>12. Leads(o, a, q, k2, p) /\ Facing(Names, log, N, o, o.cursors, a, i, other)
    BY <2>6 DEF Leads
  <2>13. Same(log, e, [K EXCEPT ![a] = c2], p, a)
    BY <2>2, <2>10, <2>11, <2>12, BothStore
  <2> QED BY <1>4, <2>13
<1> QED BY <1>5, <1>6

\* Of a record without identity.
LEMMA AsideAlike ==
  ASSUME TimeoutSuffices, log \in Seq(Message), IdsNameMessages, NoneDiscarded, NothingRefused,
         NEW X, NEW d \in DbOver(X), NEW M, NEW K, Visited(log, M, d, K),
         NEW i \in 1 .. Len(log), log[i].actor = NoActor,
         NEW fresh \in X, fresh \notin M, fresh[1] = i, NEW r, Aside(d, log[i], fresh, r)
  PROVE  /\ \A n \in i .. Len(log) : Same(log, d, K, Once[n], NoActor) => Same(log, r.db, K, Once[n], NoActor)
         /\ Same(log, d, K, Once[i - 1], NoActor) => Same(log, r.db, K, Once[i], NoActor)
<1>0. PICK e : e = r.db
  OBVIOUS
<1>1. PICK m \in Message : e = r.db /\ m = log[i]
  <2>1. log[i] \in Message
    OBVIOUS
  <2> QED BY <1>0, <2>1
<1>2. /\ NoActor \in Whose /\ EventsFrom(log, d.events) /\ ClaimsNear(log, M, d, K)
      /\ i \in Nat /\ Len(log) \in Nat
  BY DEF Whose, Visited
<1>3. TakenAside(d, m, fresh, r.db)
  BY <1>1, <1>2, AsideTaken
<1>4. ASSUME NEW n \in i .. Len(log), Same(log, d, K, Once[n], NoActor)
      PROVE  Same(log, e, K, Once[n], NoActor)
  <2>1. n \in 0 .. Len(log) /\ i \in 1 .. n
    BY <1>2
  <2>2. log[i].id \in Stored(Once[n])
    BY <2>1, OnceSound DEF OnceOk
  <2>3. Same(log, d, K, Once[n], log[i].actor)
    BY <1>4
  <2>4. m.id \in Stored(d)
    BY <1>1, <1>2, <2>1, <2>2, <2>3, StoredAlike
  <2>5. e.events = d.events
    BY <1>1, <1>3, <2>4 DEF TakenAside
  <2> QED BY <1>4, <2>5, WriterAssumption DEF Same, SameEvents, EventsOf
<1>5. ASSUME Same(log, d, K, Once[i - 1], NoActor)
      PROVE  Same(log, e, K, Once[i], NoActor)
  <2>1. i - 1 \in 0 .. Len(log) /\ Same(log, d, K, Once[i - 1], log[i].actor)
    BY <1>2, <1>5
  <2>2. PICK o, p, N, other : o = Once[i - 1] /\ p = Once[i] /\ N = OnceMade(i - 1) /\ other = <<i, 1>>
    OBVIOUS
  <2>3. m.id \in Stored(d) <=> m.id \in Stored(o)
    BY <1>1, <1>2, <2>1, <2>2, StoredAlike
  <2>4. OnceOk(i - 1)
    BY <2>1, OnceSound
  <2>5. PICK t : Aside(o, log[i], other, t) /\ t.db = p
    BY <2>2, <2>4, OnceAside
  <2>6. other \notin N /\ other \in Names /\ other[1] = i
    BY <1>2, <2>2 DEF OnceMade, Names
  <2>7. PICK J : J = o.cursors
    OBVIOUS
  <2>8. ClaimsNear(log, N, o, J)
    BY <2>2, <2>4, <2>7 DEF OnceOk, Visited
  <2>9. TakenAside(o, m, other, t.db)
    BY <1>1, <2>5, <2>6, <2>8, AsideTaken
  <2>10. TakenAside(d, m, fresh, e) /\ TakenAside(o, m, other, p) /\ fresh[1] = other[1]
         /\ Same(log, d, K, o, NoActor) /\ m.actor = NoActor
    BY <1>1, <1>3, <1>5, <2>2, <2>5, <2>6, <2>9
  <2>11. Same(log, e, K, p, NoActor)
    BY <2>3, <2>6, <2>10, BothAside
  <2> QED BY <2>2, <2>11
<1> QED BY <1>1, <1>4, <1>5

-----------------------------------------------------------------------------
(* Records applied in a transaction *)

\* Of a record of another actor, or one that comes again.
LEMMA UpToSame ==
  ASSUME NEW N, NEW n, NEW b, UpTo(N, n, b), NEW i, left' = left \ {i},
         UNCHANGED <<log, batch>>, log[i].actor # b \/ i \notin N + 1 .. Len(log)
  PROVE  UpTo(N, n, b)'
<1>1. ASSUME NEW k \in N + 1 .. Len(log), log[k].actor = b
      PROVE  k <= n <=> k \in batch \ left'
  <2>1. k # i
    BY <1>1
  <2> QED BY <1>1, <2>1 DEF UpTo
<1> QED BY <1>1 DEF UpTo

\* The first record of b that is left.
LEMMA Reaches ==
  ASSUME WriterInv, Whole, NEW N \in 0 .. Len(log), done \subseteq 1 .. N, NEW n \in N .. Len(log),
         NEW b, UpTo(N, n, b), NEW i, FirstOf(i, OfActor(left, b)), i > n,
         left' = left \ {i}, UNCHANGED <<log, batch>>
  PROVE  QuietBetween(n, i - 1, b) /\ UpTo(N, i, b)'
<1>1. /\ log \in Seq(Message) /\ left \subseteq batch /\ batch \subseteq 1 .. Len(log)
      /\ done \subseteq 1 .. Len(log)
  BY DEF WriterInv, TypeOK
<1>2. i \in left /\ i \in batch /\ i \in 1 .. Len(log) /\ log[i].actor = b
  BY <1>1 DEF FirstOf, OfActor
<1>3. N \in Nat /\ n \in Nat /\ i \in Nat /\ Len(log) \in Nat /\ N <= n /\ n <= Len(log) /\ i <= Len(log)
  BY <1>1, <1>2
<1>4. ASSUME NEW k \in n + 1 .. i - 1, log[k].actor = b PROVE FALSE
  <2>1. k \in N + 1 .. Len(log) /\ k \in 1 .. i /\ ~(k <= n) /\ k < i /\ k \notin 1 .. N
    BY <1>3
  <2>2. k \in batch
    BY <1>2, <2>1 DEF Whole
  <2>3. k \in left
    BY <1>4, <2>1, <2>2 DEF UpTo
  <2>4. i <= k
    BY <1>4, <2>3 DEF FirstOf, OfActor
  <2> QED BY <1>3, <2>1, <2>4
<1>5. ASSUME NEW k \in N + 1 .. Len(log), log[k].actor = b
      PROVE  k <= i <=> k \in batch \ left'
  <2>1. k \in Nat
    BY <1>3
  <2>2. CASE k <= n
    <3>1. k <= i /\ k # i
      BY <1>3, <2>1, <2>2
    <3> QED BY <1>5, <2>2, <3>1 DEF UpTo
  <2>3. CASE ~(k <= n) /\ k < i
    <3>1. k \in n + 1 .. i - 1
      BY <1>3, <2>1, <2>3
    <3> QED BY <1>4, <1>5, <3>1
  <2>4. CASE k = i
    BY <1>2, <1>3, <2>4
  <2>5. CASE k > i
    <3>1. ~(k <= n) /\ ~(k <= i) /\ k # i
      BY <1>3, <2>1, <2>5
    <3> QED BY <1>5, <3>1 DEF UpTo
  <2> QED BY <1>3, <2>1, <2>2, <2>3, <2>4, <2>5
<1> QED BY <1>4, <1>5 DEF QuietBetween, UpTo

\* A record that is left and not beyond the n-th comes again.
LEMMA NotBeyond ==
  ASSUME NEW N, NEW n, NEW b, UpTo(N, n, b), NEW i \in left, log[i].actor = b, i <= n
  PROVE  i \notin N + 1 .. Len(log)
BY DEF UpTo

LEMMA MessageSame ==
  ASSUME TimeoutSuffices, WriterInv, PlainInv, Quiet, NEW N \in 0 .. Len(log), done \subseteq 1 .. N,
         NEW i \in left, ApplyMessage(i), NEW b \in Whose, TxSame(N, b)
  PROVE  TxSame(N, b)'
<1>1. IdsNameMessages /\ NoneDiscarded /\ NothingRefused /\ Whole /\ VisitInv
  BY DEF Quiet, PlainInv, Plain
<1>2. PICK r : /\ tx' = r.db /\ cur' = r.cursor
               /\ failed' = FailedWith(i, r.outcome) /\ left' = left \ {i}
               /\ UNCHANGED <<log, db, done, dropped, batch, group, mark, runs>>
               /\ Cursors' = [Cursors EXCEPT ![group] = r.cursor]
               /\ Steps(i, r)
  BY <1>1, ApplyMessageSteps
<1>3. Once' = Once
  BY <1>2, OnceFixed
<1>4. PICK a, d, K, fresh, K2, e, M :
        /\ a = group /\ d = tx /\ K = Cursors /\ fresh = <<i, runs>> /\ M = Made
        /\ K2 = [K EXCEPT ![a] = r.cursor] /\ e = r.db
  OBVIOUS
<1>5. /\ Facing(SessionId, log, M, d, K, a, i, fresh)
      /\ \/ Stores(SessionId, d, K[a], log[i], fresh, r.db, r.cursor)
         \/ Leaves(d, K[a], log[i], fresh, r)
      /\ fresh[1] = i
  BY <1>2, <1>4 DEF Steps
<1>6. /\ FirstOf(i, OfActor(left, a)) /\ log[i].actor = a /\ i \in 1 .. Len(log) /\ a \in Actor
      /\ log \in Seq(Message)
  BY <1>4, <1>5 DEF ApplyMessage, Facing
<1>7. PICK n \in N .. Len(log) : Same(log, d, K, Once[n], b) /\ UpTo(N, n, b)
  BY <1>4 DEF TxSame
<1>8. n \in 0 .. Len(log) /\ n \in Nat /\ N \in Nat /\ i \in Nat /\ N <= n /\ Len(log) \in Nat
  BY <1>6
<1>9. \E m \in N .. Len(log) : Same(log, e, K2, Once[m], b) /\ UpTo(N, m, b)'
  <2>1. CASE b # a
    <3>1. Untouched(d, K, r.db, [K EXCEPT ![a] = r.cursor], b)
      <4>1. CASE Stores(SessionId, d, K[a], log[i], fresh, r.db, r.cursor)
        <5>1. PICK e2, k2 : e2 = r.db /\ k2 = r.cursor
          OBVIOUS
        <5>2. /\ Facing(SessionId, log, M, d, K, a, i, fresh)
              /\ Stores(SessionId, d, K[a], log[i], fresh, e2, k2)
          BY <1>5, <4>1, <5>1
        <5>3. Untouched(d, K, e2, [K EXCEPT ![a] = k2], b)
          BY <2>1, <5>2, OthersUntouched
        <5> QED BY <5>1, <5>3
      <4>2. CASE Leaves(d, K[a], log[i], fresh, r)
        BY <1>5, <4>2, LeftUntouched
      <4> QED BY <1>5, <4>1, <4>2
    <3>2. Untouched(d, K, e, K2, b)
      BY <1>4, <3>1
    <3>3. PICK o : o = Once[n]
      OBVIOUS
    <3>4. Same(log, d, K, o, b)
      BY <1>7, <3>3
    <3>5. Same(log, e, K2, o, b)
      BY <3>2, <3>4, SameLeft
    <3>6. UpTo(N, n, b)'
      BY <1>2, <1>6, <1>7, <2>1, UpToSame
    <3> QED BY <3>3, <3>5, <3>6
  <2>2. CASE b = a /\ i <= n
    <3>1. Same(log, d, K, Once[n], a)
      BY <1>7, <2>2
    <3>2. Same(log, r.db, [K EXCEPT ![a] = r.cursor], Once[n], a)
      BY <1>1, <1>5, <1>8, <2>2, <3>1, AgainAlike
    <3>3. i \notin N + 1 .. Len(log)
      BY <1>6, <1>7, <2>2, NotBeyond
    <3>4. UpTo(N, n, b)'
      BY <1>2, <1>7, <3>3, UpToSame
    <3> QED BY <1>4, <2>2, <3>2, <3>4
  <2>3. CASE b = a /\ i > n
    <3>1. QuietBetween(n, i - 1, b) /\ UpTo(N, i, b)'
      BY <1>1, <1>2, <1>6, <1>7, <2>3, Reaches
    <3>2. i - 1 \in n .. Len(log) /\ i \in N .. Len(log)
      BY <1>6, <1>8, <2>3
    <3>3. OnceUntouched(n, i - 1, b)
      BY <1>1, <1>6, <1>8, <3>1, <3>2, OnceQuiet
    <3>4. Same(log, d, K, Once[i - 1], b)
      BY <1>7, <3>3, SameOn
    <3>5. Same(log, d, K, Once[i - 1], a)
      BY <2>3, <3>4
    <3>6. Same(log, r.db, [K EXCEPT ![a] = r.cursor], Once[i], a)
      BY <1>1, <1>5, <3>5, NextAlike
    <3> QED BY <1>4, <2>3, <3>1, <3>2, <3>6
  <2> QED BY <1>8, <2>1, <2>2, <2>3
<1>10. PICK m \in N .. Len(log) : Same(log, e, K2, Once[m], b) /\ UpTo(N, m, b)'
  BY <1>9
<1>11. Same(log, tx, Cursors, Once[m], b)'
  BY <1>2, <1>3, <1>4, <1>10
<1>12. m \in N .. Len(log')
  BY <1>2
<1> QED BY <1>10, <1>11, <1>12 DEF TxSame

LEMMA ActorlessSame ==
  ASSUME TimeoutSuffices, WriterInv, PlainInv, Quiet, NEW N \in 0 .. Len(log), done \subseteq 1 .. N,
         NEW i \in left, ApplyActorless(i), NEW b \in Whose, TxSame(N, b)
  PROVE  TxSame(N, b)'
<1>1. IdsNameMessages /\ NoneDiscarded /\ NothingRefused /\ Whole /\ VisitInv
  BY DEF Quiet, PlainInv, Plain
<1>2. PICK fresh, d, M, K, r : /\ fresh = <<i, runs>> /\ d = tx /\ M = Made /\ K = tx.cursors
                               /\ r = ApplyOne(tx, NoCursor, log[i], fresh)
  OBVIOUS
<1>3. /\ tx' = r.db /\ left' = left \ {i}
      /\ UNCHANGED <<log, db, done, batch, group, cur>>
  BY <1>2 DEF ApplyActorless, dbVars, groupVars
<1>4. /\ i \in 1 .. Len(log) /\ i \in batch /\ batch # {}
      /\ fresh \in SessionId /\ fresh \notin M /\ fresh[1] = i
  BY <1>2, FreshId
<1>5. FirstOf(i, OfActor(left, NoActor)) /\ log[i].actor = NoActor /\ group = NoActor
  <2>1. FirstOf(i, OfActor(left, NoActor))
    BY DEF ApplyActorless
  <2> QED BY <2>1 DEF FirstOf, OfActor, WriterInv, Stages
<1>6. /\ d \in DbOver(SessionId) /\ NoCursor \in CursorOver(SessionId)
      /\ log[i] \in Message /\ log \in Seq(Message) /\ SessionId \subseteq Nat \X Nat
  BY <1>2, <1>4, Setup DEF WriterInv, TypeOK, CursorOver
<1>7. r.db.cursors = K
  BY <1>2, <1>4, <1>6, ApplyTypes
<1>8. Cursors = K /\ Cursors' = K
  BY <1>2, <1>3, <1>5, <1>7 DEF Cursors
<1>9. Aside(d, log[i], fresh, r)
  BY <1>2, <1>5, <1>6, ActorlessLeaves
<1>10. Visited(log, M, d, K)
  BY <1>1, <1>2, <1>4, <1>8 DEF VisitInv
<1>11. Once' = Once
  BY <1>3, OnceFixed
<1>12. PICK n \in N .. Len(log) : Same(log, d, K, Once[n], b) /\ UpTo(N, n, b)
  BY <1>2, <1>8 DEF TxSame
<1>13. n \in 0 .. Len(log) /\ n \in Nat /\ N \in Nat /\ i \in Nat /\ N <= n /\ Len(log) \in Nat
  BY <1>4, <1>6
<1>14. /\ \A m \in i .. Len(log) : Same(log, d, K, Once[m], NoActor) => Same(log, r.db, K, Once[m], NoActor)
       /\ Same(log, d, K, Once[i - 1], NoActor) => Same(log, r.db, K, Once[i], NoActor)
  BY <1>1, <1>4, <1>5, <1>6, <1>9, <1>10, AsideAlike
<1>15. \E m \in N .. Len(log) : Same(log, r.db, K, Once[m], b) /\ UpTo(N, m, b)'
  <2>1. CASE b # NoActor
    <3>1. b \in Actor
      BY <2>1 DEF Whose
    <3>2. PICK m : m = log[i] /\ m.actor = NoActor
      BY <1>5
    <3>3. Untouched(d, K, r.db, K, b)
      BY <1>9, <3>1, <3>2, AsideUntouched
    <3>4. PICK o, e : o = Once[n] /\ e = r.db
      OBVIOUS
    <3>5. Same(log, d, K, o, b) /\ Untouched(d, K, e, K, b)
      BY <1>12, <3>3, <3>4
    <3>6. Same(log, e, K, o, b)
      BY <3>5, SameLeft
    <3>7. UpTo(N, n, b)'
      BY <1>3, <1>5, <1>12, <2>1, UpToSame
    <3> QED BY <3>4, <3>6, <3>7
  <2>2. CASE b = NoActor /\ i <= n
    <3>1. n \in i .. Len(log)
      BY <1>13, <2>2
    <3>2. Same(log, r.db, K, Once[n], b)
      BY <1>12, <1>14, <2>2, <3>1
    <3>3. i \notin N + 1 .. Len(log)
      BY <1>5, <1>12, <2>2, NotBeyond
    <3>4. UpTo(N, n, b)'
      BY <1>3, <1>12, <3>3, UpToSame
    <3> QED BY <3>2, <3>4
  <2>3. CASE b = NoActor /\ i > n
    <3>1. QuietBetween(n, i - 1, b) /\ UpTo(N, i, b)'
      BY <1>1, <1>3, <1>5, <1>12, <2>3, Reaches
    <3>2. i - 1 \in n .. Len(log) /\ i \in N .. Len(log)
      BY <1>4, <1>13, <2>3
    <3>3. OnceUntouched(n, i - 1, b)
      BY <1>1, <1>6, <1>13, <3>1, <3>2, OnceQuiet
    <3>4. Same(log, d, K, Once[i - 1], b)
      BY <1>12, <3>3, SameOn
    <3> QED BY <1>14, <2>3, <3>1, <3>2, <3>4
  <2> QED BY <1>13, <2>1, <2>2, <2>3
<1>16. PICK m \in N .. Len(log) : Same(log, r.db, K, Once[m], b) /\ UpTo(N, m, b)'
  BY <1>15
<1>17. Same(log, tx, Cursors, Once[m], b)'
  BY <1>3, <1>8, <1>11, <1>16
<1>18. m \in N .. Len(log')
  BY <1>3
<1> QED BY <1>16, <1>17, <1>18 DEF TxSame

\* A step that changes nothing of b.
LEMMA KeepsSame ==
  ASSUME NEW N, NEW b, TxSame(N, b), UNCHANGED <<log, batch, left>>,
         Untouched(tx, Cursors, tx', Cursors', b)
  PROVE  TxSame(N, b)'
<1>1. Once' = Once
  BY OnceFixed
<1>2. PICK n \in N .. Len(log) : Same(log, tx, Cursors, Once[n], b) /\ UpTo(N, n, b)
  BY DEF TxSame
<1>3. PICK o, d, K, e, K2 : o = Once[n] /\ d = tx /\ K = Cursors /\ e = tx' /\ K2 = Cursors'
  OBVIOUS
<1>4. Same(log, d, K, o, b) /\ Untouched(d, K, e, K2, b)
  BY <1>2, <1>3
<1>5. Same(log, e, K2, o, b)
  BY <1>4, SameLeft
<1>6. Same(log, tx, Cursors, Once[n], b)'
  BY <1>1, <1>3, <1>5
<1>7. UpTo(N, n, b)'
  BY <1>2 DEF UpTo
<1> QED BY <1>6, <1>7 DEF TxSame

\* Where MySQL refuses nothing, the group's cursor is saved.
LEMMA CursorAccepted ==
  ASSUME WriterInv, NothingRefused, group # NoActor
  PROVE  ~CursorRefused
<1> SUFFICES ASSUME CursorRefused PROVE FALSE
  OBVIOUS
<1>1. group \in Actor /\ cur # NoCursor /\ batch # {} /\ tx \in DbOver(SessionId)
  BY Setup DEF CursorRefused, WriterInv, Stages, TypeOK
<1>2. Cursors[group] = cur
  BY <1>1 DEF Cursors, DbOver
<1>3. OpenSound(log, Made, tx.sessions, Cursors)
  BY <1>1 DEF WriterInv, ViewSound, Sound
<1>4. PICK n \in 1 .. Len(cur.seq) : cur.seq[n] \in RefusedCursor
  BY DEF CursorRefused, Ids
<1>5. PICK j \in 1 .. Len(log) : log[j].id = cur.seq[n]
  BY <1>1, <1>2, <1>3 DEF OpenSound
<1> QED BY <1>4, <1>5 DEF NothingRefused

-----------------------------------------------------------------------------
(* Every step of the writer *)

LEMMA AgreesInside ==
  ASSUME NEW N \in 0 .. Len(log), Agrees(N), UNCHANGED <<log, db, done, batch>>,
         batch # {} => \A b \in Whose : TxSame(N, b)'
  PROVE  OnceInv'
<1>1. Once' = Once
  BY OnceFixed
<1>2. Agrees(N)'
  BY <1>1 DEF Agrees
<1> QED BY <1>2 DEF OnceInv

LEMMA MessageOnce ==
  ASSUME TimeoutSuffices, WriterInv, PlainInv, Quiet, OnceInv,
         NEW i \in left, ApplyMessage(i) \/ ApplyActorless(i)
  PROVE  OnceInv'
<1>1. PICK N \in 0 .. Len(log) : Agrees(N)
  BY DEF OnceInv
<1>2. UNCHANGED <<log, db, done, batch>> /\ batch # {}
  BY FreshId DEF ApplyMessage, ApplyActorless, dbVars
<1>3. done \subseteq 1 .. N /\ \A b \in Whose : TxSame(N, b)
  BY <1>1, <1>2 DEF Agrees
<1>4. ASSUME NEW b \in Whose PROVE TxSame(N, b)'
  BY <1>3, MessageSame, ActorlessSame
<1> QED BY <1>1, <1>2, <1>4, AgreesInside

LEMMA GroupOnce ==
  ASSUME WriterInv, Quiet, OnceInv, (\E a \in Actor : OpenGroup(a)) \/ CloseGroup
  PROVE  OnceInv'
<1>1. PICK N \in 0 .. Len(log) : Agrees(N)
  BY DEF OnceInv
<1>2. /\ UNCHANGED <<log, db, done, batch, left>>
      /\ tx'.events = tx.events /\ tx'.sessions = tx.sessions /\ Cursors' = Cursors
  <2>1. CASE \E a \in Actor : OpenGroup(a)
    <3>1. PICK a \in Actor : OpenGroup(a)
      BY <2>1
    <3>2. /\ group = NoActor /\ group' = a /\ cur' = tx.cursors[a]
          /\ UNCHANGED <<log, db, done, batch, left, tx>>
      BY <3>1 DEF OpenGroup, dbVars
    <3>3. tx \in DbOver(SessionId) /\ a # NoActor
      BY Setup, WriterAssumption DEF WriterInv, TypeOK
    <3>4. [tx.cursors EXCEPT ![a] = tx.cursors[a]] = tx.cursors
      BY <3>3 DEF DbOver
    <3> QED BY <3>2, <3>3, <3>4 DEF Cursors
  <2>2. CASE CloseGroup
    <3>1. group # NoActor /\ group' = NoActor /\ UNCHANGED <<log, db, done, batch, left>>
      BY <2>2 DEF CloseGroup, GroupEnds, dbVars
    <3>2. ~CursorRefused
      BY <3>1, CursorAccepted DEF Quiet
    <3>3. GroupSaved
      BY <2>2, <3>2, SavedIs
    <3>4. Cursors' = tx'.cursors
      BY <3>1 DEF Cursors
    <3> QED BY <3>1, <3>3, <3>4 DEF GroupSaved
  <2> QED BY <2>1, <2>2
<1>3. \A b : Untouched(tx, Cursors, tx', Cursors', b)
  BY <1>2 DEF Untouched, EventsOf, ClosedOf
<1>4. ASSUME batch # {}, NEW b \in Whose PROVE TxSame(N, b)'
  <2>1. TxSame(N, b)
    BY <1>1, <1>4 DEF Agrees
  <2> QED BY <1>2, <1>3, <2>1, KeepsSame
<1> QED BY <1>1, <1>2, <1>4, AgreesInside

LEMMA BeginOnce ==
  ASSUME WriterInv, OnceInv, NEW i \in 1 .. Len(log), Begin(i)
  PROVE  OnceInv'
<1>1. PICK N \in 0 .. Len(log) : Agrees(N)
  BY DEF OnceInv
<1>2. /\ i \notin done /\ batch' = (1 .. i) \ done /\ left' = batch' /\ tx' = db /\ group = NoActor
      /\ UNCHANGED <<log, db, done, group>>
  BY DEF Begin, Upcoming, dbVars, groupVars, WriterInv, Stages
<1>3. Cursors' = db.cursors /\ Once' = Once /\ Len(log) \in Nat
  BY <1>2, OnceFixed, Setup DEF Cursors, WriterInv
<1>4. i \in batch' /\ \A k \in batch' : k <= i
  BY <1>2
<1>5. ASSUME NEW b \in Whose PROVE TxSame(N, b)'
  <2>1. Same(log, db, db.cursors, Once[N], b)
    BY <1>1 DEF Agrees
  <2>2. Same(log, tx, Cursors, Once[N], b)'
    BY <1>2, <1>3, <2>1
  <2>3. UpTo(N, N, b)'
    BY <1>2, <1>3 DEF UpTo
  <2>4. N \in N .. Len(log')
    BY <1>2, <1>3
  <2> QED BY <2>2, <2>3, <2>4 DEF TxSame
<1>6. Agrees(N)'
  BY <1>1, <1>2, <1>3, <1>4, <1>5 DEF Agrees
<1> QED BY <1>2, <1>6 DEF OnceInv

LEMMA RollbackOnce ==
  ASSUME OnceInv, Rollback
  PROVE  OnceInv'
<1>1. PICK N \in 0 .. Len(log) : Agrees(N)
  BY DEF OnceInv
<1>2. batch' = {} /\ UNCHANGED <<log, db, done>>
  BY DEF Rollback, TransactionEnds, dbVars
<1>3. Agrees(N)'
  BY <1>1, <1>2, OnceFixed DEF Agrees
<1> QED BY <1>2, <1>3 DEF OnceInv

LEMMA CommitOnce ==
  ASSUME TimeoutSuffices, WriterInv, PlainInv, Quiet, OnceInv,
         NEW kept \in SUBSET batch, Commit(kept)
  PROVE  OnceInv'
<1>1. PICK N \in 0 .. Len(log) : Agrees(N)
  BY DEF OnceInv
<1>2. /\ batch # {} /\ left = {} /\ group = NoActor /\ db' = tx /\ done' = done \cup kept
      /\ batch' = {} /\ log' = log /\ Cursors = tx.cursors
  BY DEF Commit, TransactionEnds, Cursors
<1>3. PICK t \in batch : \A k \in batch : k <= t
  BY <1>1, <1>2 DEF Agrees
<1>4. /\ log \in Seq(Message) /\ batch \subseteq 1 .. Len(log) /\ Len(log) \in Nat
      /\ done \subseteq 1 .. N /\ N \in Nat /\ t \in Nat /\ t <= Len(log) /\ t \in 1 .. Len(log)
  <2>1. log \in Seq(Message) /\ batch \subseteq 1 .. Len(log)
    BY DEF WriterInv, TypeOK
  <2> QED BY <1>1, <2>1 DEF Agrees
<1>5. PICK m : m = IF t > N THEN t ELSE N
  OBVIOUS
<1>6. m \in 0 .. Len(log) /\ m \in Nat /\ N <= m /\ t <= m /\ (m = t \/ m = N)
  BY <1>4, <1>5
<1>7. IdsNameMessages /\ NoneDiscarded /\ NothingRefused /\ Whole
  BY DEF Quiet, PlainInv
<1>8. ASSUME NEW b \in Whose PROVE Same(log, tx, tx.cursors, Once[m], b)
  <2>1. PICK n \in N .. Len(log) : Same(log, tx, Cursors, Once[n], b) /\ UpTo(N, n, b)
    BY <1>1, <1>2 DEF Agrees, TxSame
  <2>2. n \in Nat /\ n \in 0 .. Len(log) /\ N <= n
    BY <1>4
  <2>3. \A k \in N + 1 .. Len(log) : log[k].actor = b => (k <= n <=> k \in batch)
    BY <1>2, <2>1 DEF UpTo
  <2>4. CASE n <= m
    <3>1. ASSUME NEW k \in n + 1 .. m, log[k].actor = b PROVE FALSE
      <4>1. k \in N + 1 .. Len(log) /\ ~(k <= n) /\ k \in 1 .. m /\ k \notin 1 .. N
        BY <1>4, <1>6, <2>2
      <4>2. m = t /\ k \in 1 .. t
        BY <1>4, <1>6, <4>1
      <4>3. k \in batch
        BY <1>3, <1>4, <1>7, <4>1, <4>2 DEF Whole
      <4> QED BY <2>3, <3>1, <4>1, <4>3
    <3>2. QuietBetween(n, m, b) /\ m \in n .. Len(log)
      BY <1>6, <2>2, <2>4, <3>1 DEF QuietBetween
    <3>3. OnceUntouched(n, m, b)
      BY <1>4, <1>7, <2>2, <3>2, OnceQuiet
    <3> QED BY <1>2, <2>1, <3>3, SameOn
  <2>5. CASE n > m
    <3>1. ASSUME NEW k \in m + 1 .. n, log[k].actor = b PROVE FALSE
      <4>1. k \in N + 1 .. Len(log) /\ k <= n /\ ~(k <= t)
        BY <1>4, <1>6, <2>2
      <4> QED BY <1>3, <2>3, <3>1, <4>1
    <3>2. QuietBetween(m, n, b) /\ n \in m .. Len(log)
      BY <1>6, <2>2, <2>5, <3>1 DEF QuietBetween
    <3>3. OnceUntouched(m, n, b)
      BY <1>4, <1>6, <1>7, <3>2, OnceQuiet
    <3> QED BY <1>2, <2>1, <3>3, SameOn
  <2> QED BY <1>6, <2>2, <2>4, <2>5
<1>9. done' \subseteq 1 .. m
  <2>1. \A k \in batch : k \in 1 .. m
    BY <1>3, <1>4, <1>6
  <2>2. \A k \in done : k \in 1 .. m
    BY <1>4, <1>6
  <2> QED BY <1>2, <2>1, <2>2
<1>10. Agrees(m)'
  BY <1>2, <1>8, <1>9, OnceFixed DEF Agrees
<1> QED BY <1>2, <1>6, <1>10 DEF OnceInv

-----------------------------------------------------------------------------
(* The sweep beside it *)

LEMMA ClockSentBefore ==
  ASSUME log \in Seq(Message), ClockOrdered, NEW i \in 1 .. Len(log), NEW j \in 1 .. Len(log),
         log[i].at <= Horizon, log[j].at <= Horizon, \A f \in 1 .. i - 1 : log[f] # log[j]
  PROVE  log[i].at <= log[j].at + Tolerance
<1>1. PICK f \in 1 .. j : log[f] = log[j] /\ \A k \in 1 .. f - 1 : log[k] # log[f]
  BY FirstSent
<1>2. f \in 1 .. Len(log) /\ i \in Nat /\ f \in Nat /\ ~(f < i)
  BY <1>1
<1>3. CASE i < f
  <2>1. log[i].at <= log[f].at + Tolerance
    BY <1>1, <1>2, <1>3 DEF ClockOrdered
  <2> QED BY <1>1, <2>1
<1>4. CASE i = f
  <2>1. log[i] \in Message /\ log[i] = log[j]
    BY <1>1, <1>4
  <2>2. log[i].at \in Int /\ Tolerance \in Nat
    BY <2>1, WriterAssumption DEF Message
  <2> QED BY <2>1, <2>2
<1> QED BY <1>2, <1>3, <1>4

\* latest_cursor_time takes no time that the store clock cannot have reached.
LEMMA LatestIs ==
  ASSUME WriterInv, Visited(log, Made, db, db.cursors), Current # {}
  PROVE  /\ Latest <= Horizon
         /\ \E y \in 1 .. Len(log) : log[y].at = Latest /\ log[y].id \in Stored(db)
<1> DEFINE T == {db.cursors[a].last : a \in Current}
<1>1. log \in Seq(Message)
  BY Setup DEF WriterInv
<1>2. T \subseteq {log[k].at : k \in 1 .. Len(log)} /\ T # {}
  <2>1. \A a \in Current : \E k \in 1 .. Len(log) : log[k].at = db.cursors[a].last
    BY DEF Current, Open, Visited, LastSound, StepsIn
  <2> QED BY <2>1
<1>3. PICK t \in T : \A u \in T : u <= t
  <2> HIDE DEF T
  <2> QED BY <1>1, <1>2, LatestTime
<1>4. Latest \in T
  BY <1>3 DEF Latest
<1>5. Latest <= Horizon
  BY <1>4 DEF Current
<1> QED BY <1>5, LatestStored

LEMMA StartSweepClock ==
  ASSUME WriterInv, PlainInv, Quiet, StartSweep
  PROVE  SweepInOrder'
<1>1. CycleDone /\ Current # {} /\ cutoff' = Latest - Timeout - Margin /\ UNCHANGED <<log, db, done>>
  BY DEF StartSweep, Cutoff, vars, dbVars
<1>2. /\ VisitInv /\ Kept /\ ClockOrdered /\ IdsNameMessages /\ log \in Seq(Message) /\ Len(log) \in Nat
      /\ NothingRefused
  BY Setup DEF PlainInv, Plain, Quiet, WriterInv
<1>3. Latest <= Horizon
  BY <1>1, <1>2, LatestIs DEF VisitInv
<1>4. PICK y \in 1 .. Len(log) : log[y].at = Latest /\ log[y].id \in Stored(db)
  BY <1>1, <1>2, LatestStored DEF VisitInv
<1>5. PICK n \in 0 .. Len(log) : done = 1 .. n
  BY <1>1 DEF CycleDone
<1>6. PICK z \in done : log[z].id = log[y].id
  BY <1>1, <1>4 DEF CycleDone
<1>7. z \in 1 .. Len(log) /\ z \in 1 .. n /\ log[z] = log[y] /\ log[z].at <= Horizon
  <2>1. z \in 1 .. Len(log) /\ z \in 1 .. n
    BY <1>2, <1>5
  <2>2. log[z] = log[y]
    BY <1>2, <1>6, <2>1 DEF IdsNameMessages
  <2> QED BY <1>3, <1>4, <2>1, <2>2
<1>8. \A i \in 1 .. Len(log) : log[i].at \in Int
  <2>1. \A i \in 1 .. Len(log) : log[i] \in Message
    BY <1>2
  <2> QED BY <2>1 DEF Message
<1>9. /\ Latest \in Int /\ Timeout \in Int /\ Margin \in Int /\ Tolerance \in Int /\ Horizon \in Int
      /\ Tolerance <= Margin /\ 0 <= Margin
  BY <1>4, <1>8, WriterAssumption, SweepAssumption
<1>10. ASSUME NEW i \in 1 .. Len(log), i \notin done, ~Settled(log, db, i)
       PROVE  log[i].at >= Latest - Timeout - Margin + Timeout
  <2>1. \A f \in 1 .. z - 1 : log[f] # log[i]
    <3> SUFFICES ASSUME NEW f \in 1 .. z - 1, log[f] = log[i] PROVE FALSE
      OBVIOUS
    <3>1. f \in 1 .. Len(log) /\ f \in done
      BY <1>2, <1>5, <1>7
    <3>2. f \in dropped \/ Settled(log, db, f)
      BY <1>2, <3>1 DEF Kept
    <3>3. CASE Settled(log, db, f)
      BY <1>10, <3>3 DEF Settled
    <3>4. CASE f \in dropped
      <4>1. Refusable(log, f)
        BY <3>4 DEF WriterInv, RefusedOnly
      <4> QED BY <1>2, <3>1, <4>1 DEF Refusable, NothingRefused
    <3> QED BY <3>2, <3>3, <3>4
  <2>2. CASE log[i].at <= Horizon
    <3>1. log[z].at <= log[i].at + Tolerance
      BY <1>2, <1>7, <2>1, <2>2, ClockSentBefore
    <3> QED BY <1>4, <1>7, <1>8, <1>9, <3>1
  <2>3. CASE ~(log[i].at <= Horizon)
    BY <1>3, <1>8, <1>9, <2>3
  <2> QED BY <2>2, <2>3
<1>11. PICK c \in Int : c = Latest - Timeout - Margin
  BY <1>9
<1>12. \A i \in 1 .. Len(log) : i \notin done /\ ~Settled(log, db, i) => log[i].at >= c + Timeout
  BY <1>10, <1>11
<1> QED BY <1>1, <1>11, <1>12 DEF SweepInOrder

\* What that is of b's rows.
SweptOf(d, K, R, e, K2, b) ==
  /\ b \notin R => Untouched(d, K, e, K2, b)
  /\ b \in R => /\ ClosedOf(e, b) = ClosedOf(d, b) \cup {Closed(b, K[b])}
                /\ EventsOf(e, b) = EventsOf(d, b) /\ K2[b] = NoCursor

LEMMA SweptRows ==
  ASSUME NEW l, NEW M, NEW d, NEW K, Sound(l, M, d, K), NEW R \in SUBSET Actor, NEW cut, NEW e, NEW K2,
         SweptAway(d, K, R, cut, e, K2), NEW b
  PROVE  SweptOf(d, K, R, e, K2, b)
<1>1. {s \in d.sessions : \A a \in R : s.sid # K[a].sid} = d.sessions
  BY DEF Sound, OpenSound, SweptAway
<1>2. e.sessions = d.sessions \cup {Closed(a, K[a]) : a \in R}
  BY <1>1 DEF SweptAway
<1>3. \A a : Closed(a, K[a]).actor = a
  BY DEF Closed
<1>4. EventsOf(e, b) = EventsOf(d, b)
  BY DEF SweptAway, EventsOf
<1>5. CASE b \notin R
  <2>1. ClosedOf(e, b) = ClosedOf(d, b)
    BY <1>2, <1>3, <1>5 DEF ClosedOf
  <2>2. b \in Actor => K2[b] = K[b]
    BY <1>5 DEF SweptAway
  <2> QED BY <1>4, <1>5, <2>1, <2>2 DEF Untouched, SweptOf
<1>6. CASE b \in R
  <2>1. ClosedOf(e, b) = ClosedOf(d, b) \cup {Closed(b, K[b])}
    BY <1>2, <1>3, <1>6 DEF ClosedOf
  <2>2. K2[b] = NoCursor
    BY <1>6 DEF SweptAway
  <2> QED BY <1>4, <1>6, <2>1, <2>2 DEF SweptOf
<1> QED BY <1>5, <1>6

LEMMA SweepChunkOnce ==
  ASSUME TimeoutSuffices, SweepInv, PlainInv, Quiet, OnceInv, SweepInOrder,
         NEW S \in SUBSET Actor, SweepChunk(S)
  PROVE  OnceInv' /\ SweepInOrder'
<1>1. PICK R \in SUBSET Actor : Sweeps(R)
  BY ChunkSweeps
<1>2. /\ batch = {} /\ cutoff # NoSweep /\ cutoff' \in {cutoff, NoSweep}
      /\ UNCHANGED <<log, done, batch>>
  BY ChunkSweeps
<1>3. /\ log \in Seq(Message) /\ db \in DbOver(SessionId) /\ Sound(log, Made, db, db.cursors)
      /\ SessionId \subseteq Nat \X Nat
  <2>1. TypeOK /\ Sound(log, Made, db, db.cursors)
    BY DEF SweepInv, WriterInv
  <2>2. log \in Seq(Message) /\ db \in Database
    BY <2>1 DEF TypeOK
  <2> QED BY <2>1, <2>2, Setup
<1>4. /\ IdsNameMessages /\ NoneDiscarded /\ NothingRefused
      /\ Visited(log, Made, db, db.cursors)
  BY DEF Quiet, PlainInv, Plain, VisitInv
<1>5. /\ cutoff \in Int
      /\ \A i \in 1 .. Len(log) : i \notin done /\ ~Settled(log, db, i) => log[i].at >= cutoff + Timeout
  BY <1>2 DEF SweepInOrder
<1>6. PICK N \in 0 .. Len(log) : Agrees(N)
  BY DEF OnceInv
<1>7. PICK d, K, e, K2, o, J, M : /\ d = db /\ K = d.cursors /\ e = db' /\ K2 = e.cursors
                                  /\ o = Once[N] /\ J = o.cursors /\ M = Made
  OBVIOUS
<1>8. SweptAway(d, K, R, cutoff, e, K2) /\ Sound(log, M, d, K) /\ Visited(log, M, d, K)
  BY <1>1, <1>3, <1>4, <1>7 DEF Sweeps, SweptAway
<1>9. o \in DbOver(Names) /\ \A k \in 1 .. N : log[k].id \in Stored(o)
  BY <1>3, <1>4, <1>6, <1>7, OnceSound DEF OnceOk
<1>10. /\ J \in [Actor -> CursorOver(Names)] /\ Names \subseteq Nat \X Nat
       /\ K \in [Actor -> CursorOver(SessionId)]
  BY <1>3, <1>7, <1>9 DEF DbOver, Names
<1>11. ASSUME NEW b \in Whose PROVE Same(log, e, K2, o, b)
  <2>1. Same(log, d, K, o, b)
    BY <1>6, <1>7 DEF Agrees
  <2>2. /\ b \notin R => Untouched(d, K, e, K2, b)
        /\ b \in R => /\ ClosedOf(e, b) = ClosedOf(d, b) \cup {Closed(b, K[b])}
                      /\ EventsOf(e, b) = EventsOf(d, b) /\ K2[b] = NoCursor
    <3>1. SweptOf(d, K, R, e, K2, b)
      BY <1>8, SweptRows
    <3> QED BY <3>1 DEF SweptOf
  <2>3. CASE b \notin R
    BY <2>1, <2>2, <2>3, SameLeft
  <2>4. CASE b \in R
    <3>1. b \in Actor /\ K[b] # NoCursor /\ K[b].last < cutoff
      BY <1>8, <2>4 DEF SweptAway
    <3>2. NoNames(ClosedOf(d, b)) = NoNames(ClosedOf(o, b)) /\ SameCursor(K[b], J[b])
      BY <1>7, <2>1, <3>1 DEF Same, SameSessions
    <3>3. J[b] # NoCursor /\ J[b].last = K[b].last
      BY <3>1, <3>2 DEF SameCursor
    <3>4. PICK c, k, s, t : c = K[b] /\ k = J[b] /\ s = Closed(b, c) /\ t = Closed(b, k)
      OBVIOUS
    <3>5. Unnamed(s) = Unnamed(t)
      <4>1. c \in CursorOver(SessionId) /\ k \in CursorOver(Names) /\ c # NoCursor /\ SameCursor(c, k)
        BY <1>10, <3>1, <3>2, <3>4
      <4> QED BY <1>3, <1>10, <3>1, <3>4, <4>1, SameRow
    <3>6. NoNames(ClosedOf(e, b)) = NoNames(ClosedOf(o, b)) \cup {Unnamed(t)}
      <4>1. PICK T : T = ClosedOf(d, b)
        OBVIOUS
      <4>2. NoNames(T \cup {s}) = NoNames(T) \cup {Unnamed(s)}
        BY NoNamesWith
      <4> QED BY <2>2, <2>4, <3>2, <3>4, <3>5, <4>1, <4>2
    <3>7. Over(log, o, b)
      <4> SUFFICES ASSUME NEW i \in 1 .. Len(log), log[i].actor = b, ~HasEvent(o, b, log[i].id)
                   PROVE  log[i].at - J[b].last > Timeout
        BY <1>7 DEF Over
      <4>1. log[i].id \notin Stored(o)
        <5>1. EventsFrom(log, o.events)
          BY <1>3, <1>4, <1>6, <1>7, OnceSound DEF OnceOk, Visited
        <5>2. OneEach(log)
          BY <1>4 DEF IdsNameMessages, OneEach
        <5> QED BY <5>1, <5>2, StoredOwn
      <4>2. i \notin done
        BY <1>6, <1>9, <4>1 DEF Agrees
      <4>3. log[i].id \notin Stored(db)
        <5>1. EventsFrom(log, db.events)
          BY <1>4 DEF Visited
        <5>2. Same(log, db, K, Once[N], log[i].actor)
          BY <1>7, <2>1
        <5> QED BY <1>3, <1>4, <1>7, <4>1, <5>1, <5>2, StoredAlike
      <4>4. ~Settled(log, db, i)
        BY <1>4, <4>3 DEF Settled, NothingRefused
      <4>5. log[i].at >= cutoff + Timeout
        BY <1>5, <4>2, <4>4
      <4>6. log[i].at \in Int /\ K[b].last \in Int
        <5>1. log[i] \in Message
          BY <1>3
        <5>2. K[b] \in [sid : SessionId, start : Int, last : Int, seq : Seq(EventId)]
          BY <1>3, <1>10, <3>1, CursorKind
        <5> QED BY <5>1, <5>2 DEF Message
      <4> QED BY <1>5, <3>1, <3>3, <4>5, <4>6, WriterAssumption
    <3>8. SameEvents(e, o, b)
      BY <2>1, <2>2, <2>4 DEF Same, SameEvents
    <3>9. SameSessions(log, e, K2, o, b)
      BY <1>7, <2>2, <2>4, <3>3, <3>4, <3>6, <3>7 DEF SameSessions
    <3> QED BY <3>8, <3>9 DEF Same
  <2> QED BY <2>3, <2>4
<1>12. Agrees(N)'
  BY <1>2, <1>6, <1>7, <1>11, OnceFixed DEF Agrees
<1>13. OnceInv'
  BY <1>2, <1>12 DEF OnceInv
<1>14. SweepInOrder'
  <2>1. Stored(e) = Stored(db)
    BY <1>7, <1>8 DEF Stored, SweptAway
  <2> QED BY <1>2, <1>5, <1>7, <2>1 DEF SweepInOrder, Settled
<1> QED BY <1>13, <1>14

LEMMA StutterOnce ==
  ASSUME OnceInv, UNCHANGED vars
  PROVE  OnceInv'
<1>1. UNCHANGED <<log, db, done, batch, left, tx, group, cur>>
  BY DEF vars, dbVars, groupVars
<1>2. PICK N \in 0 .. Len(log) : Agrees(N)
  BY DEF OnceInv
<1>3. Cursors' = Cursors
  BY <1>1 DEF Cursors
<1>4. \A b : Untouched(tx, Cursors, tx', Cursors', b)
  BY <1>1, <1>3 DEF Untouched
<1>5. ASSUME batch # {}, NEW b \in Whose PROVE TxSame(N, b)'
  <2>1. TxSame(N, b)
    BY <1>2, <1>5 DEF Agrees
  <2> QED BY <1>1, <1>4, <2>1, KeepsSame
<1> QED BY <1>1, <1>2, <1>5, AgreesInside

LEMMA QuietFixed ==
  ASSUME log' = log
  PROVE  (Quiet' <=> Quiet) /\ (Quiet => Plain)
<1>1. (ClockOrdered' <=> ClockOrdered) /\ (NothingRefused' <=> NothingRefused)
  BY DEF ClockOrdered, NothingRefused
<1>2. Plain' <=> Plain
  BY LogFixed
<1> QED BY <1>1, <1>2 DEF Quiet, Plain

LEMMA OnceStart ==
  ASSUME WriterInv, Init
  PROVE  OnceInv
<1>1. /\ log \in Seq(Message) /\ db = EmptyDb /\ done = {} /\ batch = {} /\ Len(log) \in Nat
  BY Setup DEF Init, WriterInv
<1>2. Once[0] = EmptyDb
  BY <1>1, OnceIs
<1>3. \A b \in Whose : Same(log, db, db.cursors, Once[0], b)
  BY <1>1, <1>2 DEF Same, SameEvents, SameSessions, SameCursor, EmptyDb
<1>4. Agrees(0) /\ 0 \in 0 .. Len(log)
  BY <1>1, <1>3 DEF Agrees
<1> QED BY <1>4 DEF OnceInv

\* The steps of the writer beside the sweep.
LEMMA OnceKept ==
  ASSUME TimeoutSuffices, SweepInv, PlainInv, TransInv, [SweepNext]_allVars
  PROVE  TransInv'
<1>1. log' = log
  BY DEF SweepNext, Next, Begin, ApplyActorless, ApplyMessage, OpenGroup, CloseGroup, Commit,
         Rollback, TransactionEnds, StartSweep, SweepChunk, SweepEnds, allVars, vars
<1> SUFFICES ASSUME Quiet PROVE OnceInv' /\ SweepInOrder'
  BY <1>1, QuietFixed DEF TransInv
<1>2. WriterInv /\ OnceInv /\ SweepInOrder
  BY DEF SweepInv, TransInv
<1>3. CASE cutoff = NoSweep /\ Next /\ UNCHANGED sweepVars
  <2>1. SweepInOrder'
    BY <1>3 DEF sweepVars, SweepInOrder
  <2>2. CASE \E i \in 1 .. Len(log) : Begin(i)
    BY <1>2, <2>1, <2>2, BeginOnce
  <2>3. CASE \E i \in left : ApplyActorless(i)
    BY <1>2, <2>1, <2>3, MessageOnce
  <2>4. CASE \E i \in left : ApplyMessage(i)
    BY <1>2, <2>1, <2>4, MessageOnce
  <2>5. CASE \E a \in Actor : OpenGroup(a)
    BY <1>2, <2>1, <2>5, GroupOnce
  <2>6. CASE CloseGroup
    BY <1>2, <2>1, <2>6, GroupOnce
  <2>7. CASE \E kept \in SUBSET batch : Commit(kept)
    BY <1>2, <2>1, <2>7, CommitOnce
  <2>8. CASE Rollback
    BY <1>2, <2>1, <2>8, RollbackOnce
  <2> QED BY <1>3, <2>2, <2>3, <2>4, <2>5, <2>6, <2>7, <2>8 DEF Next
<1>4. CASE StartSweep
  <2>1. UNCHANGED vars
    BY <1>4 DEF StartSweep
  <2> QED BY <1>2, <1>4, <2>1, StartSweepClock, StutterOnce
<1>5. CASE \E S \in SUBSET Actor : SweepChunk(S)
  BY <1>2, <1>5, SweepChunkOnce
<1>6. CASE SweepEnds
  <2>1. UNCHANGED vars /\ cutoff' = NoSweep
    BY <1>6 DEF SweepEnds, EndSweep
  <2> QED BY <1>2, <2>1, StutterOnce, StutterSweep
<1>7. CASE UNCHANGED allVars
  <2>1. UNCHANGED vars /\ cutoff' = cutoff
    BY <1>7 DEF allVars, sweepVars
  <2> QED BY <1>2, <2>1, StutterOnce, StutterSweep
<1> QED BY <1>3, <1>4, <1>5, <1>6, <1>7 DEF SweepNext

-----------------------------------------------------------------------------
(* The visits *)

NamelessVisits(d, a) == NoNames(SessionsOf(d, a))

LEMMA VisitsAre ==
  ASSUME NEW X, NEW d \in DbOver(X)
  PROVE  Visits(d) = (UNION {NoNames(EventsOf(d, b)) : b \in Whose})
                       \cup (UNION {NamelessVisits(d, a) : a \in Actor})
<1>1. Content(d).events = NoNames(d.events)
  BY DEF Content, NoNames, Unnamed
<1>2. NoNames(d.events) = UNION {NoNames(EventsOf(d, b)) : b \in Whose}
  <2>1. \A e \in d.events : e.actor \in Whose
    BY DEF DbOver, Whose
  <2>2. \A e \in d.events : e \in EventsOf(d, e.actor)
    BY DEF EventsOf
  <2>3. \A b : EventsOf(d, b) \subseteq d.events
    BY DEF EventsOf
  <2> QED BY <2>1, <2>2, <2>3 DEF NoNames
<1>3. \A a \in Actor : {[s EXCEPT !.sid = @[1]] : s \in SessionsOf(d, a)} = NamelessVisits(d, a)
  BY DEF NamelessVisits, NoNames, Unnamed
<1>4. Visits(d) = Content(d).events \cup (UNION {NamelessVisits(d, a) : a \in Actor})
  BY <1>3 DEF Visits
<1> QED BY <1>1, <1>2, <1>4

AllSame(l, d, o) == \A b \in Whose : Same(l, d, d.cursors, o, b)

LEMMA SameVisits ==
  ASSUME NEW X, NEW Y, X \subseteq Nat \X Nat, Y \subseteq Nat \X Nat,
         NEW d \in DbOver(X), NEW o \in DbOver(Y), NEW l, AllSame(l, d, o)
  PROVE  Visits(d) = Visits(o)
<1>0. \A b \in Whose : Same(l, d, d.cursors, o, b)
  BY DEF AllSame
<1>1. ASSUME NEW b \in Whose PROVE NoNames(EventsOf(d, b)) = NoNames(EventsOf(o, b))
  BY <1>0 DEF Same, SameEvents
<1>2. ASSUME NEW a \in Actor PROVE NamelessVisits(d, a) = NamelessVisits(o, a)
  <2>1. PICK c, k, s, t : c = d.cursors[a] /\ k = o.cursors[a] /\ s = Closed(a, c) /\ t = Closed(a, k)
    OBVIOUS
  <2>2. SameSessions(l, d, d.cursors, o, a)
    BY <1>0 DEF Same, Whose
  <2>3. c \in CursorOver(X) /\ k \in CursorOver(Y)
    BY <2>1 DEF DbOver
  <2>4. PICK S, T : S = ClosedOf(d, a) /\ T = ClosedOf(o, a)
    OBVIOUS
  <2>5. /\ NoNames(S \cup {s}) = NoNames(S) \cup {Unnamed(s)}
        /\ NoNames(T \cup {t}) = NoNames(T) \cup {Unnamed(t)}
    BY NoNamesWith
  <2>6. /\ NamelessVisits(d, a) = IF c = NoCursor THEN NoNames(S) ELSE NoNames(S) \cup {Unnamed(s)}
        /\ NamelessVisits(o, a) = IF k = NoCursor THEN NoNames(T) ELSE NoNames(T) \cup {Unnamed(t)}
    BY <2>1, <2>4, <2>5 DEF NamelessVisits, SessionsOf, ClosedOf
  <2>7. CASE c # NoCursor
    <3>1. NoNames(S) = NoNames(T) /\ SameCursor(c, k)
      BY <2>1, <2>2, <2>4, <2>7 DEF SameSessions
    <3>2. Unnamed(s) = Unnamed(t)
      BY <2>1, <2>3, <2>7, <3>1, SameRow
    <3>3. k # NoCursor
      BY <2>7, <3>1 DEF SameCursor
    <3> QED BY <2>6, <2>7, <3>1, <3>2, <3>3
  <2>8. CASE c = NoCursor /\ k = NoCursor
    <3>1. NoNames(S) = NoNames(T)
      BY <2>1, <2>2, <2>4, <2>8 DEF SameSessions
    <3> QED BY <2>6, <2>8, <3>1
  <2>9. CASE c = NoCursor /\ k # NoCursor
    <3>1. NoNames(S) = NoNames(T) \cup {Unnamed(t)}
      BY <2>1, <2>2, <2>4, <2>9 DEF SameSessions, SameCursor
    <3> QED BY <2>6, <2>9, <3>1
  <2> QED BY <2>7, <2>8, <2>9
<1>3. UNION {NoNames(EventsOf(d, b)) : b \in Whose} = UNION {NoNames(EventsOf(o, b)) : b \in Whose}
  BY <1>1
<1>4. UNION {NamelessVisits(d, a) : a \in Actor} = UNION {NamelessVisits(o, a) : a \in Actor}
  BY <1>2
<1>5. Visits(d) = (UNION {NoNames(EventsOf(d, b)) : b \in Whose})
                    \cup (UNION {NamelessVisits(d, a) : a \in Actor})
  BY VisitsAre
<1>6. Visits(o) = (UNION {NoNames(EventsOf(o, b)) : b \in Whose})
                    \cup (UNION {NamelessVisits(o, a) : a \in Actor})
  BY VisitsAre
<1> QED BY <1>3, <1>4, <1>5, <1>6

\* However often records are read again and whenever a sweep runs, the tables
\* hold the visits that applying each record once, without a sweep, makes: a
\* sweep closes only what the actor's next message would have closed.
THEOREM SweepAlwaysTransparent ==
  ASSUME TimeoutSuffices
  PROVE  SweepSpec => []SweepTransparent
<1>1. SweepInit => TransInv
  BY SweepInvInit, OnceStart DEF SweepInit, SweepInv, TransInv, SweepInOrder
<1>2. SweepInv /\ PlainInv /\ TransInv /\ [SweepNext]_allVars => TransInv'
  BY OnceKept
<1>3. SweepInv /\ PlainInv /\ TransInv => SweepTransparent
  <2> SUFFICES ASSUME SweepInv, TransInv, Quiet
               PROVE  \E n \in 0 .. Len(log) : done \subseteq 1 .. n /\ Visits(db) = Visits(Once[n])
    BY DEF SweepTransparent, Quiet
  <2>1. PICK N \in 0 .. Len(log) : Agrees(N)
    BY DEF TransInv, OnceInv
  <2>2. /\ log \in Seq(Message) /\ db \in DbOver(SessionId) /\ SessionId \subseteq Nat \X Nat
    <3>1. TypeOK
      BY DEF SweepInv, WriterInv
    <3>2. db \in Database
      BY <3>1 DEF TypeOK
    <3> QED BY <3>1, <3>2, Setup
  <2>3. PICK o : o = Once[N]
    OBVIOUS
  <2>4. o \in DbOver(Names) /\ Names \subseteq Nat \X Nat
    BY <2>2, <2>3, OnceSound DEF Quiet, OnceOk, Names
  <2>5. \A b \in Whose : Same(log, db, db.cursors, o, b)
    BY <2>1, <2>3 DEF Agrees
  <2>6. Visits(db) = Visits(o)
    <3>1. PICK l, d, K : l = log /\ d = db /\ K = d.cursors
      OBVIOUS
    <3>2. d \in DbOver(SessionId) /\ AllSame(l, d, o)
      BY <2>2, <2>5, <3>1 DEF AllSame
    <3>3. Visits(d) = Visits(o)
      BY <2>2, <2>4, <3>2, SameVisits
    <3> QED BY <3>1, <3>3
  <2> QED BY <2>1, <2>3, <2>6 DEF Agrees
<1> QED BY <1>1, <1>2, <1>3, VisitsInvariant, PTL DEF SweepSpec
=============================================================================
