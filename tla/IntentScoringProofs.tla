-------------------------- MODULE IntentScoringProofs --------------------------
(***************************************************************************)
(* Proofs about IntentScoring, for any containers, visitor histories, page   *)
(* sizes, clocks, lag and faults: what the rows and the passes hold, that    *)
(* the watermark never goes back, and, when the overlap is at least the lag  *)
(* and the error of the measured offset, that it leaves no closed session    *)
(* and no stale actor behind.                                                *)
(***************************************************************************)
EXTENDS IntentScoring, FiniteSetTheorems, NaturalsInduction, WellFoundedInduction, TLAPS

Columns == {"status", "upd", "score", "bucket", "oper"}
Buckets == {"low", "medium", "high"}

RowTyped(r) ==
  /\ DOMAIN r = Columns
  /\ r.upd \in Int
  /\ \/ r.status \in {"open", "pending", "excluded"} /\ r.score = None /\ r.bucket = None
     \/ r.status = "scored" /\ r.score \in Int /\ r.bucket \in Buckets

Steps(kind) ==
  CASE kind = "idle" -> {"idle"}
    [] kind = "calibration" -> {"thresholds", "reassign", "actors"}
    [] OTHER -> {"page", "actors"}

\* The pass of c, given the brand's lock, the watermark and the rows.
JobTyped(c) ==
  LET j == job[c]
  IN  /\ DOMAIN j = {"kind", "step", "at", "first", "thr", "todo", "touched", "cuts"}
      /\ j.kind \in {"idle", "window", "drain", "calibration"}
      /\ j.step \in Steps(j.kind)
      /\ j.todo \subseteq Closed(sess)
      /\ j.touched \subseteq Actor
      /\ lock = c => j.kind \in {"window", "drain"}
      /\ j.kind = "window" =>
           j.at \in 0 .. clock /\ (watermark = None \/ watermark <= j.at \/ hist.crossed)

Rows ==
  /\ DOMAIN sess = Session
  /\ \A s \in Session : RowTyped(sess[s])

Clocks ==
  /\ clock \in 0 .. MaxTime
  /\ watermark = None \/ watermark \in 0 .. clock
  /\ replica.at \in Int /\ replica.at <= clock /\ clock <= replica.at + MaxLag

\* The replica has, as they are, the rows of the sessions closed before it stopped.
ReplicaBehind ==
  \A s \in Session :
    /\ RowTyped(replica.sess[s])
    /\ replica.sess[s].status # "open" => sess[s].status # "open" /\ replica.sess[s].upd = sess[s].upd
    /\ sess[s].status # "open" /\ sess[s].upd < DbClock(replica.at) => replica.sess[s].status # "open"

\* One windowed pass at a time, unless the lock was not asked for.
OneWindow ==
  \A c, d \in Containers :
    c # d /\ job[c].kind = "window" /\ job[d].kind = "window" => hist.crossed

Jobs ==
  /\ DOMAIN job = Containers
  /\ lock \in Containers \cup {None}
  /\ \A c \in Containers : JobTyped(c)
  /\ OneWindow

History ==
  /\ DOMAIN hist = {"early", "refused", "lost", "stale", "overlapped", "crossed"}
  /\ hist.overlapped \in BOOLEAN
  /\ hist.crossed \in BOOLEAN

Typed ==
  /\ cast \in DOMAIN Visits
  /\ DOMAIN thr = Days
  /\ Rows
  /\ Clocks
  /\ ReplicaBehind
  /\ Jobs
  /\ History

-----------------------------------------------------------------------------
(* The operators. *)

LEMMA VisitTyped ==
  ASSUME cast \in DOMAIN Visits
  PROVE  /\ Session = 1 .. Len(visits)
         /\ \A s \in Session : visits[s] \in Visit
         /\ IsFiniteSet(Session)
<1>1. visits \in Seq(Visit)
  BY ScoringAssumption DEF ScoringAssumption, visits
<1>2. Session = 1 .. Len(visits) /\ \A s \in Session : visits[s] \in Visit
  BY <1>1 DEF Session
<1>3. Len(visits) \in Nat
  BY <1>1
<1>4. IsFiniteSet(1 .. Len(visits))
  BY <1>3, FS_Interval
<1> QED
  BY <1>2, <1>4

LEMMA SameCast ==
  ASSUME cast' = cast
  PROVE  /\ visits' = visits
         /\ Session' = Session
         /\ Actor' = Actor
<1>1. visits' = visits
  BY DEF visits
<1>2. Session' = Session
  BY <1>1 DEF Session
<1> QED
  BY <1>1, <1>2 DEF Actor

\* The smaller and the larger of two integers.
LEMMA MinMaxPair ==
  ASSUME NEW a \in Int, NEW b \in Int
  PROVE  /\ Min({a, b}) \in {a, b} /\ Min({a, b}) <= a /\ Min({a, b}) <= b
         /\ Max({a, b}) \in {a, b} /\ Max({a, b}) >= a /\ Max({a, b}) >= b
<1>1. \E x \in {a, b} : \A y \in {a, b} : x <= y
  <2>1. CASE a <= b
    BY <2>1
  <2>2. CASE b <= a
    BY <2>2
  <2> QED
    BY <2>1, <2>2
<1>2. \E x \in {a, b} : \A y \in {a, b} : x >= y
  <2>1. CASE a >= b
    BY <2>1
  <2>2. CASE b >= a
    BY <2>2
  <2> QED
    BY <2>1, <2>2
<1>3. Min({a, b}) \in {a, b} /\ \A y \in {a, b} : Min({a, b}) <= y
  BY <1>1 DEF Min
<1>4. Max({a, b}) \in {a, b} /\ \A y \in {a, b} : Max({a, b}) >= y
  BY <1>2 DEF Max
<1> QED
  BY <1>3, <1>4

LEMMA RoundTyped ==
  ASSUME NEW a \in Int
  PROVE  RoundHalfEven(a, 1000) \in Int
  BY DEF RoundHalfEven

LEMMA ModifierTyped ==
  ASSUME NEW v
  PROVE  Modifier[HighestPage(v)] \in Nat
<1> DEFINE seen == { n \in DOMAIN PageRank : \E m \in DOMAIN v.pages : v.pages[m] = PageRank[n] }
<1>1. DOMAIN PageRank = 1 .. 5
  BY DEF PageRank
<1>2. \A n \in 1 .. 5 : PageRank[n] \in {"checkout", "pdp", "collection", "home", "other"}
  BY DEF PageRank
<1>3. \A p \in {"checkout", "pdp", "collection", "home", "other"} : Modifier[p] \in Nat
  BY DEF Modifier
<1>4. CASE seen = {}
  BY <1>3, <1>4 DEF HighestPage
<1>5. CASE seen # {}
  <2>0. seen \subseteq 1 .. 5
    BY <1>1
  <2> HIDE DEF seen
  <2>1. \E x \in seen : \A y \in seen : x <= y
    <3>1. CASE 1 \in seen
      BY <3>1, <2>0
    <3>2. CASE 1 \notin seen /\ 2 \in seen
      BY <3>2, <2>0
    <3>3. CASE 1 \notin seen /\ 2 \notin seen /\ 3 \in seen
      BY <3>3, <2>0
    <3>4. CASE 1 \notin seen /\ 2 \notin seen /\ 3 \notin seen /\ 4 \in seen
      BY <3>4, <2>0
    <3>5. CASE 1 \notin seen /\ 2 \notin seen /\ 3 \notin seen /\ 4 \notin seen
      <4>1. PICK x \in seen : TRUE
        BY <1>5
      <4>2. \A y \in seen : y = 5
        BY <3>5, <2>0
      <4> QED
        BY <4>1, <4>2
    <3> QED
      BY <3>1, <3>2, <3>3, <3>4, <3>5
  <2>2. Min(seen) \in 1 .. 5
    BY <2>0, <2>1 DEF Min
  <2>3. HighestPage(v) = PageRank[Min(seen)]
    BY <1>5 DEF HighestPage, seen
  <2> QED
    BY <1>2, <1>3, <2>2, <2>3
<1> QED
  BY <1>4, <1>5

LEMMA PredictiveTyped ==
  ASSUME NEW v \in Visit, NEW p90
  PROVE  PredictiveScore(v, p90) \in Int
<1>1. /\ v.products \in Int /\ v.useful \in Int /\ v.ms \in Int /\ v.scrolls \in Int
      /\ v.views \in Int
  BY DEF Visit
<1>2. \A a, b \in Int : Min({a, b}) \in Int /\ Max({a, b}) \in Int
  <2>1. ASSUME NEW a \in Int, NEW b \in Int
        PROVE  Min({a, b}) \in Int /\ Max({a, b}) \in Int
    BY <2>1, MinMaxPair
  <2> QED
    BY <2>1
<1>3. RawScore(v) \in Int
  <2> DEFINE P == Min({v.products, 4})
             U == Min({v.useful, 12})
             D == Min({v.ms, 360000})
             C == Min({v.scrolls, 8})
             W == Min({v.views, 6})
  <2>1. P \in Int
    BY SMT, <1>1, <1>2
  <2>2. U \in Int
    BY SMT, <1>1, <1>2
  <2>3. D \in Int
    BY SMT, <1>1, <1>2
  <2>4. C \in Int
    BY SMT, <1>1, <1>2
  <2>5. W \in Int
    BY SMT, <1>1, <1>2
  <2>6. RawScore(v) = P * 11000 + U * 2200 + (D * 3) \div 40 + C * 1800 + W * 1500
    BY SMT DEF RawScore
  <2> HIDE DEF P, U, D, C, W
  <2> QED
    BY SMT, <2>1, <2>2, <2>3, <2>4, <2>5, <2>6
<1>4. StrugglePenalty(v, p90) \in Int
  BY SMT DEF StrugglePenalty
<1>5. BouncePenalty(v) \in Int
  BY SMT DEF BouncePenalty
<1>6. PICK m \in Nat : m = Modifier[HighestPage(v)]
  <2>1. Modifier[HighestPage(v)] \in Nat
    BY ModifierTyped
  <2> QED
    BY <2>1
<1>7. PICK x \in Int : x = (RawScore(v) + StrugglePenalty(v, p90) + BouncePenalty(v)) * m
  BY <1>3, <1>4, <1>5
<1>8. PICK y \in Int : y = Min({x, 10000000})
  BY SMT, <1>2
<1>9. Max({0, y}) \in Int
  <2>1. 0 \in Int
    OBVIOUS
  <2>2. y \in Int
    BY <1>8
  <2> QED
    BY Zenon, <1>2, <2>1, <2>2
<1>10. PredictiveScore(v, p90) = Max({0, y})
  BY SMT, <1>6, <1>7, <1>8 DEF PredictiveScore
<1> QED
  BY <1>9, <1>10

LEMMA BucketTyped ==
  ASSUME NEW score, NEW p35, NEW p72
  PROVE  AssignBucket(score, p35, p72) \in Buckets
  BY DEF AssignBucket, Buckets

LEMMA ScoreRowTyped ==
  ASSUME NEW v \in Visit, NEW t
  PROVE  /\ ScoreRow(v, t).status \in {"scored", "excluded"}
         /\ ScoreRow(v, t).status = "scored" <=> ~(Bot(v) \/ ZeroSignal(v))
         /\ ScoreRow(v, t).status = "scored" =>
              ScoreRow(v, t).score \in Int /\ ScoreRow(v, t).bucket \in Buckets
         /\ ScoreRow(v, t).status = "excluded" =>
              ScoreRow(v, t).score = None /\ ScoreRow(v, t).bucket = None
<1> DEFINE score == PredictiveScore(v, t.p90)
           bucket == AssignBucket(score, 1000 * t.p35, 1000 * t.p72)
<1>1. RoundHalfEven(score, 1000) \in Int
  <2>1. score \in Int
    BY PredictiveTyped
  <2> HIDE DEF score
  <2> QED
    BY SMT, <2>1, RoundTyped
<1>2. bucket \in Buckets
  BY BucketTyped
<1>3. ScoreRow(v, t) = IF Bot(v) \/ ZeroSignal(v)
      THEN [status |-> "excluded", score |-> None, bucket |-> None, oper |-> None]
      ELSE [status |-> "scored", score |-> RoundHalfEven(score, 1000),
            bucket |-> bucket, oper |-> Override(v, bucket)]
  BY DEF ScoreRow
<1> HIDE DEF score, bucket
<1> QED
  BY <1>1, <1>2, <1>3

-----------------------------------------------------------------------------
(* What the steps do to the rows, the passes and the replica. *)

LEMMA PageIn ==
  ASSUME NEW c
  PROVE  Page(c) \subseteq job[c].todo
BY DEF Page

LEMMA ActorsIn ==
  ASSUME NEW S \in SUBSET Session
  PROVE  ActorsOf(S) \subseteq Actor
BY DEF ActorsOf, Actor

LEMMA AffectedIn ==
  ASSUME NEW c \in Containers, JobTyped(c)
  PROVE  Affected(c) \subseteq Actor
<1>1. job[c].touched \subseteq Actor
  BY DEF JobTyped
<1>2. ActorsOf({ s \in Session : sess[s].status = "scored" /\ SessionDay(s) = job[c].at }) \subseteq Actor
  BY ActorsIn
<1> QED
  BY <1>1, <1>2 DEF Affected

\* The same sessions are closed, since when they were.
SameClosed ==
  /\ DOMAIN sess' = Session
  /\ \A s \in Session : /\ sess'[s].status = "open" <=> sess[s].status = "open"
                        /\ sess'[s].upd = sess[s].upd

LEMMA RowsWritten ==
  ASSUME Typed, cast' = cast, NEW c \in Containers, NEW S \in SUBSET Closed(sess), WriteScores(c, S)
  PROVE  /\ Rows'
         /\ SameClosed
         /\ \A s \in Session : s \notin S => sess'[s] = sess[s]
         /\ \A s \in S : /\ sess'[s].status \in {"scored", "excluded"}
                         /\ sess'[s].status = "scored" <=> ~(Bot(visits[s]) \/ ZeroSignal(visits[s]))
<1> DEFINE row(s) == ScoreRow(visits[s], EffectiveThresholds(job[c].thr, SessionDay(s)))
           new(s) == [sess[s] EXCEPT !.status = row(s).status, !.score = row(s).score,
                                     !.bucket = row(s).bucket, !.oper = row(s).oper]
<1>1. sess' = [s \in Session |-> IF s \in S THEN new(s) ELSE sess[s]]
  BY DEF WriteScores
<1>2. \A s \in Session : RowTyped(sess[s])
  BY DEF Typed, Rows
<1>3. S \subseteq Session /\ \A s \in S : sess[s].status # "open"
  BY DEF Closed
<1>4. ASSUME NEW s \in S
      PROVE  /\ RowTyped(new(s))
             /\ new(s).upd = sess[s].upd
             /\ new(s).status \in {"scored", "excluded"}
             /\ new(s).status = "scored" <=> ~(Bot(visits[s]) \/ ZeroSignal(visits[s]))
  <2>1. visits[s] \in Visit
    BY VisitTyped, <1>3 DEF Typed
  <2>2. /\ row(s).status \in {"scored", "excluded"}
        /\ row(s).status = "scored" <=> ~(Bot(visits[s]) \/ ZeroSignal(visits[s]))
        /\ row(s).status = "scored" => row(s).score \in Int /\ row(s).bucket \in Buckets
        /\ row(s).status = "excluded" => row(s).score = None /\ row(s).bucket = None
    BY <2>1, ScoreRowTyped
  <2>3. DOMAIN sess[s] = Columns /\ sess[s].upd \in Int
    BY <1>2, <1>3 DEF RowTyped
  <2> HIDE DEF row
  <2>4. /\ DOMAIN new(s) = Columns
        /\ new(s).upd = sess[s].upd
        /\ new(s).status = row(s).status
        /\ new(s).score = row(s).score
        /\ new(s).bucket = row(s).bucket
    BY <2>3 DEF Columns
  <2> HIDE DEF new
  <2> QED
    BY <2>2, <2>3, <2>4 DEF RowTyped
<1> HIDE DEF new
<1>5. Session' = Session
  BY SameCast
<1>6. \A s \in Session : sess'[s] = IF s \in S THEN new(s) ELSE sess[s]
  BY <1>1
<1>7. DOMAIN sess' = Session
  BY <1>1
<1>8. \A s \in Session : RowTyped(sess'[s])
  BY <1>2, <1>4, <1>6
<1>9. Rows'
  BY <1>5, <1>7, <1>8 DEF Rows, RowTyped
<1>10. SameClosed
  BY <1>3, <1>4, <1>6, <1>7 DEF SameClosed
<1>11. \A s \in Session : s \notin S => sess'[s] = sess[s]
  BY <1>6
<1>12. \A s \in S : /\ sess'[s].status \in {"scored", "excluded"}
                    /\ sess'[s].status = "scored" <=> ~(Bot(visits[s]) \/ ZeroSignal(visits[s]))
  BY <1>3, <1>4, <1>6
<1> QED
  BY <1>9, <1>10, <1>11, <1>12

LEMMA ClosedKept ==
  ASSUME cast' = cast, SameClosed
  PROVE  Closed(sess)' = Closed(sess)
BY SameCast DEF SameClosed, Closed

LEMMA ReplicaKept ==
  ASSUME Typed, cast' = cast, replica' = replica, SameClosed
  PROVE  ReplicaBehind'
<1>1. Session' = Session
  BY SameCast
<1> QED
  BY <1>1 DEF Typed, ReplicaBehind, SameClosed, RowTyped, DbClock

\* The passes of the other containers, in a step of c or of nobody.
LEMMA OtherJob ==
  ASSUME Typed, cast' = cast, NEW c, NEW d \in Containers, d # c, job'[d] = job[d],
         lock' \in {lock, c, None},
         Closed(sess) \subseteq Closed(sess)', clock' \in Int, clock <= clock',
         hist.crossed => hist'.crossed,
         watermark' = watermark \/ job[d].kind # "window" \/ hist'.crossed
  PROVE  JobTyped(d)'
<1>1. JobTyped(d)
  BY DEF Typed, Jobs
<1>2. Actor' = Actor
  BY SameCast
<1>3. lock' = d => lock = d
  BY ScoringAssumption DEF ScoringAssumption
<1>4. clock \in Int
  BY ScoringAssumption DEF ScoringAssumption, Typed, Clocks
<1>5. job'[d].kind = "window" =>
        job'[d].at \in 0 .. clock' /\ (watermark' = None \/ watermark' <= job'[d].at \/ hist'.crossed)
  <2>1. CASE job[d].kind = "window"
    <3>1. job[d].at \in 0 .. clock /\ (watermark = None \/ watermark <= job[d].at \/ hist.crossed)
      BY <1>1, <2>1 DEF JobTyped
    <3>2. watermark' = watermark \/ hist'.crossed
      BY <2>1
    <3>3. job[d].at \in 0 .. clock'
      BY <3>1, <1>4
    <3> QED
      BY <3>1, <3>2, <3>3
  <2> QED
    BY <2>1
<1> QED
  BY <1>1, <1>2, <1>3, <1>5 DEF JobTyped

\* A step that starts no windowed pass.
LEMMA NoneStarted ==
  ASSUME Typed, \A d \in Containers : job'[d].kind = "window" => job[d].kind = "window",
         hist.crossed => hist'.crossed
  PROVE  OneWindow'
BY DEF Typed, Jobs, OneWindow

LEMMA LeaveTyped ==
  ASSUME Typed, cast' = cast, NEW c \in Containers, Leave(c),
         Closed(sess)' = Closed(sess), clock' = clock, hist.crossed => hist'.crossed,
         \A d \in Containers : d # c =>
           watermark' = watermark \/ job[d].kind # "window" \/ hist'.crossed
  PROVE  Jobs'
<1>1. /\ DOMAIN job' = Containers
      /\ job'[c] = Idle
      /\ \A d \in Containers : d # c => job'[d] = job[d]
  BY DEF Leave, Typed, Jobs
<1>2. lock \in Containers \cup {None}
  BY DEF Typed, Jobs
<1>3. lock' = IF lock = c THEN None ELSE lock
  BY DEF Leave
<1>4. None \notin Containers
  BY ScoringAssumption DEF ScoringAssumption
<1>5. clock \in Int
  BY ScoringAssumption DEF ScoringAssumption, Typed, Clocks
<1>6. ASSUME NEW d \in Containers, d # c
      PROVE  JobTyped(d)'
  <2>1. watermark' = watermark \/ job[d].kind # "window" \/ hist'.crossed
    BY <1>6
  <2>2. /\ job'[d] = job[d] /\ lock' \in {lock, c, None} /\ clock' \in Int /\ clock <= clock'
        /\ Closed(sess) \subseteq Closed(sess)'
    BY <1>1, <1>3, <1>5, <1>6
  <2> QED
    BY <1>6, <2>1, <2>2, OtherJob
<1>7. JobTyped(c)'
  <2>1. lock' # c
    BY <1>3, <1>4
  <2> QED
    BY <1>1, <2>1 DEF JobTyped, Idle, Steps
<1>8. OneWindow'
  <2>1. \A d \in Containers : job'[d].kind = "window" => job[d].kind = "window"
    BY <1>1 DEF Idle
  <2> QED
    BY <2>1, NoneStarted
<1> QED
  BY <1>1, <1>2, <1>3, <1>6, <1>7, <1>8 DEF Jobs

LEMMA StartTyped ==
  ASSUME Typed, NEW c \in Containers, NEW pass, Start(c, pass), UNCHANGED cast,
         DOMAIN pass = DOMAIN Idle, pass.kind \in {"window", "drain", "calibration"},
         pass.step \in Steps(pass.kind), pass.todo \subseteq Closed(sess), pass.touched = {},
         pass.kind = "window" => pass.at = clock,
         IF pass.kind = "calibration" THEN lock' = lock ELSE TakeLock(c)
  PROVE  Jobs' /\ History'
<1>0. /\ cast' = cast /\ clock' = clock /\ sess' = sess /\ watermark' = watermark
      /\ job[c] = Idle /\ job' = [job EXCEPT ![c] = pass]
      /\ hist' = [hist EXCEPT !.overlapped = @ \/ Beside(c, pass.kind),
                              !.crossed = @ \/ Crossing(c, pass.kind)]
  BY DEF Start
<1>1. /\ DOMAIN job' = Containers
      /\ job'[c] = pass
      /\ \A d \in Containers : d # c => job'[d] = job[d]
  BY <1>0 DEF Typed, Jobs
<1>2. lock \in Containers \cup {None}
  BY DEF Typed, Jobs
<1>3. lock' = lock \/ (lock = None /\ lock' = c /\ pass.kind # "calibration")
  BY DEF TakeLock
<1>4. lock' \in Containers \cup {None}
  BY <1>2, <1>3
<1>5. clock \in Nat
  BY ScoringAssumption DEF ScoringAssumption, Typed, Clocks
<1>6. Closed(sess)' = Closed(sess)
  <2>1. Session' = Session
    BY <1>0, SameCast
  <2> QED
    BY <1>0, <2>1 DEF Closed
<1>9. History' /\ (hist.crossed => hist'.crossed) /\ (Crossing(c, pass.kind) => hist'.crossed)
  <2>1. Beside(c, pass.kind) \in BOOLEAN /\ Crossing(c, pass.kind) \in BOOLEAN
    BY DEF Beside, Crossing
  <2>2. /\ (hist.overlapped \/ Beside(c, pass.kind)) \in BOOLEAN
        /\ (hist.crossed \/ Crossing(c, pass.kind)) \in BOOLEAN
    OBVIOUS
  <2> HIDE DEF Beside, Crossing
  <2>3. /\ DOMAIN hist' = DOMAIN hist
        /\ hist'.overlapped = (hist.overlapped \/ Beside(c, pass.kind))
        /\ hist'.crossed = (hist.crossed \/ Crossing(c, pass.kind))
    BY <1>0 DEF Typed, History
  <2> QED
    BY <2>2, <2>3 DEF Typed, History
<1>7. ASSUME NEW d \in Containers, d # c
      PROVE  JobTyped(d)'
  BY <1>0, <1>1, <1>3, <1>5, <1>6, <1>7, <1>9, OtherJob
<1>10. OneWindow'
  <2>1. ASSUME NEW d \in Containers, d # c, pass.kind = "window", job[d].kind = "window"
        PROVE  hist'.crossed
    <3>1. Unguarded(c, d)
      BY <1>2, <1>3, <2>1, ScoringAssumption DEF Unguarded, ScoringAssumption
    <3> QED
      BY <1>9, <2>1, <3>1 DEF Crossing
  <2>2. \A a, b \in Containers :
          a # b /\ job[a].kind = "window" /\ job[b].kind = "window" => hist'.crossed
    BY <1>9 DEF Typed, Jobs, OneWindow
  <2> QED
    BY <1>1, <2>1, <2>2 DEF OneWindow
<1>8. JobTyped(c)'
  <2>1. JobTyped(c)
    BY DEF Typed, Jobs
  <2>2. lock # c
    BY <1>0, <2>1 DEF JobTyped, Idle
  <2>3. lock' = c => pass.kind \in {"window", "drain"}
    BY <1>3, <2>2
  <2>4. DOMAIN pass = {"kind", "step", "at", "first", "thr", "todo", "touched", "cuts"}
    BY DEF Idle
  <2>5. pass.kind = "window" => pass.at \in 0 .. clock' /\ (watermark' = None \/ watermark' <= pass.at)
    BY <1>0, <1>5, ScoringAssumption DEF ScoringAssumption, Typed, Clocks
  <2> QED
    BY <1>1, <1>6, <2>3, <2>4, <2>5 DEF JobTyped
<1> QED
  BY <1>1, <1>4, <1>7, <1>8, <1>9, <1>10 DEF Jobs

\* A step of c that stays in its pass.
LEMMA StayTyped ==
  ASSUME Typed, UNCHANGED <<cast, clock, watermark, lock>>, NEW c \in Containers,
         DOMAIN job' = DOMAIN job, \A d \in Containers : d # c => job'[d] = job[d],
         Closed(sess)' = Closed(sess),
         DOMAIN job'[c] = DOMAIN job[c],
         job'[c].kind = job[c].kind, job'[c].at = job[c].at,
         job'[c].step \in Steps(job[c].kind),
         job'[c].todo \subseteq job[c].todo, job'[c].touched \subseteq Actor,
         hist'.crossed = hist.crossed
  PROVE  Jobs'
<1>1. DOMAIN job' = Containers /\ lock' \in Containers \cup {None}
  BY DEF Typed, Jobs
<1>2. clock \in Nat
  BY ScoringAssumption DEF ScoringAssumption, Typed, Clocks
<1>3. ASSUME NEW d \in Containers, d # c
      PROVE  JobTyped(d)'
  <2>1. /\ cast' = cast /\ job'[d] = job[d] /\ lock' = lock /\ watermark' = watermark
        /\ clock' \in Int /\ clock <= clock' /\ Closed(sess) \subseteq Closed(sess)'
    BY <1>2, <1>3
  <2> QED
    BY <1>3, <2>1, OtherJob
<1>4. JobTyped(c)'
  <2>1. JobTyped(c)
    BY DEF Typed, Jobs
  <2>2. Actor' = Actor
    BY SameCast
  <2> QED
    BY <2>1, <2>2 DEF JobTyped
<1>5. OneWindow'
  <2>1. \A d \in Containers : job'[d].kind = "window" => job[d].kind = "window"
    OBVIOUS
  <2> QED
    BY <2>1, NoneStarted
<1> QED
  BY <1>1, <1>3, <1>4, <1>5 DEF Jobs

\* A step in which no row changes.
LEMMA SameRows ==
  ASSUME Typed, cast' = cast, sess' = sess
  PROVE  Rows' /\ SameClosed /\ Closed(sess)' = Closed(sess)
<1>1. Session' = Session
  BY SameCast
<1>2. Rows'
  BY <1>1 DEF Typed, Rows, RowTyped
<1>3. SameClosed
  BY DEF SameClosed, Typed, Rows
<1> QED
  BY <1>2, <1>3, ClosedKept

LEMMA ClocksKept ==
  ASSUME Typed, UNCHANGED <<clock, watermark, replica>>
  PROVE  Clocks'
BY DEF Typed, Clocks

LEMMA Days0 ==
  ASSUME Typed, DOMAIN thr' = DOMAIN thr
  PROVE  DOMAIN thr' = Days'
BY DEF Typed, Days, DayOf

-----------------------------------------------------------------------------
(* Each action keeps the types. *)

LEMMA TickTyped ==
  ASSUME Typed, Tick
  PROVE  Typed'
<1>1. /\ cast' = cast /\ sess' = sess /\ thr' = thr /\ watermark' = watermark /\ lock' = lock
      /\ job' = job /\ hist' = hist /\ clock < MaxTime /\ clock' = clock + 1
      /\ \/ replica' = [sess |-> sess, thr |-> thr, at |-> clock']
         \/ replica.at + MaxLag > clock /\ replica' = replica
  BY DEF Tick
<1>2. clock \in 0 .. MaxTime /\ {MaxTime, MaxLag, DbOffset} \subseteq Nat
  BY ScoringAssumption DEF ScoringAssumption, Typed, Clocks
<1>3. Rows' /\ SameClosed /\ Closed(sess)' = Closed(sess)
  BY <1>1, SameRows
<1>4. Clocks'
  BY <1>1, <1>2 DEF Typed, Clocks
<1>5. ReplicaBehind'
  <2>1. CASE replica' = replica
    BY <1>1, <1>3, <2>1, ReplicaKept
  <2>2. CASE replica' = [sess |-> sess, thr |-> thr, at |-> clock']
    <3>1. Session' = Session /\ replica'.sess = sess'
      BY <1>1, <2>2, SameCast
    <3>2. \A s \in Session : RowTyped(sess'[s])
      BY <1>1 DEF Typed, Rows
    <3> QED
      BY <3>1, <3>2 DEF ReplicaBehind, RowTyped
  <2> QED
    BY <1>1, <2>1, <2>2
<1>6. Jobs'
  <2>1. ASSUME NEW d \in Containers
        PROVE  JobTyped(d)'
    <3>1. PICK c : c # d
      BY ScoringAssumption DEF ScoringAssumption
    <3>2. job'[d] = job[d] /\ clock' \in Int /\ clock <= clock' /\ Closed(sess) \subseteq Closed(sess)'
      BY <1>1, <1>2, <1>3
    <3> QED
      BY <1>1, <3>1, <3>2, OtherJob
  <2>2. OneWindow'
    BY <1>1, NoneStarted
  <2> QED
    BY <1>1, <2>1, <2>2 DEF Typed, Jobs
<1>7. DOMAIN thr' = Days'
  BY <1>1, Days0
<1>8. cast' \in DOMAIN Visits /\ History'
  BY <1>1 DEF Typed, History
<1> QED
  BY <1>3, <1>4, <1>5, <1>6, <1>7, <1>8 DEF Typed

LEMMA CloseSessionTyped ==
  ASSUME Typed, NEW s0 \in Session, CloseSession(s0)
  PROVE  Typed'
<1>1. /\ cast' = cast /\ thr' = thr /\ watermark' = watermark /\ lock' = lock
      /\ job' = job /\ hist' = hist /\ clock' = clock /\ replica' = replica
      /\ sess[s0].status = "open"
      /\ sess' = [sess EXCEPT ![s0].status = "pending", ![s0].upd = DbClock(clock)]
  BY DEF CloseSession
<1>2. clock \in 0 .. MaxTime /\ {MaxTime, MaxLag, DbOffset} \subseteq Nat
  BY ScoringAssumption DEF ScoringAssumption, Typed, Clocks
<1>3. Session' = Session
  BY <1>1, SameCast
<1>4. \A s \in Session : RowTyped(sess[s])
  BY DEF Typed, Rows
<1>5. /\ DOMAIN sess' = Session
      /\ \A s \in Session : s # s0 => sess'[s] = sess[s]
      /\ sess'[s0] = [sess[s0] EXCEPT !.status = "pending", !.upd = DbClock(clock)]
  BY <1>1 DEF Typed, Rows
<1>6. RowTyped(sess'[s0]) /\ sess'[s0].upd = DbClock(clock) /\ sess'[s0].status = "pending"
  <2>1. DbClock(clock) \in Int
    BY <1>2 DEF DbClock
  <2>2. DOMAIN sess[s0] = Columns /\ sess[s0].score = None /\ sess[s0].bucket = None
    BY <1>1, <1>4 DEF RowTyped
  <2> QED
    BY <1>5, <2>1, <2>2 DEF RowTyped, Columns
<1>7. Rows'
  <2>1. \A s \in Session : RowTyped(sess'[s])
    BY <1>4, <1>5, <1>6
  <2> QED
    BY <1>3, <1>5, <2>1 DEF Rows, RowTyped
<1>8. Closed(sess) \subseteq Closed(sess)'
  BY <1>1, <1>3, <1>5 DEF Closed
<1>9. Clocks'
  BY <1>1, ClocksKept
<1>10. ReplicaBehind'
  <2>1. DbClock(replica.at) <= DbClock(clock)
    BY <1>2 DEF DbClock, Typed, Clocks
  <2>2. ReplicaBehind /\ DbClock(replica.at) \in Int /\ DbClock(clock) \in Int
    BY <1>2 DEF Typed, Clocks, DbClock
  <2>3. ASSUME NEW s \in Session
        PROVE  /\ RowTyped(replica.sess[s])
               /\ replica.sess[s].status # "open" => sess'[s].status # "open" /\ replica.sess[s].upd = sess'[s].upd
               /\ sess'[s].status # "open" /\ sess'[s].upd < DbClock(replica.at) => replica.sess[s].status # "open"
    <3>1. CASE s = s0
      BY <1>1, <1>6, <2>1, <2>2, <3>1 DEF ReplicaBehind
    <3>2. CASE s # s0
      BY <1>5, <2>2, <3>2 DEF ReplicaBehind
    <3> QED
      BY <3>1, <3>2
  <2> QED
    BY <1>1, <1>3, <2>3 DEF ReplicaBehind, RowTyped, DbClock
<1>11. Jobs'
  <2>1. ASSUME NEW d \in Containers
        PROVE  JobTyped(d)'
    <3>1. PICK c : c # d
      BY ScoringAssumption DEF ScoringAssumption
    <3>2. job'[d] = job[d] /\ clock' \in Int /\ clock <= clock'
      BY <1>1, <1>2
    <3> QED
      BY <1>1, <1>8, <3>1, <3>2, OtherJob
  <2>2. OneWindow'
    BY <1>1, NoneStarted
  <2> QED
    BY <1>1, <2>1, <2>2 DEF Typed, Jobs
<1>12. DOMAIN thr' = Days'
  BY <1>1, Days0
<1>13. cast' \in DOMAIN Visits /\ History'
  BY <1>1 DEF Typed, History
<1> QED
  BY <1>7, <1>9, <1>10, <1>11, <1>12, <1>13 DEF Typed

\* A reader sees closed sessions only as closed.
LEMMA ReaderBehind ==
  ASSUME Typed, NEW r \in Readers
  PROVE  \A s \in Session :
           /\ RowTyped(r.sess[s])
           /\ r.sess[s].status # "open" => sess[s].status # "open" /\ r.sess[s].upd = sess[s].upd
           /\ sess[s].status # "open" /\ sess[s].upd < DbClock(replica.at) => r.sess[s].status # "open"
<1>1. r.sess = sess \/ r.sess = replica.sess
  BY DEF Readers
<1> QED
  BY <1>1 DEF Typed, Rows, ReplicaBehind

LEMMA StartTypes ==
  ASSUME Typed, UNCHANGED <<clock, cast, sess, thr, actors, watermark, replica>>, Jobs', History'
  PROVE  Typed'
<1>1. Rows' /\ SameClosed /\ Clocks' /\ DOMAIN thr' = Days'
  BY SameRows, ClocksKept, Days0
<1>2. ReplicaBehind'
  BY <1>1, ReplicaKept
<1>3. cast' \in DOMAIN Visits
  BY DEF Typed
<1> QED
  BY <1>1, <1>2, <1>3 DEF Typed

LEMMA StartWindowTyped ==
  ASSUME Typed, NEW c \in Containers, StartWindow(c)
  PROVE  Typed'
<1>1. PICK r \in Readers :
        LET todo == EligibleSessions(r.sess, ToDbClock(WindowStart(clock)), ToDbClock(clock))
        IN  Start(c, [Idle EXCEPT !.kind = "window", !.at = clock, !.first = watermark = None,
                                  !.thr = r.thr, !.todo = todo,
                                  !.step = IF todo = {} THEN "actors" ELSE "page"])
  BY DEF StartWindow
<1> DEFINE todo == EligibleSessions(r.sess, ToDbClock(WindowStart(clock)), ToDbClock(clock))
           pass == [Idle EXCEPT !.kind = "window", !.at = clock, !.first = watermark = None,
                                !.thr = r.thr, !.todo = todo,
                                !.step = IF todo = {} THEN "actors" ELSE "page"]
<1>2. TakeLock(c) /\ Start(c, pass)
  BY <1>1 DEF StartWindow
<1>3. todo \subseteq Closed(sess)
  BY ReaderBehind DEF EligibleSessions, Closed
<1> HIDE DEF todo
<1>4. /\ DOMAIN pass = DOMAIN Idle /\ pass.kind = "window" /\ pass.at = clock /\ pass.todo = todo
      /\ pass.touched = {} /\ pass.step \in {"page", "actors"}
  BY DEF Idle
<1>5. UNCHANGED <<clock, cast, sess, thr, actors, watermark, replica>>
  BY <1>2 DEF Start
<1> HIDE DEF pass
<1>6. Jobs' /\ History'
  <2>1. pass.step \in Steps(pass.kind)
    BY <1>4 DEF Steps
  <2> QED
    BY <1>2, <1>3, <1>4, <1>5, <2>1, StartTyped
<1> QED
  BY <1>5, <1>6, StartTypes

LEMMA StartDrainTyped ==
  ASSUME Typed, NEW c \in Containers, StartDrain(c)
  PROVE  Typed'
<1>1. PICK r \in Readers :
        LET todo == PendingByStart(r.sess, clock - DrainLookback)
        IN  /\ todo # {}
            /\ Start(c, [Idle EXCEPT !.kind = "drain", !.thr = r.thr, !.todo = todo, !.step = "page"])
  BY DEF StartDrain
<1> DEFINE todo == PendingByStart(r.sess, clock - DrainLookback)
           pass == [Idle EXCEPT !.kind = "drain", !.thr = r.thr, !.todo = todo, !.step = "page"]
<1>2. TakeLock(c) /\ Start(c, pass)
  BY <1>1 DEF StartDrain
<1>3. todo \subseteq Closed(sess)
  BY ReaderBehind DEF PendingByStart, Closed
<1> HIDE DEF todo
<1>4. /\ DOMAIN pass = DOMAIN Idle /\ pass.kind = "drain" /\ pass.todo = todo
      /\ pass.touched = {} /\ pass.step = "page"
  BY DEF Idle
<1>5. UNCHANGED <<clock, cast, sess, thr, actors, watermark, replica>>
  BY <1>2 DEF Start
<1> HIDE DEF pass
<1>6. Jobs' /\ History'
  <2>1. pass.step \in Steps(pass.kind)
    BY <1>4 DEF Steps
  <2> QED
    BY <1>2, <1>3, <1>4, <1>5, <2>1, StartTyped
<1> QED
  BY <1>5, <1>6, StartTypes

LEMMA StartCalibrationTyped ==
  ASSUME Typed, NEW c \in Containers, StartCalibration(c)
  PROVE  Typed'
<1>1. PICK cuts :
        Start(c, [Idle EXCEPT !.kind = "calibration", !.step = "thresholds",
                              !.at = DayOf(clock) - 1, !.cuts = cuts])
  BY DEF StartCalibration
<1> DEFINE pass == [Idle EXCEPT !.kind = "calibration", !.step = "thresholds",
                                !.at = DayOf(clock) - 1, !.cuts = cuts]
<1>2. lock' = lock /\ Start(c, pass)
  BY <1>1 DEF StartCalibration
<1>4. /\ DOMAIN pass = DOMAIN Idle /\ pass.kind = "calibration" /\ pass.todo = {}
      /\ pass.touched = {} /\ pass.step = "thresholds"
  BY DEF Idle
<1>5. UNCHANGED <<clock, cast, sess, thr, actors, watermark, replica>>
  BY <1>2 DEF Start
<1> HIDE DEF pass
<1>6. Jobs' /\ History'
  <2>1. pass.step \in Steps(pass.kind)
    BY <1>4 DEF Steps
  <2> QED
    BY <1>2, <1>4, <1>5, <2>1, StartTyped
<1> QED
  BY <1>5, <1>6, StartTypes

\* The steps of a pass: rows written or not, and the pass goes on or ends.
LEMMA PassTypes ==
  ASSUME Typed, UNCHANGED <<clock, cast, replica>>, DOMAIN thr' = DOMAIN thr, Rows', SameClosed,
         Clocks', Jobs', DOMAIN hist' = DOMAIN hist, hist'.overlapped = hist.overlapped,
         hist'.crossed = hist.crossed
  PROVE  Typed'
<1>1. ReplicaBehind' /\ DOMAIN thr' = Days'
  BY ReplicaKept, Days0
<1>2. cast' \in DOMAIN Visits /\ History'
  BY DEF Typed, History
<1> QED
  BY <1>1, <1>2 DEF Typed

LEMMA ScorePageTyped ==
  ASSUME Typed, NEW c \in Containers, NEW failed, NEW unseen, ScorePage(c, failed, unseen)
  PROVE  Typed'
<1> DEFINE page == Page(c)
           ok == page \ failed
           breaks == job[c].kind = "window" /\ Cardinality(page) = PageSize
<1>1. /\ job[c].step = "page" /\ failed \subseteq page /\ unseen \subseteq failed
      /\ WriteScores(c, ok \cup unseen)
      /\ UNCHANGED <<clock, cast, thr, actors, watermark, replica>>
  BY DEF ScorePage
<1>2. IF breaks THEN Leave(c)
      ELSE /\ job' = [job EXCEPT ![c].todo = @ \ page, ![c].touched = ActorsOf(ok),
                                 ![c].step = "actors"]
           /\ lock' = lock
  BY DEF ScorePage
<1>3. /\ DOMAIN hist' = DOMAIN hist
      /\ hist'.overlapped = hist.overlapped /\ hist'.crossed = hist.crossed
  BY DEF ScorePage, Typed, History
<1>4. JobTyped(c)
  BY DEF Typed, Jobs
<1>5. page \subseteq job[c].todo /\ job[c].todo \subseteq Closed(sess) /\ Closed(sess) \subseteq Session
  BY <1>4, PageIn DEF JobTyped, Closed
<1> HIDE DEF page, breaks
<1>6. Rows' /\ SameClosed
  <2>1. ok \cup unseen \in SUBSET Closed(sess)
    BY <1>1, <1>5
  <2> QED
    BY <1>1, <2>1, RowsWritten
<1>7. Closed(sess)' = Closed(sess)
  BY <1>1, <1>6, ClosedKept
<1>8. ActorsOf(ok) \subseteq Actor
  BY <1>5, ActorsIn
<1> HIDE DEF ok
<1>9. job[c].kind # "idle" /\ "actors" \in Steps(job[c].kind)
  BY <1>1, <1>4 DEF JobTyped, Steps
<1>10. Jobs'
  <2>1. CASE breaks
    BY <1>1, <1>2, <1>3, <1>7, <2>1, LeaveTyped
  <2>2. CASE ~breaks
    <3>1. /\ job' = [job EXCEPT ![c].todo = @ \ page, ![c].touched = ActorsOf(ok),
                                ![c].step = "actors"]
          /\ lock' = lock
      BY <1>2, <2>2
    <3>2. /\ DOMAIN job' = DOMAIN job
          /\ \A d \in Containers : d # c => job'[d] = job[d]
          /\ job'[c] = [job[c] EXCEPT !.todo = @ \ page, !.touched = ActorsOf(ok), !.step = "actors"]
      BY <3>1 DEF Typed, Jobs
    <3>3. /\ DOMAIN job'[c] = DOMAIN job[c]
          /\ job'[c].kind = job[c].kind /\ job'[c].at = job[c].at
          /\ job'[c].step = "actors" /\ job'[c].touched = ActorsOf(ok)
          /\ job'[c].todo = job[c].todo \ page
      BY <1>4, <3>2 DEF JobTyped
    <3> QED
      BY <1>1, <1>3, <1>7, <1>8, <1>9, <3>1, <3>2, <3>3, StayTyped
  <2> QED
    BY <2>1, <2>2
<1>11. Clocks'
  BY <1>1, ClocksKept
<1> QED
  BY <1>1, <1>3, <1>6, <1>10, <1>11, PassTypes

LEMMA RecomputeTyped ==
  ASSUME Typed, NEW c \in Containers, RecomputeActors(c)
  PROVE  Typed'
<1>1. /\ job[c].step = "actors" /\ UNCHANGED <<clock, cast, sess, thr, replica>>
      /\ watermark' = IF job[c].kind = "window" THEN job[c].at ELSE watermark
      /\ IF job[c].kind = "drain" /\ job[c].todo # {}
         THEN /\ job' = [job EXCEPT ![c].touched = {}, ![c].step = "page"]
              /\ lock' = lock
         ELSE Leave(c)
  BY DEF RecomputeActors
<1>2. /\ DOMAIN hist' = DOMAIN hist
      /\ hist'.overlapped = hist.overlapped /\ hist'.crossed = hist.crossed
  BY DEF RecomputeActors, Typed, History
<1>3. JobTyped(c)
  BY DEF Typed, Jobs
<1>4. Rows' /\ SameClosed /\ Closed(sess)' = Closed(sess)
  BY <1>1, SameRows
<1>5. \A d \in Containers : d # c =>
        watermark' = watermark \/ job[d].kind # "window" \/ hist'.crossed
  BY <1>1, <1>2 DEF Typed, Jobs, OneWindow
<1>6. Clocks'
  BY <1>1, <1>3 DEF Typed, Clocks, JobTyped
<1>7. Jobs'
  <2>1. CASE job[c].kind = "drain" /\ job[c].todo # {}
    <3>1. /\ DOMAIN job' = DOMAIN job
          /\ \A d \in Containers : d # c => job'[d] = job[d]
          /\ job'[c] = [job[c] EXCEPT !.touched = {}, !.step = "page"]
      BY <1>1, <2>1 DEF Typed, Jobs
    <3>2. /\ DOMAIN job'[c] = DOMAIN job[c]
          /\ job'[c].kind = job[c].kind /\ job'[c].at = job[c].at
          /\ job'[c].step = "page" /\ job'[c].touched = {}
          /\ job'[c].todo = job[c].todo
      BY <1>3, <3>1 DEF JobTyped
    <3>3. job'[c].step \in Steps(job[c].kind) /\ watermark' = watermark
      BY <1>1, <2>1, <3>2 DEF Steps
    <3> QED
      BY <1>1, <1>2, <1>4, <2>1, <3>1, <3>2, <3>3, StayTyped
  <2>2. CASE ~(job[c].kind = "drain" /\ job[c].todo # {})
    <3>1. Leave(c)
      BY <1>1, <2>2
    <3> QED
      BY <1>1, <1>2, <1>4, <1>5, <3>1, LeaveTyped
  <2> QED
    BY <2>1, <2>2
<1> QED
  BY <1>1, <1>2, <1>4, <1>6, <1>7, PassTypes

LEMMA WriteThresholdsTyped ==
  ASSUME Typed, NEW c \in Containers, WriteThresholds(c)
  PROVE  Typed'
<1>1. /\ job[c].step = "thresholds" /\ DOMAIN thr' = DOMAIN thr
      /\ job' = [job EXCEPT ![c].step = "reassign"]
      /\ UNCHANGED <<cast, sess, actors, watermark, replica, lock, hist, clock>>
  BY DEF WriteThresholds
<1>2. JobTyped(c)
  BY DEF Typed, Jobs
<1>3. Rows' /\ SameClosed /\ Closed(sess)' = Closed(sess) /\ Clocks'
  BY <1>1, SameRows, ClocksKept
<1>4. /\ DOMAIN job' = DOMAIN job
      /\ \A d \in Containers : d # c => job'[d] = job[d]
      /\ job'[c] = [job[c] EXCEPT !.step = "reassign"]
  BY <1>1 DEF Typed, Jobs
<1>5. /\ DOMAIN job'[c] = DOMAIN job[c]
      /\ job'[c].kind = job[c].kind /\ job'[c].at = job[c].at
      /\ job'[c].step = "reassign" /\ job'[c].touched \subseteq Actor
      /\ job'[c].todo = job[c].todo
  BY <1>2, <1>4 DEF JobTyped
<1>6. job'[c].step \in Steps(job[c].kind)
  BY <1>1, <1>2, <1>5 DEF JobTyped, Steps
<1>7. Jobs'
  BY <1>1, <1>3, <1>4, <1>5, <1>6, StayTyped
<1> QED
  BY <1>1, <1>3, <1>7, PassTypes

\* The rows a calibration changes: bucket and override, no more.
LEMMA RowsReassigned ==
  ASSUME Typed, NEW c \in Containers, ReassignBuckets(c)
  PROVE  /\ Rows' /\ SameClosed
         /\ \A s \in Session :
              /\ sess'[s].status = sess[s].status
              /\ sess'[s].score = sess[s].score
              /\ IF sess[s].status = "scored" /\ SessionDay(s) = job[c].at
                 THEN /\ sess'[s].bucket = AssignBucket(sess[s].score, job[c].cuts.p35, job[c].cuts.p72)
                      /\ sess'[s].oper = Override(visits[s], sess'[s].bucket)
                 ELSE sess'[s] = sess[s]
<1> DEFINE bucket(s) == AssignBucket(sess[s].score, job[c].cuts.p35, job[c].cuts.p72)
           due(s) == sess[s].status = "scored" /\ SessionDay(s) = job[c].at
           new(s) == [sess[s] EXCEPT !.bucket = bucket(s), !.oper = Override(visits[s], bucket(s))]
<1>1. sess' = [s \in Session |-> IF due(s) THEN new(s) ELSE sess[s]] /\ cast' = cast
  BY DEF ReassignBuckets
<1>2. \A s \in Session : RowTyped(sess[s])
  BY DEF Typed, Rows
<1>3. \A s : bucket(s) \in Buckets
  BY BucketTyped
<1> HIDE DEF bucket
<1>4. ASSUME NEW s \in Session, due(s)
      PROVE  /\ RowTyped(new(s))
             /\ new(s).upd = sess[s].upd /\ new(s).status = sess[s].status
             /\ new(s).score = sess[s].score
             /\ new(s).bucket = bucket(s) /\ new(s).oper = Override(visits[s], bucket(s))
  BY <1>2, <1>3, <1>4 DEF RowTyped, Columns
<1> HIDE DEF new, due
<1>5. Session' = Session
  BY <1>1, SameCast
<1>6. DOMAIN sess' = Session /\ \A s \in Session : sess'[s] = IF due(s) THEN new(s) ELSE sess[s]
  BY <1>1
<1>7. \A s \in Session : RowTyped(sess'[s])
  BY <1>2, <1>4, <1>6
<1>8. Rows'
  BY <1>5, <1>6, <1>7 DEF Rows, RowTyped
<1>9. SameClosed
  BY <1>4, <1>6 DEF SameClosed
<1>10. \A s \in Session :
         /\ sess'[s].status = sess[s].status
         /\ sess'[s].score = sess[s].score
         /\ IF due(s)
            THEN sess'[s].bucket = bucket(s) /\ sess'[s].oper = Override(visits[s], bucket(s))
            ELSE sess'[s] = sess[s]
  BY <1>4, <1>6
<1> QED
  BY <1>8, <1>9, <1>10 DEF due, bucket

LEMMA ReassignTyped ==
  ASSUME Typed, NEW c \in Containers, ReassignBuckets(c)
  PROVE  Typed'
<1>1. /\ job[c].step = "reassign" /\ job' = [job EXCEPT ![c].step = "actors"]
      /\ UNCHANGED <<clock, cast, thr, actors, watermark, replica, lock>>
      /\ DOMAIN hist' = DOMAIN hist
      /\ hist'.overlapped = hist.overlapped /\ hist'.crossed = hist.crossed
  BY DEF ReassignBuckets, Typed, History
<1>2. JobTyped(c)
  BY DEF Typed, Jobs
<1>3. Rows' /\ SameClosed
  BY RowsReassigned
<1>4. Closed(sess)' = Closed(sess) /\ Clocks'
  BY <1>1, <1>3, ClosedKept, ClocksKept
<1>5. /\ DOMAIN job' = DOMAIN job
      /\ \A d \in Containers : d # c => job'[d] = job[d]
      /\ job'[c] = [job[c] EXCEPT !.step = "actors"]
  BY <1>1 DEF Typed, Jobs
<1>6. /\ DOMAIN job'[c] = DOMAIN job[c]
      /\ job'[c].kind = job[c].kind /\ job'[c].at = job[c].at
      /\ job'[c].step = "actors" /\ job'[c].touched \subseteq Actor
      /\ job'[c].todo = job[c].todo
  BY <1>2, <1>5 DEF JobTyped
<1>7. job'[c].step \in Steps(job[c].kind)
  BY <1>1, <1>2, <1>6 DEF JobTyped, Steps
<1>8. Jobs'
  BY <1>1, <1>4, <1>5, <1>6, <1>7, StayTyped
<1> QED
  BY <1>1, <1>3, <1>4, <1>8, PassTypes

LEMMA DrainStopsTyped ==
  ASSUME Typed, NEW c \in Containers, DrainStops(c)
  PROVE  Typed'
<1>1. /\ Leave(c)
      /\ UNCHANGED <<clock, cast, sess, thr, watermark, replica, hist>>
  BY DEF DrainStops
<1>2. Rows' /\ SameClosed /\ Closed(sess)' = Closed(sess) /\ Clocks'
  BY <1>1, SameRows, ClocksKept
<1>3. Jobs'
  BY <1>1, <1>2, LeaveTyped
<1> QED
  BY <1>1, <1>2, <1>3, PassTypes

LEMMA FailTyped ==
  ASSUME Typed, NEW c \in Containers, Fail(c)
  PROVE  Typed'
<1>1. /\ Leave(c) /\ job[c].step # "idle"
      /\ UNCHANGED <<clock, cast, sess, thr, watermark, replica>>
      /\ DOMAIN hist' = DOMAIN hist
      /\ hist'.overlapped = hist.overlapped /\ hist'.crossed = hist.crossed
  BY DEF Fail, Typed, History
<1>3. Rows' /\ SameClosed /\ Closed(sess)' = Closed(sess) /\ Clocks'
  BY <1>1, SameRows, ClocksKept
<1>4. Jobs'
  BY <1>1, <1>3, LeaveTyped
<1> QED
  BY <1>1, <1>3, <1>4, PassTypes

LEMMA FailInPageTyped ==
  ASSUME Typed, NEW c \in Containers, NEW S, FailInPage(c, S)
  PROVE  Typed'
<1>1. /\ Leave(c) /\ job[c].step = "page" /\ S \subseteq Page(c) /\ WriteScores(c, S)
      /\ UNCHANGED <<clock, cast, thr, watermark, replica>>
      /\ DOMAIN hist' = DOMAIN hist
      /\ hist'.overlapped = hist.overlapped /\ hist'.crossed = hist.crossed
  BY DEF FailInPage, Typed, History
<1>2. JobTyped(c)
  BY DEF Typed, Jobs
<1>4. S \in SUBSET Closed(sess)
  BY <1>1, <1>2, PageIn DEF JobTyped
<1>5. Rows' /\ SameClosed
  BY <1>1, <1>4, RowsWritten
<1>6. Closed(sess)' = Closed(sess) /\ Clocks'
  BY <1>1, <1>5, ClosedKept, ClocksKept
<1>7. Jobs'
  BY <1>1, <1>6, LeaveTyped
<1> QED
  BY <1>1, <1>5, <1>6, <1>7, PassTypes

LEMMA TypedInit ==
  ASSUME Init
  PROVE  Typed
<1>1. /\ clock = 0 /\ cast \in DOMAIN Visits /\ sess = [s \in Session |-> NoSession]
      /\ thr = [d \in Days |-> None] /\ watermark = None /\ lock = None
      /\ replica = [sess |-> sess, thr |-> thr, at |-> 0]
      /\ job = [c \in Containers |-> Idle]
      /\ hist = [early |-> {}, refused |-> {}, lost |-> {}, stale |-> {},
               overlapped |-> FALSE, crossed |-> FALSE]
  BY DEF Init
<1>2. {MaxTime, MaxLag} \subseteq Nat /\ None \notin Containers
  BY ScoringAssumption DEF ScoringAssumption
<1>3. RowTyped(NoSession) /\ NoSession.status = "open"
  BY DEF NoSession, RowTyped, Columns
<1>4. Rows
  BY <1>1, <1>3 DEF Rows
<1>5. Clocks
  BY <1>1, <1>2 DEF Clocks
<1>6. ReplicaBehind
  BY <1>1, <1>3 DEF ReplicaBehind
<1>7. ASSUME NEW c \in Containers
      PROVE  JobTyped(c)
  BY <1>1, <1>2 DEF JobTyped, Idle, Steps
<1>8. Jobs
  <2>1. OneWindow
    BY <1>1 DEF OneWindow, Idle
  <2> QED
    BY <1>1, <1>7, <2>1 DEF Jobs
<1>9. History /\ DOMAIN thr = Days
  BY <1>1 DEF History
<1> QED
  BY <1>1, <1>4, <1>5, <1>6, <1>8, <1>9 DEF Typed

LEMMA TypedStep ==
  ASSUME Typed, [Next]_vars
  PROVE  Typed'
<1>1. CASE UNCHANGED vars
  <2>1. /\ UNCHANGED <<clock, cast, sess, thr, watermark, replica, lock, job, hist>>
    BY <1>1 DEF vars
  <2>2. Rows' /\ SameClosed /\ Clocks'
    BY <2>1, SameRows, ClocksKept
  <2>3. Jobs'
    <3>1. Actor' = Actor /\ Session' = Session
      BY <2>1, SameCast
    <3> QED
      BY <2>1, <3>1 DEF Typed, Jobs, OneWindow, JobTyped, Closed
  <2> QED
    BY <2>1, <2>2, <2>3, PassTypes
<1>2. CASE Tick
  BY <1>2, TickTyped
<1>3. ASSUME NEW s \in Session, CloseSession(s)
      PROVE  Typed'
  BY <1>3, CloseSessionTyped
<1>4. ASSUME NEW c \in Containers,
             \/ StartWindow(c)
             \/ StartDrain(c)
             \/ StartCalibration(c)
             \/ \E failed, unseen : ScorePage(c, failed, unseen)
             \/ RecomputeActors(c)
             \/ WriteThresholds(c)
             \/ ReassignBuckets(c)
             \/ DrainStops(c)
             \/ Fail(c)
             \/ \E S : FailInPage(c, S)
      PROVE  Typed'
  BY <1>4, StartWindowTyped, StartDrainTyped, StartCalibrationTyped, ScorePageTyped,
     RecomputeTyped, WriteThresholdsTyped, ReassignTyped, DrainStopsTyped, FailTyped, FailInPageTyped
<1> QED
  BY <1>1, <1>2, <1>3, <1>4 DEF Next

LEMMA TypedAlways == Spec => []Typed
<1>1. Init => Typed
  BY TypedInit
<1>2. Typed /\ [Next]_vars => Typed'
  BY TypedStep
<1> QED
  BY <1>1, <1>2, PTL DEF Spec

\* The rows, the watermark, the lock and the passes keep their types, and the
\* brand's lock is held for a scoring pass that is under way, by nobody else.
THEOREM ScoringTyped == Spec => []TypeOK
<1>1. Typed => TypeOK
  <2> SUFFICES ASSUME Typed PROVE TypeOK
    OBVIOUS
  <2>1. ASSUME NEW s \in Session
        PROVE  /\ sess[s].status \in {"open", "pending", "scored", "excluded"}
               /\ (sess[s].score # None) <=> (sess[s].status = "scored")
               /\ (sess[s].bucket # None) <=> (sess[s].status = "scored")
    <3>1. RowTyped(sess[s])
      BY DEF Typed, Rows
    <3>2. None \notin Int /\ None \notin Buckets
      BY FormulasAssumption DEF FormulasAssumption, Buckets
    <3> QED
      BY <3>1, <3>2 DEF RowTyped
  <2>2. ASSUME NEW c \in Containers
        PROVE  /\ job[c].kind \in {"idle", "window", "drain", "calibration"}
               /\ job[c].step \in {"idle", "page", "actors", "thresholds", "reassign"}
               /\ lock = c => job[c].kind \in {"window", "drain"}
    BY DEF Typed, Jobs, JobTyped, Steps
  <2> QED
    BY <2>1, <2>2 DEF TypeOK, Typed, Clocks, Jobs
<1> QED
  BY <1>1, TypedAlways, PTL

\* The scoring watermark never goes back: the lock lets one windowed pass at a
\* time move it, to the time that pass began, and the pass began after the
\* watermark it found.  It may once two windowed passes ran side by side because
\* GET_LOCK raised for one of them.
THEOREM WatermarkOnlyAdvances == Spec => WatermarkAdvances
<1>1. ASSUME Typed, [Next]_vars
      PROVE  [watermark # None => watermark' >= watermark \/ hist.crossed]_vars
  <2>0. watermark \in Int \/ watermark = None
    BY <1>1 DEF Typed, Clocks
  <2>1. CASE watermark' = watermark
    BY <2>0, <2>1
  <2>2. ASSUME NEW c \in Containers, RecomputeActors(c)
        PROVE  watermark # None => watermark' >= watermark \/ hist.crossed
    <3>1. JobTyped(c)
      BY <1>1 DEF Typed, Jobs
    <3>2. watermark' = IF job[c].kind = "window" THEN job[c].at ELSE watermark
      BY <2>2 DEF RecomputeActors
    <3>3. CASE job[c].kind = "window"
      <4>1. job[c].at \in Int /\ (watermark = None \/ watermark <= job[c].at \/ hist.crossed)
        BY <3>1, <3>3, <1>1, ScoringAssumption DEF JobTyped, ScoringAssumption, Typed, Clocks
      <4> QED
        BY <2>0, <3>2, <3>3, <4>1
    <3>4. CASE job[c].kind # "window"
      BY <2>0, <3>2, <3>4
    <3> QED
      BY <3>3, <3>4
  <2>3. UNCHANGED vars => watermark' = watermark
    BY DEF vars
  <2>4. Tick \/ (\E s \in Session : CloseSession(s)) => watermark' = watermark
    BY DEF Tick, CloseSession
  <2>5. \A c \in Containers :
          StartWindow(c) \/ StartDrain(c) \/ StartCalibration(c) => watermark' = watermark
    <3>1. \A c, pass : Start(c, pass) => watermark' = watermark
      BY DEF Start
    <3> QED
      BY <3>1 DEF StartWindow, StartDrain, StartCalibration
  <2>6. \A c \in Containers :
          \/ \E failed, unseen : ScorePage(c, failed, unseen)
          \/ \E S : FailInPage(c, S)
          => watermark' = watermark
    <3>1. \A c, failed, unseen : ScorePage(c, failed, unseen) => watermark' = watermark
      BY DEF ScorePage
    <3>2. \A c, S : FailInPage(c, S) => watermark' = watermark
      BY DEF FailInPage
    <3> QED
      BY <3>1, <3>2
  <2>7. \A c \in Containers :
          WriteThresholds(c) \/ ReassignBuckets(c) \/ DrainStops(c) \/ Fail(c)
          => watermark' = watermark
    BY DEF WriteThresholds, ReassignBuckets, DrainStops, Fail
  <2> QED
    BY <1>1, <2>1, <2>2, <2>3, <2>4, <2>5, <2>6, <2>7 DEF Next
<1> QED
  BY <1>1, TypedAlways, PTL DEF Spec, WatermarkAdvances

-----------------------------------------------------------------------------
(* Finite sets and counting. *)

\* A set of naturals has a least element.
LEMMA Least ==
  ASSUME NEW S, S \subseteq Nat, S # {}
  PROVE  \E n \in S : \A m \in S : n <= m
<1> DEFINE R == OpToRel(<, Nat)
<1>1. IsWellFoundedOn(R, Nat)
  BY NatLessThanWellFounded, Zenon
<1>2. PICK n \in S : \A m \in S : ~(<<m, n>> \in R)
  <2> HIDE DEF R
  <2> QED
    BY <1>1, WFMin, Zenon
<1>3. \A m \in S : ~(m < n)
  BY <1>2 DEF OpToRel
<1> QED
  BY <1>3

\* A function with natural values has a least and a bounded one a greatest value.
LEMMA LeastBy ==
  ASSUME NEW S, S # {}, NEW f, \A s \in S : f[s] \in Nat
  PROVE  \E s \in S : \A t \in S : f[s] <= f[t]
<1> DEFINE V == { f[s] : s \in S }
<1>1. V \subseteq Nat /\ V # {}
  OBVIOUS
<1>2. PICK n \in V : \A m \in V : n <= m
  <2> HIDE DEF V
  <2> QED
    BY <1>1, Least
<1>3. PICK s \in S : n = f[s]
  OBVIOUS
<1> QED
  BY <1>2, <1>3

LEMMA GreatestBy ==
  ASSUME NEW S, S # {}, NEW f, NEW b \in Nat, \A s \in S : f[s] \in 0 .. b
  PROVE  \E s \in S : \A t \in S : f[t] <= f[s]
<1> DEFINE g == [s \in S |-> b - f[s]]
<1>1. \A s \in S : g[s] \in Nat /\ g[s] = b - f[s]
  OBVIOUS
<1>2. PICK s \in S : \A t \in S : g[s] <= g[t]
  <2> HIDE DEF g
  <2> QED
    BY <1>1, LeastBy
<1>3. \A t \in S : f[t] <= f[s]
  <2> HIDE DEF g
  <2> QED
    BY <1>1, <1>2
<1> QED
  BY <1>3

\* The members of T that fewer than k others precede, in a strict total order
\* where Ahead gives who precedes whom: k of them, unless they are all of T.
LEMMA FirstOnes ==
  ASSUME NEW T, IsFiniteSet(T), NEW Ahead, NEW k \in Nat \ {0},
         NEW first \in SUBSET T, first # T,
         \A s \in T : /\ Ahead[s] \in SUBSET T
                      /\ s \notin Ahead[s]
                      /\ s \in first <=> Cardinality(Ahead[s]) < k,
         \A s, t \in T : s # t => s \in Ahead[t] \/ t \in Ahead[s],
         \A s, t, u \in T : s \in Ahead[t] /\ t \in Ahead[u] => s \in Ahead[u]
  PROVE  Cardinality(first) = k
<1> DEFINE Count == [s \in T |-> Cardinality(Ahead[s])]
<1>1. \A s \in T : /\ Ahead[s] \in SUBSET T
                   /\ Count[s] = Cardinality(Ahead[s])
                   /\ s \in first <=> Count[s] < k
  OBVIOUS
<1>2. first \subseteq T
  OBVIOUS
<1> HIDE DEF Count
<1>3. \A s \in T : IsFiniteSet(Ahead[s]) /\ Count[s] \in Nat /\ Count[s] <= Cardinality(T)
  <2> TAKE s \in T
  <2>1. IsFiniteSet(Ahead[s]) /\ Cardinality(Ahead[s]) <= Cardinality(T)
    BY <1>1, FS_Subset
  <2>2. Cardinality(Ahead[s]) \in Nat
    BY <2>1, FS_CardinalityType
  <2> QED
    BY <1>1, <2>1, <2>2
<1>4. ASSUME NEW s \in T, NEW t \in T, t \in Ahead[s]
      PROVE  Count[t] < Count[s]
  <2>1. Ahead[t] \in SUBSET Ahead[s] /\ t \in Ahead[s] /\ t \notin Ahead[t]
    BY <1>1, <1>4
  <2>2. IsFiniteSet(Ahead[s]) /\ Count[s] = Cardinality(Ahead[s]) /\ Count[t] = Cardinality(Ahead[t])
    BY <1>1, <1>3
  <2>3. /\ Cardinality(Ahead[t]) <= Cardinality(Ahead[s])
        /\ Cardinality(Ahead[s]) = Cardinality(Ahead[t]) => Ahead[s] = Ahead[t]
    BY <2>1, <2>2, FS_Subset, Zenon
  <2> QED
    BY <1>3, <2>1, <2>2, <2>3
<1>5. \A s, t \in T : s # t => Count[t] < Count[s] \/ Count[s] < Count[t]
  BY <1>4
<1>6. PICK s \in T \ first : \A t \in T \ first : Count[s] <= Count[t]
  <2>1. T \ first # {} /\ \A t \in T \ first : Count[t] \in Nat
    BY <1>2, <1>3
  <2> QED
    BY <2>1, LeastBy
<1>7. Count[s] \in Nat /\ Count[s] >= k
  BY <1>1, <1>3
<1>8. first = Ahead[s]
  <2>1. ASSUME NEW t \in T, t \in Ahead[s] PROVE t \in first
    <3>1. Count[t] < Count[s]
      BY <1>4, <2>1
    <3>2. ~(Count[s] <= Count[t])
      BY <1>3, <1>7, <3>1
    <3> QED
      BY <1>6, <3>2, Zenon
  <2>2. ASSUME NEW t \in T, t \in first PROVE t \in Ahead[s]
    <3>1. Count[t] < k
      BY <1>1, <2>2
    <3>2. s \in Ahead[t] => Count[s] < Count[t]
      BY <1>4
    <3>3. s \notin Ahead[t] /\ s # t
      BY <1>3, <1>7, <2>2, <3>1, <3>2
    <3> QED
      BY <3>3
  <2> QED
    BY <1>1, <1>2, <2>1, <2>2
<1>9. IsFiniteSet(first) /\ Cardinality(first) = Count[s]
  <2>1. IsFiniteSet(Ahead[s]) /\ Count[s] = Cardinality(Ahead[s])
    BY <1>1, <1>3
  <2> QED
    BY <1>8, <2>1, Zenon
<1>10. Cardinality(first) <= k
  <2>1. first # {}
    <3>1. Count[s] # 0
      BY <1>7
    <3> QED
      BY <1>9, <3>1, FS_EmptySet, Zenon
  <2>2. PICK t \in first : \A u \in first : Count[u] <= Count[t]
    <3>1. Cardinality(T) \in Nat
      BY FS_CardinalityType
    <3>2. \A u \in first : Count[u] \in 0 .. Cardinality(T)
      BY <1>2, <1>3, <3>1
    <3> QED
      BY <2>1, <3>1, <3>2, GreatestBy
  <2>3. t \in T /\ Count[t] < k /\ IsFiniteSet(Ahead[t]) /\ Count[t] = Cardinality(Ahead[t]) /\ Count[t] \in Nat
    BY <1>1, <1>2, <1>3
  <2>4. first \in SUBSET (Ahead[t] \cup {t})
    <3>1. ASSUME NEW u \in first, u # t PROVE u \in Ahead[t]
      <4>1. u \in T
        BY <1>2
      <4>2. t \in Ahead[u] => Count[t] < Count[u]
        BY <4>1, <2>3, <1>4
      <4>3. Count[u] <= Count[t] /\ Count[u] \in Nat
        BY <4>1, <2>2, <1>3
      <4>4. t \notin Ahead[u]
        BY <2>3, <4>2, <4>3
      <4> QED
        BY <3>1, <4>1, <4>4, <2>3
    <3> QED
      BY <1>1, <1>2, <2>3, <3>1
  <2>5. /\ IsFiniteSet(Ahead[t] \cup {t})
        /\ Cardinality(Ahead[t] \cup {t}) = IF t \in Ahead[t] THEN Count[t] ELSE Count[t] + 1
    BY <2>3, FS_AddElement
  <2>6. Cardinality(first) <= Cardinality(Ahead[t] \cup {t})
    BY <2>4, <2>5, FS_Subset
  <2> QED
    BY <1>7, <1>9, <2>3, <2>5, <2>6
<1> QED
  BY <1>7, <1>9, <1>10

\* A page of a windowed pass that is not full is all that is left.
LEMMA PageIsAll ==
  ASSUME Typed, NEW c \in Containers, job[c].kind = "window", Cardinality(Page(c)) # PageSize
  PROVE  Page(c) = job[c].todo
<1> DEFINE T == job[c].todo
           A == [s \in T |-> { t \in T : UpdatedBefore(t, s) }]
<1>1. T \in SUBSET Session /\ IsFiniteSet(Session) /\ Session \subseteq Int
  <2>1. T \subseteq Session
    BY DEF Typed, Jobs, JobTyped, Closed
  <2>2. IsFiniteSet(Session) /\ Session = 1 .. Len(visits)
    BY VisitTyped DEF Typed
  <2> QED
    BY <2>1, <2>2
<1>2. \A s \in T : sess[s].upd \in Int /\ s \in Int
  BY <1>1 DEF Typed, Rows, RowTyped
<1>3. IsFiniteSet(T)
  BY <1>1, FS_Subset
<1>4. /\ Page(c) \in SUBSET T
      /\ \A s \in T : s \in Page(c) <=> Cardinality({ t \in T : UpdatedBefore(t, s) }) < PageSize
  BY DEF Page
<1> HIDE DEF T
<1>5. \A s \in T : /\ A[s] = { t \in T : UpdatedBefore(t, s) }
                   /\ \A t \in T : t \in A[s] <=> UpdatedBefore(t, s)
                   /\ A[s] \in SUBSET T
  OBVIOUS
<1> HIDE DEF A
<1>6. \A s \in T : s \in Page(c) <=> Cardinality(A[s]) < PageSize
  BY <1>4, <1>5
<1>7. /\ \A s, t \in T : s # t => s \in A[t] \/ t \in A[s]
      /\ \A s \in T : s \notin A[s]
  BY <1>2, <1>5 DEF UpdatedBefore
<1>8. ASSUME NEW s \in T, NEW t \in T, NEW u \in T, s \in A[t], t \in A[u]
      PROVE  s \in A[u]
  <2>1. UpdatedBefore(s, t) /\ UpdatedBefore(t, u)
    BY <1>5, <1>8
  <2>2. UpdatedBefore(s, u)
    BY <1>2, <2>1 DEF UpdatedBefore
  <2> QED
    BY <1>5, <2>2
<1>9. \A s, t, u \in T : s \in A[t] /\ t \in A[u] => s \in A[u]
  BY <1>8
<1>10. \A s \in T : /\ A[s] \in SUBSET T
                    /\ s \notin A[s]
                    /\ s \in Page(c) <=> Cardinality(A[s]) < PageSize
  BY <1>5, <1>6, <1>7
<1>11. PageSize \in Nat \ {0}
  BY ScoringAssumption DEF ScoringAssumption
<1>12. Page(c) # T => Cardinality(Page(c)) = PageSize
  BY <1>3, <1>4, <1>7, <1>9, <1>10, <1>11, FirstOnes
<1> QED
  BY <1>12 DEF T

-----------------------------------------------------------------------------
(* The watermark. *)

\* The overlap is worth the replica's lag and what rounding adds to the offset.
OverlapSuffices == MeasuredOffset + MaxLag <= DbOffset + Overlap

Missed == hist.refused \cup hist.early

\* What a windowed pass has ahead of it before it may move the watermark.  Nothing
\* of it depends on the lock or on the watermark, which other passes may move.
WindowHolds(c) ==
  job[c].kind = "window" =>
    \A s \in Session :
      sess[s].status = "pending" /\ sess[s].upd < ToDbClock(job[c].at - Overlap) =>
        \/ s \in Missed
        \/ job[c].step = "page" /\ s \in job[c].todo
        \/ job[c].first /\ sess[s].upd < ToDbClock(job[c].at - FirstLookback)

CoverInv ==
  /\ WatermarkCovers
  /\ \A c \in Containers : WindowHolds(c)

LEMMA Offsets ==
  /\ MeasuredOffset \in Int
  /\ {DbOffset, Overlap, MaxLag, FirstLookback} \subseteq Nat
<1>1. DbOffset \in Nat /\ OffsetUnit \in Nat \ {0}
  BY ScoringAssumption DEF ScoringAssumption
<1>2. RoundHalfEven(DbOffset, OffsetUnit) \in Int
  BY <1>1 DEF RoundHalfEven
<1> QED
  BY <1>1, <1>2, ScoringAssumption DEF ScoringAssumption, MeasuredOffset

\* A step that makes no session pending and drops none of those already missed.
LEMMA CoverKept ==
  ASSUME Typed, CoverInv, UNCHANGED <<cast, watermark>>, hist'.early = hist.early, SameClosed,
         \A s \in Session : sess'[s].status = "pending" =>
           sess[s].status = "pending" /\ (s \in hist.refused => s \in hist'.refused)
  PROVE  /\ WatermarkCovers'
         /\ \A c \in Containers : job'[c] = job[c] \/ job'[c].kind # "window" => WindowHolds(c)'
<1>1. Session' = Session
  BY SameCast
<1>2. WatermarkCovers'
  BY <1>1 DEF CoverInv, WatermarkCovers, InNextWindow, SameClosed, ToDbClock
<1>3. ASSUME NEW c \in Containers, job'[c] = job[c] \/ job'[c].kind # "window"
      PROVE  WindowHolds(c)'
  BY <1>1, <1>3 DEF CoverInv, WindowHolds, Missed, SameClosed, ToDbClock
<1> QED
  BY <1>2, <1>3 DEF CoverInv

\* The steps that write no score, move no watermark and take up no session.
LEMMA QuietCovers ==
  ASSUME Typed, CoverInv, NEW c, UNCHANGED <<cast, watermark>>, hist'.early = hist.early,
         hist'.refused = hist.refused, SameClosed,
         \A s \in Session : sess'[s].status = sess[s].status,
         DOMAIN job = Containers, \A d \in Containers : d # c => job'[d] = job[d],
         c \in Containers => job'[c] = job[c] \/ job'[c].kind # "window"
  PROVE  CoverInv'
<1>1. \A d \in Containers : WindowHolds(d)'
  BY CoverKept
<1>2. WatermarkCovers'
  BY CoverKept
<1> QED
  BY <1>1, <1>2 DEF CoverInv

LEMMA CloseSessionCovers ==
  ASSUME OverlapSuffices, Typed, CoverInv, NEW s0 \in Session, CloseSession(s0)
  PROVE  CoverInv'
<1>1. /\ cast' = cast /\ watermark' = watermark /\ job' = job /\ hist' = hist /\ clock' = clock
      /\ sess[s0].status = "open"
      /\ sess' = [sess EXCEPT ![s0].status = "pending", ![s0].upd = DbClock(clock)]
  BY DEF CloseSession
<1>2. Session' = Session
  BY <1>1, SameCast
<1>3. /\ \A s \in Session : s # s0 => sess'[s] = sess[s]
      /\ sess'[s0].upd = DbClock(clock)
  BY <1>1 DEF Typed, Rows, RowTyped, Columns
<1>4. clock \in Int /\ (watermark # None => watermark \in Int /\ watermark <= clock)
  BY ScoringAssumption DEF ScoringAssumption, Typed, Clocks
<1>5. \A t \in Int : t <= clock => DbClock(clock) >= ToDbClock(t - Overlap)
  BY <1>4, Offsets DEF OverlapSuffices, DbClock, ToDbClock
<1>6. WatermarkCovers'
  <2>1. watermark # None => InNextWindow(s0)'
    BY <1>1, <1>3, <1>4, <1>5 DEF InNextWindow, ToDbClock
  <2>2. \A s \in Session : s # s0 => (InNextWindow(s)' <=> InNextWindow(s))
    BY <1>1, <1>3 DEF InNextWindow, ToDbClock
  <2> QED
    BY <1>1, <1>2, <1>3, <2>1, <2>2 DEF CoverInv, WatermarkCovers
<1>7. ASSUME NEW c \in Containers
      PROVE  WindowHolds(c)'
  <2>1. ASSUME job[c].kind = "window"
        PROVE  ~(sess'[s0].upd < ToDbClock(job[c].at - Overlap))
    <3>1. job[c].at \in Int /\ job[c].at <= clock
      BY <1>4, <2>1 DEF Typed, Jobs, JobTyped
    <3>2. DbClock(clock) >= ToDbClock(job[c].at - Overlap)
      BY <1>5, <3>1
    <3>3. DbClock(clock) \in Int /\ ToDbClock(job[c].at - Overlap) \in Int
      BY <1>4, <3>1, Offsets DEF DbClock, ToDbClock
    <3> QED
      BY <1>3, <3>2, <3>3
  <2>2. \A s \in Session : s # s0 => sess'[s] = sess[s]
    BY <1>3
  <2>3. WindowHolds(c)
    BY DEF CoverInv
  <2> QED
    BY <1>1, <1>2, <2>1, <2>2, <2>3 DEF WindowHolds, Missed, ToDbClock
<1> QED
  BY <1>1, <1>6, <1>7 DEF CoverInv

\* What is closed for longer than the overlap is in the window a pass starts with.
LEMMA EligibleSeen ==
  ASSUME OverlapSuffices, Typed, NEW r \in Readers, NEW s \in Session,
         sess[s].status # "open", sess[s].upd < ToDbClock(clock - Overlap),
         sess[s].upd >= ToDbClock(WindowStart(clock))
  PROVE  s \in EligibleSessions(r.sess, ToDbClock(WindowStart(clock)), ToDbClock(clock))
<1>1. clock \in Int /\ replica.at \in Int /\ clock <= replica.at + MaxLag
  BY ScoringAssumption DEF ScoringAssumption, Typed, Clocks
<1>2. sess[s].upd \in Int
  BY DEF Typed, Rows, RowTyped
<1>3. sess[s].upd < DbClock(replica.at) /\ sess[s].upd < ToDbClock(clock)
  BY <1>1, <1>2, Offsets DEF OverlapSuffices, DbClock, ToDbClock
<1>4. r.sess[s].status # "open" /\ r.sess[s].upd = sess[s].upd
  BY <1>3, ReaderBehind
<1> QED
  BY <1>3, <1>4 DEF EligibleSessions, Closed

LEMMA StartWindowCovers ==
  ASSUME OverlapSuffices, Typed, CoverInv, NEW c \in Containers, StartWindow(c)
  PROVE  CoverInv'
<1>1. PICK r \in Readers :
        LET todo == EligibleSessions(r.sess, ToDbClock(WindowStart(clock)), ToDbClock(clock))
        IN  Start(c, [Idle EXCEPT !.kind = "window", !.at = clock, !.first = watermark = None,
                                  !.thr = r.thr, !.todo = todo,
                                  !.step = IF todo = {} THEN "actors" ELSE "page"])
  BY DEF StartWindow
<1> DEFINE todo == EligibleSessions(r.sess, ToDbClock(WindowStart(clock)), ToDbClock(clock))
           pass == [Idle EXCEPT !.kind = "window", !.at = clock, !.first = watermark = None,
                                !.thr = r.thr, !.todo = todo,
                                !.step = IF todo = {} THEN "actors" ELSE "page"]
<1>2. Start(c, pass)
  BY <1>1
<1>3. /\ pass.kind = "window" /\ pass.at = clock /\ pass.todo = todo
      /\ pass.first = (watermark = None)
      /\ pass.step = IF todo = {} THEN "actors" ELSE "page"
  BY DEF Idle
<1> HIDE DEF pass
<1>4. /\ UNCHANGED <<clock, cast, sess, watermark>>
      /\ job' = [job EXCEPT ![c] = pass]
      /\ hist'.early = hist.early /\ hist'.refused = hist.refused
  BY <1>2 DEF Start, Typed, History
<1>5. job'[c] = pass /\ \A d \in Containers : d # c => job'[d] = job[d]
  BY <1>4 DEF Typed, Jobs
<1>6. Session' = Session /\ SameClosed
  BY <1>4, SameCast, SameRows
<1>7. /\ WatermarkCovers'
      /\ \A d \in Containers : d # c => WindowHolds(d)'
  BY <1>4, <1>5, <1>6, CoverKept
<1>8. clock \in Int
  BY ScoringAssumption DEF ScoringAssumption, Typed, Clocks
<1>9. ASSUME NEW s \in Session, sess[s].status = "pending", sess[s].upd < ToDbClock(clock - Overlap)
      PROVE  \/ s \in Missed
             \/ s \in todo
             \/ watermark = None /\ sess[s].upd < ToDbClock(clock - FirstLookback)
  <2>1. sess[s].upd \in Int
    BY DEF Typed, Rows, RowTyped
  <2>4. CASE sess[s].upd >= ToDbClock(WindowStart(clock))
    BY <1>9, <2>4, EligibleSeen
  <2>5. CASE ~(sess[s].upd >= ToDbClock(WindowStart(clock)))
    <3>1. CASE watermark = None
      <4>1. WindowStart(clock) = clock - FirstLookback
        BY <3>1 DEF WindowStart
      <4>2. ToDbClock(clock - FirstLookback) \in Int
        BY <1>8, Offsets DEF ToDbClock
      <4> QED
        BY <2>1, <2>5, <3>1, <4>1, <4>2
    <3>2. CASE watermark # None
      <4>1. WindowStart(clock) = watermark - Overlap
        BY <3>2 DEF WindowStart
      <4>2. ~InNextWindow(s)
        BY <2>5, <4>1 DEF InNextWindow
      <4> QED
        BY <1>9, <3>2, <4>2 DEF CoverInv, WatermarkCovers, Missed
    <3> QED
      BY <3>1, <3>2
  <2> QED
    BY <2>4, <2>5
<1> HIDE DEF todo
<1>10. WindowHolds(c)'
  BY <1>3, <1>4, <1>5, <1>6, <1>9 DEF WindowHolds, Missed, ToDbClock
<1> QED
  BY <1>7, <1>10 DEF CoverInv

\* What writing the scores of S leaves pending.
LEMMA StillPending ==
  ASSUME Typed, cast' = cast, NEW c \in Containers, NEW S \in SUBSET Closed(sess), WriteScores(c, S)
  PROVE  /\ SameClosed
         /\ \A s \in Session : sess'[s].status = "pending" => s \notin S /\ sess[s].status = "pending"
<1>1. SameClosed
  BY RowsWritten
<1>2. \A s \in Session : s \notin S => sess'[s] = sess[s]
  BY RowsWritten
<1>3. \A s \in S : sess'[s].status \in {"scored", "excluded"}
  BY RowsWritten
<1> QED
  BY <1>1, <1>2, <1>3

LEMMA PageClosed ==
  ASSUME Typed, NEW c \in Containers
  PROVE  /\ Page(c) \subseteq job[c].todo
         /\ Page(c) \subseteq Closed(sess) /\ Page(c) \subseteq Session
BY PageIn DEF Typed, Jobs, JobTyped, Closed

LEMMA ScorePageCovers ==
  ASSUME Typed, CoverInv, NEW c \in Containers, NEW failed, NEW unseen, ScorePage(c, failed, unseen)
  PROVE  CoverInv'
<1> DEFINE page == Page(c)
           ok == page \ failed
           breaks == job[c].kind = "window" /\ Cardinality(page) = PageSize
<1>1. /\ job[c].step = "page" /\ failed \subseteq page /\ unseen \subseteq failed
      /\ WriteScores(c, ok \cup unseen) /\ UNCHANGED <<cast, watermark>>
  BY DEF ScorePage
<1>2. IF breaks THEN Leave(c)
      ELSE job' = [job EXCEPT ![c].todo = @ \ page, ![c].touched = ActorsOf(ok), ![c].step = "actors"]
  BY DEF ScorePage
<1>3. /\ hist'.early = hist.early
      /\ hist'.refused = { s \in (hist.refused \cup failed) \ (ok \cup unseen) : sess[s].status = "pending" }
  BY DEF ScorePage, Typed, History
<1>4. page \subseteq job[c].todo /\ page \subseteq Closed(sess) /\ page \subseteq Session
  BY PageClosed
<1>5. ~breaks /\ job[c].kind = "window" => page = job[c].todo
  BY PageIsAll
<1> HIDE DEF page, breaks
<1>6. /\ SameClosed
      /\ \A s \in Session : sess'[s].status = "pending" =>
           s \notin ok \cup unseen /\ sess[s].status = "pending"
  <2>1. ok \cup unseen \in SUBSET Closed(sess)
    BY <1>1, <1>4
  <2> QED
    BY <1>1, <2>1, StillPending
<1>7. \A s \in Session : sess'[s].status = "pending" =>
        /\ sess[s].status = "pending"
        /\ s \in hist.refused => s \in hist'.refused
        /\ s \in page => s \in hist'.refused
  BY <1>1, <1>3, <1>6
<1>8. /\ WatermarkCovers'
      /\ \A d \in Containers : job'[d] = job[d] \/ job'[d].kind # "window" => WindowHolds(d)'
  BY <1>1, <1>3, <1>6, <1>7, CoverKept
<1>9. /\ DOMAIN job = Containers
      /\ DOMAIN job[c] = {"kind", "step", "at", "first", "thr", "todo", "touched", "cuts"}
  BY DEF Typed, Jobs, JobTyped
<1>10. ASSUME NEW d \in Containers
       PROVE  WindowHolds(d)'
  <2>1. CASE d # c
    <3>1. job'[d] = job[d]
      BY <1>2, <1>9, <2>1 DEF Leave
    <3> QED
      BY <1>8, <3>1
  <2>2. CASE d = c /\ breaks
    <3>1. job'[d].kind # "window"
      BY <1>2, <1>9, <2>2 DEF Leave, Idle
    <3> QED
      BY <1>8, <3>1
  <2>3. CASE d = c /\ ~breaks /\ job[c].kind = "window"
    <3>1. job'[c].at = job[c].at /\ job'[c].kind = job[c].kind /\ job'[c].first = job[c].first
      BY <1>2, <1>9, <2>3
    <3>2. Session' = Session
      BY <1>1, SameCast
    <3>3. WindowHolds(c)
      BY DEF CoverInv
    <3>4. ASSUME NEW s \in Session, sess'[s].status = "pending",
                 sess'[s].upd < ToDbClock(job[c].at - Overlap)
          PROVE  \/ s \in Missed'
                 \/ job[c].first /\ sess'[s].upd < ToDbClock(job[c].at - FirstLookback)
      <4>1. sess'[s].upd = sess[s].upd
        BY <1>6 DEF SameClosed
      <4>2. \/ s \in Missed
            \/ s \in page
            \/ job[c].first /\ sess[s].upd < ToDbClock(job[c].at - FirstLookback)
        BY <1>5, <1>7, <2>3, <3>3, <3>4, <4>1 DEF WindowHolds
      <4> QED
        BY <1>1, <1>3, <1>7, <3>4, <4>1, <4>2 DEF Missed
    <3> QED
      BY <2>3, <3>1, <3>2, <3>4 DEF WindowHolds, ToDbClock
  <2>4. CASE d = c /\ ~breaks /\ job[c].kind # "window"
    <3>1. job'[d].kind # "window"
      BY <1>2, <1>9, <2>4
    <3> QED
      BY <1>8, <3>1
  <2> QED
    BY <2>1, <2>2, <2>3, <2>4
<1> QED
  BY <1>8, <1>10 DEF CoverInv

LEMMA FailInPageCovers ==
  ASSUME Typed, CoverInv, NEW c \in Containers, NEW S, FailInPage(c, S)
  PROVE  CoverInv'
<1>1. /\ S \subseteq Page(c) /\ WriteScores(c, S) /\ UNCHANGED <<cast, watermark>> /\ Leave(c)
      /\ hist'.early = hist.early /\ hist'.refused = hist.refused
  BY DEF FailInPage, Typed, History
<1>2. /\ SameClosed
      /\ \A s \in Session : sess'[s].status = "pending" => s \notin S /\ sess[s].status = "pending"
  <2>1. S \in SUBSET Closed(sess)
    BY <1>1, PageClosed
  <2> QED
    BY <1>1, <2>1, StillPending
<1>3. \A d \in Containers : job'[d] = job[d] \/ job'[d].kind # "window"
  BY <1>1 DEF Leave, Idle, Typed, Jobs
<1> QED
  BY <1>1, <1>2, <1>3, CoverKept DEF CoverInv

LEMMA RecomputeCovers ==
  ASSUME Typed, CoverInv, NEW c \in Containers, RecomputeActors(c)
  PROVE  CoverInv'
<1>1. /\ job[c].step = "actors" /\ UNCHANGED <<cast, sess>>
      /\ watermark' = IF job[c].kind = "window" THEN job[c].at ELSE watermark
      /\ IF job[c].kind = "drain" /\ job[c].todo # {}
         THEN job' = [job EXCEPT ![c].touched = {}, ![c].step = "page"]
         ELSE job' = [job EXCEPT ![c] = Idle]
  BY DEF RecomputeActors, Leave
<1>2. /\ hist'.refused = hist.refused
      /\ hist'.early = hist.early \cup IF job[c].first THEN BeforeLookback(job[c].at) ELSE {}
  BY DEF RecomputeActors, Typed, History
<1>3. JobTyped(c) /\ DOMAIN job = Containers
  BY DEF Typed, Jobs
<1>4. job'[c].kind # "window" /\ \A d \in Containers : d # c => job'[d] = job[d]
  BY <1>1, <1>3 DEF JobTyped, Idle
<1>5. Session' = Session /\ Missed \subseteq Missed'
  BY <1>1, <1>2, SameCast DEF Missed
<1>6. ASSUME NEW d \in Containers
      PROVE  WindowHolds(d)'
  <2>1. CASE d = c
    BY <1>4, <2>1 DEF WindowHolds
  <2>2. CASE d # c
    <3>1. WindowHolds(d) /\ job'[d] = job[d]
      BY <1>4, <2>2 DEF CoverInv
    <3> QED
      BY <1>1, <1>5, <3>1 DEF WindowHolds, ToDbClock
  <2> QED
    BY <2>1, <2>2
<1>7. ASSUME NEW s \in Session, sess[s].status = "pending", job[c].kind = "window"
      PROVE  InNextWindow(s)' \/ s \in Missed'
  <2>1. watermark' = job[c].at /\ job[c].at # None
    <3>1. job[c].at \in Int
      BY <1>3, <1>7 DEF JobTyped
    <3>2. None \notin Int
      BY FormulasAssumption DEF FormulasAssumption
    <3> QED
      BY <1>1, <1>7, <3>1, <3>2
  <2>2. sess[s].upd \in Int /\ ToDbClock(job[c].at - Overlap) \in Int
    BY <1>3, <1>7, Offsets DEF Typed, Rows, RowTyped, JobTyped, ToDbClock
  <2>3. CASE sess[s].upd >= ToDbClock(job[c].at - Overlap)
    BY <1>1, <2>1, <2>3 DEF InNextWindow, ToDbClock
  <2>4. CASE sess[s].upd < ToDbClock(job[c].at - Overlap)
    <3>1. WindowHolds(c)
      BY DEF CoverInv
    <3>2. s \in Missed \/ (job[c].first /\ sess[s].upd < ToDbClock(job[c].at - FirstLookback))
      BY <1>1, <1>7, <2>4, <3>1 DEF WindowHolds
    <3>3. s \in Closed(sess)
      BY <1>7 DEF Closed
    <3> QED
      BY <1>2, <1>5, <3>2, <3>3 DEF Missed, BeforeLookback
  <2> QED
    BY <2>2, <2>3, <2>4
<1>8. WatermarkCovers'
  <2>1. CASE job[c].kind = "window"
    BY <1>1, <1>5, <1>7, <2>1 DEF WatermarkCovers, Missed
  <2>2. CASE job[c].kind # "window"
    <3>1. watermark' = watermark
      BY <1>1, <2>2
    <3>2. WatermarkCovers
      BY DEF CoverInv
    <3> QED
      BY <1>1, <1>2, <1>5, <3>1, <3>2 DEF WatermarkCovers, InNextWindow, ToDbClock
  <2> QED
    BY <2>1, <2>2
<1> QED
  BY <1>6, <1>8 DEF CoverInv

\* Starting and ending a pass.
LEMMA StartQuiet ==
  ASSUME Typed, CoverInv, NEW c \in Containers, NEW pass, Start(c, pass), pass.kind # "window"
  PROVE  CoverInv'
<1>1. /\ UNCHANGED <<cast, sess, watermark>> /\ job' = [job EXCEPT ![c] = pass]
      /\ hist'.early = hist.early /\ hist'.refused = hist.refused
  BY DEF Start, Typed, History
<1>2. SameClosed
  BY <1>1, SameRows
<1>3. DOMAIN job = Containers
  BY DEF Typed, Jobs
<1>4. job'[c].kind # "window" /\ \A d \in Containers : d # c => job'[d] = job[d]
  BY <1>1, <1>3
<1> QED
  BY <1>1, <1>2, <1>3, <1>4, QuietCovers

LEMMA LeaveQuiet ==
  ASSUME Typed, CoverInv, NEW c \in Containers, Leave(c), UNCHANGED <<cast, sess, watermark>>,
         hist'.early = hist.early, hist'.refused = hist.refused
  PROVE  CoverInv'
<1>1. SameClosed
  BY SameRows
<1>2. DOMAIN job = Containers
  BY DEF Typed, Jobs
<1>3. job'[c].kind # "window" /\ \A d \in Containers : d # c => job'[d] = job[d]
  BY <1>2 DEF Leave, Idle
<1> QED
  BY <1>1, <1>2, <1>3, QuietCovers

LEMMA QuietSteps ==
  ASSUME Typed, CoverInv, NEW c \in Containers,
         \/ StartDrain(c) \/ StartCalibration(c) \/ DrainStops(c) \/ Fail(c)
  PROVE  CoverInv'
<1>1. CASE StartDrain(c)
  <2>1. PICK r, todo : Start(c, [Idle EXCEPT !.kind = "drain", !.thr = r.thr, !.todo = todo, !.step = "page"])
    BY <1>1 DEF StartDrain
  <2>2. [Idle EXCEPT !.kind = "drain", !.thr = r.thr, !.todo = todo, !.step = "page"].kind # "window"
    BY DEF Idle
  <2> QED
    BY <2>1, <2>2, StartQuiet
<1>2. CASE StartCalibration(c)
  <2>1. PICK at, cuts : Start(c, [Idle EXCEPT !.kind = "calibration", !.step = "thresholds",
                                              !.at = at, !.cuts = cuts])
    BY <1>2 DEF StartCalibration
  <2>2. [Idle EXCEPT !.kind = "calibration", !.step = "thresholds", !.at = at, !.cuts = cuts].kind # "window"
    BY DEF Idle
  <2> QED
    BY <2>1, <2>2, StartQuiet
<1>3. CASE DrainStops(c)
  <2>1. Leave(c) /\ UNCHANGED <<cast, sess, watermark, hist>>
    BY <1>3 DEF DrainStops
  <2> QED
    BY <2>1, LeaveQuiet
<1>4. CASE Fail(c)
  <2>1. /\ Leave(c) /\ UNCHANGED <<cast, sess, watermark>>
        /\ hist'.early = hist.early /\ hist'.refused = hist.refused
    BY <1>4 DEF Fail, Typed, History
  <2> QED
    BY <2>1, LeaveQuiet
<1> QED
  BY <1>1, <1>2, <1>3, <1>4

LEMMA CalibrationCovers ==
  ASSUME Typed, CoverInv, NEW c \in Containers, WriteThresholds(c) \/ ReassignBuckets(c)
  PROVE  CoverInv'
<1>1. /\ UNCHANGED <<cast, watermark>>
      /\ hist'.early = hist.early /\ hist'.refused = hist.refused
      /\ \E step : job' = [job EXCEPT ![c].step = step]
      /\ job[c].step \in {"thresholds", "reassign"}
  BY DEF WriteThresholds, ReassignBuckets, Typed, History
<1>2. SameClosed /\ \A s \in Session : sess'[s].status = sess[s].status
  <2>1. CASE WriteThresholds(c)
    BY <1>1, <2>1, SameRows DEF WriteThresholds
  <2>2. CASE ReassignBuckets(c)
    BY <2>2, RowsReassigned
  <2> QED
    BY <2>1, <2>2
<1>3. DOMAIN job = Containers /\ JobTyped(c)
  BY DEF Typed, Jobs
<1>4. job[c].kind # "window"
  BY <1>1, <1>3 DEF JobTyped, Steps
<1>5. job'[c].kind # "window" /\ \A d \in Containers : d # c => job'[d] = job[d]
  BY <1>1, <1>3, <1>4 DEF JobTyped
<1> QED
  BY <1>1, <1>2, <1>3, <1>5, QuietCovers

LEMMA TickCovers ==
  ASSUME Typed, CoverInv, UNCHANGED <<cast, sess, watermark, job, hist>>
  PROVE  CoverInv'
<1>1. SameClosed /\ DOMAIN job = Containers
  BY SameRows DEF Typed, Jobs
<1> QED
  BY <1>1, QuietCovers

LEMMA CoverStep ==
  ASSUME OverlapSuffices, Typed, CoverInv, [Next]_vars
  PROVE  CoverInv'
<1>1. CASE UNCHANGED vars
  BY <1>1, TickCovers DEF vars
<1>2. CASE Tick
  BY <1>2, TickCovers DEF Tick
<1>3. ASSUME NEW s \in Session, CloseSession(s)
      PROVE  CoverInv'
  BY <1>3, CloseSessionCovers
<1>4. ASSUME NEW c \in Containers,
             \/ StartWindow(c)
             \/ StartDrain(c)
             \/ StartCalibration(c)
             \/ \E failed, unseen : ScorePage(c, failed, unseen)
             \/ RecomputeActors(c)
             \/ WriteThresholds(c)
             \/ ReassignBuckets(c)
             \/ DrainStops(c)
             \/ Fail(c)
             \/ \E S : FailInPage(c, S)
      PROVE  CoverInv'
  BY <1>4, StartWindowCovers, QuietSteps, ScorePageCovers, RecomputeCovers, CalibrationCovers,
     FailInPageCovers
<1> QED
  BY <1>1, <1>2, <1>3, <1>4 DEF Next

LEMMA CoverInit ==
  ASSUME Init
  PROVE  CoverInv
<1>1. /\ watermark = None /\ job = [c \in Containers |-> Idle]
      /\ hist = [early |-> {}, refused |-> {}, lost |-> {}, stale |-> {},
               overlapped |-> FALSE, crossed |-> FALSE]
  BY DEF Init
<1> QED
  BY <1>1 DEF CoverInv, WatermarkCovers, WindowHolds, Idle

\* The watermark leaves no closed session behind: a session not scored yet is in
\* the window of the next pass, or a pass reported that it failed on it, or it was
\* closed before the first window.  It takes an overlap that is worth the lag of
\* the replica and what rounding adds to the measured offset of the clocks.
THEOREM WatermarkAlwaysCovers ==
  ASSUME OverlapSuffices
  PROVE  Spec => []WatermarkCovers
<1>1. Init => CoverInv
  BY CoverInit
<1>2. Typed /\ CoverInv /\ [Next]_vars => CoverInv'
  BY CoverStep
<1>3. CoverInv => WatermarkCovers
  BY DEF CoverInv
<1> QED
  BY <1>1, <1>2, <1>3, TypedAlways, PTL DEF Spec
=============================================================================
