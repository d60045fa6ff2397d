-------------------------- MODULE ScoringRowsProofs --------------------------
(***************************************************************************)
(* Proofs about the rows IntentScoring leaves behind, for any containers,    *)
(* visitor histories and bounds: an actor whose row is out of date is about  *)
(* to be recomputed, and a session of a calibrated day is in the bucket its  *)
(* day's thresholds give.                                                    *)
(***************************************************************************)
EXTENDS IntentScoringProofs

Scorable(s) == ~(Bot(visits[s]) \/ ZeroSignal(visits[s]))

\* Scored, or found not to be worth it.
Settled(s) == sess[s].status \in {"scored", "excluded"}

\* Scoring a session again gives the verdict it has.
Verdicts == \A s \in Session : Settled(s) => (sess[s].status = "scored" <=> Scorable(s))

\* Unless passes have run side by side, one container at most is in a pass.
AtMostOne ==
  \A c, d \in Containers : job[c].kind # "idle" /\ job[d].kind # "idle" => c = d

Again(a) == \E s \in Session : visits[s].actor = a /\ Settled(s) /\ InNextWindow(s)

Covered(a) == \E c \in Containers : job[c].step = "actors" /\ a \in Affected(c)

Revisited(a) == a \in hist.lost \/ ActorCurrent(a) \/ Covered(a) \/ Again(a)

\* An actor with a settled session in the window after the one of c.
After(c, a) ==
  \E t \in Session : visits[t].actor = a /\ Settled(t) /\ sess[t].upd >= ToDbClock(job[c].at - Overlap)

WindowKeeps(c) ==
  job[c].kind = "window" =>
    /\ watermark # None => /\ \A s \in job[c].todo : InNextWindow(s)
                           /\ \A a \in job[c].touched : Again(a)
    /\ \A a \in Actor :
         \/ a \in hist.lost
         \/ ActorCurrent(a)
         \/ job[c].step = "actors" /\ a \in job[c].touched
         \/ job[c].step = "page" /\ \E t \in job[c].todo : visits[t].actor = a /\ Settled(t)
         \/ After(c, a)

StaleInv ==
  /\ Verdicts
  /\ ~hist.overlapped => /\ AtMostOne
                         /\ \A a \in Actor : Revisited(a)
                         /\ \A c \in Containers : WindowKeeps(c)

-----------------------------------------------------------------------------
(* What an actor's row depends on. *)

\* For the sessions of a, nothing changes that recompute_actors reads.
SameFor(a) ==
  \A s \in Session : visits[s].actor = a =>
    /\ sess'[s].status \in {"open", "pending"} <=> sess[s].status \in {"open", "pending"}
    /\ sess'[s].status = "scored" <=> sess[s].status = "scored"
    /\ sess[s].status = "scored" => sess'[s].score = sess[s].score /\ sess'[s].bucket = sess[s].bucket

LEMMA RowsKept ==
  ASSUME cast' = cast, NEW a, SameFor(a)
  PROVE  ActorRows(a)' = ActorRows(a)
<1>0. Session' = Session /\ visits' = visits
  BY SameCast
<1>1. PICK mine : mine = ScoredOf(a)
  OBVIOUS
<1>2. ScoredOf(a)' = mine
  BY <1>0, <1>1 DEF ScoredOf, SameFor
<1>3. \A s \in mine : sess'[s].score = sess[s].score /\ sess'[s].bucket = sess[s].bucket
  BY <1>1 DEF ScoredOf, SameFor
<1>4. PICK best : best = { s \in mine : \A t \in mine : sess[s].score >= sess[t].score }
  OBVIOUS
<1>5. { s \in mine : \A t \in mine : sess'[s].score >= sess'[t].score } = best
  BY <1>3, <1>4
<1>6. best \subseteq mine
  BY <1>4
<1>7. { [score |-> sess'[s].score, bucket |-> sess'[s].bucket, best |-> s, count |-> Cardinality(mine)] : s \in best }
      = { [score |-> sess[s].score, bucket |-> sess[s].bucket, best |-> s, count |-> Cardinality(mine)] : s \in best }
  BY <1>3, <1>6
<1>8. ActorRows(a) =
        IF mine = {}
        THEN {[score |-> None, bucket |-> None, best |-> None, count |-> 0]}
        ELSE { [score |-> sess[s].score, bucket |-> sess[s].bucket, best |-> s, count |-> Cardinality(mine)] : s \in best }
  BY <1>1, <1>4, Zenon DEF ActorRows
<1>9. ActorRows(a)' =
        IF mine = {}
        THEN {[score |-> None, bucket |-> None, best |-> None, count |-> 0]}
        ELSE { [score |-> sess'[s].score, bucket |-> sess'[s].bucket, best |-> s, count |-> Cardinality(mine)] : s \in best }
  BY <1>2, <1>5, Zenon DEF ActorRows
<1> QED
  BY <1>7, <1>8, <1>9, Zenon

LEMMA CurrentKept ==
  ASSUME cast' = cast, NEW a, SameFor(a), actors'[a] = actors[a], ActorCurrent(a)
  PROVE  ActorCurrent(a)'
<1>0. Session' = Session /\ visits' = visits
  BY SameCast
<1>1. ActorRows(a)' = ActorRows(a)
  BY RowsKept
<1> QED
  BY <1>0, <1>1 DEF ActorCurrent, SameFor

LEMMA RecomputedCurrent ==
  ASSUME cast' = cast, NEW a, SameFor(a), actors'[a] \in ActorRows(a)
  PROVE  ActorCurrent(a)'
BY RowsKept DEF ActorCurrent

\* Settled sessions stay settled, with the time they were closed.
StillSettled ==
  \A s \in Session : Settled(s) => /\ sess'[s].status \in {"scored", "excluded"}
                                   /\ sess'[s].upd = sess[s].upd

LEMMA AgainKept ==
  ASSUME UNCHANGED <<cast, watermark>>, StillSettled, NEW a, Again(a)
  PROVE  Again(a)'
<1>0. Session' = Session /\ visits' = visits
  BY SameCast
<1> QED
  BY <1>0 DEF Again, Settled, StillSettled, InNextWindow, ToDbClock

LEMMA AfterKept ==
  ASSUME cast' = cast, StillSettled, NEW c, NEW a, job'[c].at = job[c].at, After(c, a)
  PROVE  After(c, a)'
<1>0. Session' = Session /\ visits' = visits
  BY SameCast
<1> QED
  BY <1>0 DEF After, Settled, StillSettled, ToDbClock

-----------------------------------------------------------------------------
(* Steps that change no row. *)

LEMMA SameAll ==
  ASSUME Typed, UNCHANGED <<cast, sess, actors, watermark>>
  PROVE  /\ Session' = Session /\ Actor' = Actor /\ visits' = visits
         /\ StillSettled
         /\ \A a \in Actor : SameFor(a)
         /\ Verdicts => Verdicts'
         /\ \A a \in Actor : ActorCurrent(a) => ActorCurrent(a)'
         /\ \A a \in Actor : Again(a) => Again(a)'
         /\ \A c \in Containers : job'[c] = job[c] => Affected(c)' = Affected(c)
<1>1. Session' = Session /\ Actor' = Actor /\ visits' = visits
  BY SameCast
<1>2. StillSettled /\ \A a \in Actor : SameFor(a)
  BY DEF StillSettled, Settled, SameFor
<1>3. Verdicts => Verdicts'
  BY <1>1 DEF Verdicts, Settled, Scorable
<1>4. \A a \in Actor : ActorCurrent(a) => ActorCurrent(a)'
  BY <1>2, CurrentKept
<1>5. \A a \in Actor : Again(a) => Again(a)'
  BY <1>2, AgainKept
<1>6. ASSUME NEW c \in Containers, job'[c] = job[c]
      PROVE  Affected(c)' = Affected(c)
  BY <1>1, <1>6 DEF Affected, ActorsOf, SessionDay
<1> QED
  BY <1>1, <1>2, <1>3, <1>4, <1>5, <1>6

\* The pass of c ends, or none does (c is no container then).
LEMMA StaleQuiet ==
  ASSUME Typed, StaleInv, NEW c, UNCHANGED <<cast, sess, actors, watermark>>,
         \A d \in Containers : d # c => job'[d] = job[d],
         c \in Containers => job'[c] = Idle,
         hist'.overlapped = hist.overlapped, hist.lost \subseteq hist'.lost,
         c \in Containers /\ job[c].step = "actors" => Forgotten(c, Affected(c)) \subseteq hist'.lost
  PROVE  StaleInv'
<1>1. /\ Session' = Session /\ Actor' = Actor /\ visits' = visits
      /\ StillSettled /\ Verdicts'
      /\ \A a \in Actor : ActorCurrent(a) => ActorCurrent(a)'
      /\ \A a \in Actor : Again(a) => Again(a)'
      /\ \A d \in Containers : job'[d] = job[d] => Affected(d)' = Affected(d)
  BY SameAll DEF StaleInv
<1>2. SUFFICES ASSUME ~hist'.overlapped
               PROVE  /\ AtMostOne'
                      /\ \A a \in Actor : Revisited(a)'
                      /\ \A d \in Containers : WindowKeeps(d)'
  BY <1>1 DEF StaleInv
<1>3. AtMostOne /\ (\A a \in Actor : Revisited(a)) /\ (\A d \in Containers : WindowKeeps(d))
  BY <1>2 DEF StaleInv
<1>4. AtMostOne'
  BY <1>3 DEF AtMostOne, Idle
<1>5. ASSUME NEW a \in Actor
      PROVE  Revisited(a)'
  <2>1. Revisited(a)
    BY <1>3
  <2>2. CASE a \in hist.lost \/ ActorCurrent(a) \/ Again(a)
    BY <1>1, <2>2 DEF Revisited
  <2>3. ASSUME NEW d \in Containers, job[d].step = "actors", a \in Affected(d), d # c
        PROVE  Revisited(a)'
    BY <1>1, <2>3 DEF Revisited, Covered
  <2>4. ASSUME c \in Containers, job[c].step = "actors", a \in Affected(c)
        PROVE  Revisited(a)'
    <3>1. CASE job[c].kind = "window" /\ watermark # None
      <4>1. a \in job[c].touched
        BY <2>4, <3>1 DEF Affected
      <4>2. Again(a)
        BY <1>3, <2>4, <3>1, <4>1 DEF WindowKeeps
      <4> QED
        BY <1>1, <4>2 DEF Revisited
    <3>2. CASE ~(job[c].kind = "window" /\ watermark # None)
      <4>1. a \in Forgotten(c, Affected(c))
        BY <2>4, <3>2 DEF Forgotten
      <4> QED
        BY <2>4, <4>1 DEF Revisited
    <3> QED
      BY <3>1, <3>2
  <2> QED
    BY <2>1, <2>2, <2>3, <2>4 DEF Revisited, Covered
<1>6. ASSUME NEW d \in Containers
      PROVE  WindowKeeps(d)'
  <2>1. CASE d = c
    BY <2>1 DEF WindowKeeps, Idle
  <2>2. CASE d # c
    <3>1. job'[d] = job[d] /\ WindowKeeps(d)
      BY <1>3, <2>2
    <3>2. \A a \in Actor : After(d, a) => After(d, a)'
      BY <1>1, <3>1, AfterKept
    <3>3. \A s \in Session : InNextWindow(s) => InNextWindow(s)'
      BY DEF InNextWindow, ToDbClock
    <3>4. \A a \in job[d].touched : a \in Actor
      BY DEF Typed, Jobs, JobTyped
    <3>5. job[d].todo \subseteq Session
      BY DEF Typed, Jobs, JobTyped, Closed
    <3>6. \A t \in Session : Settled(t) => Settled(t)'
      BY DEF Settled
    <3> QED
      BY <1>1, <3>1, <3>2, <3>3, <3>4, <3>5, <3>6 DEF WindowKeeps
  <2> QED
    BY <2>1, <2>2
<1> QED
  BY <1>4, <1>5, <1>6

LEMMA StaleCloseSession ==
  ASSUME Typed, StaleInv, NEW s0 \in Session, CloseSession(s0)
  PROVE  StaleInv'
<1>1. /\ UNCHANGED <<cast, actors, watermark, job, hist>>
      /\ sess[s0].status = "open"
      /\ sess' = [sess EXCEPT ![s0].status = "pending", ![s0].upd = DbClock(clock)]
  BY DEF CloseSession
<1>2. /\ \A s \in Session : s # s0 => sess'[s] = sess[s]
      /\ sess'[s0].status = "pending"
  BY <1>1 DEF Typed, Rows, RowTyped, Columns
<1>3. Session' = Session /\ Actor' = Actor /\ visits' = visits
  BY <1>1, SameCast
<1>4. StillSettled /\ (\A a \in Actor : SameFor(a)) /\ (\A s \in Session : Settled(s)' <=> Settled(s))
  BY <1>1, <1>2 DEF StillSettled, SameFor, Settled
<1>5. Verdicts'
  BY <1>1, <1>2, <1>3, <1>4 DEF StaleInv, Verdicts, Scorable, Settled
<1>6. \A a \in Actor : /\ ActorCurrent(a) => ActorCurrent(a)'
                       /\ Again(a) => Again(a)'
                       /\ \A c \in Containers : After(c, a) => After(c, a)'
  BY <1>1, <1>4, CurrentKept, AgainKept, AfterKept
<1>7. \A c \in Containers : Affected(c)' = Affected(c)
  <2>1. \A s \in Session : sess'[s].status = "scored" <=> sess[s].status = "scored"
    BY <1>1, <1>2
  <2> QED
    BY <1>1, <1>3, <2>1 DEF Affected, ActorsOf, SessionDay
<1>8. SUFFICES ASSUME ~hist.overlapped
               PROVE  /\ AtMostOne'
                      /\ \A a \in Actor : Revisited(a)'
                      /\ \A d \in Containers : WindowKeeps(d)'
  BY <1>1, <1>3, <1>5 DEF StaleInv
<1>9. AtMostOne /\ (\A a \in Actor : Revisited(a)) /\ (\A d \in Containers : WindowKeeps(d))
  BY <1>8 DEF StaleInv
<1>10. AtMostOne'
  BY <1>1, <1>9 DEF AtMostOne
<1>11. ASSUME NEW a \in Actor
       PROVE  Revisited(a)'
  BY <1>1, <1>6, <1>7, <1>9 DEF Revisited, Covered
<1>12. ASSUME NEW d \in Containers
       PROVE  WindowKeeps(d)'
  <2>1. WindowKeeps(d)
    BY <1>9
  <2>2. \A s \in job[d].todo : s \in Session /\ s # s0
    BY <1>1 DEF Typed, Jobs, JobTyped, Closed
  <2>3. \A s \in job[d].todo : InNextWindow(s) => InNextWindow(s)'
    BY <1>1, <1>2, <2>2 DEF InNextWindow, ToDbClock
  <2>4. \A a \in job[d].touched : a \in Actor
    BY DEF Typed, Jobs, JobTyped
  <2> QED
    BY <1>1, <1>3, <1>4, <1>6, <2>1, <2>2, <2>3, <2>4 DEF WindowKeeps
<1> QED
  BY <1>10, <1>11, <1>12

\* A pass starts that another container's pass does not overlap with.
LEMMA StartAlone ==
  ASSUME Typed, NEW c \in Containers, NEW pass, Start(c, pass),
         pass.kind \in {"window", "drain", "calibration"}, pass.kind # "calibration" => TakeLock(c),
         ~hist'.overlapped
  PROVE  /\ ~hist.overlapped
         /\ \A d \in Containers : job[d].kind = "idle"
         /\ job'[c] = pass /\ \A d \in Containers : d # c => job'[d] = job[d]
         /\ AtMostOne'
<1>1. /\ job[c] = Idle /\ job' = [job EXCEPT ![c] = pass]
      /\ hist' = [hist EXCEPT !.overlapped = @ \/ Beside(c, pass.kind),
                              !.crossed = @ \/ Crossing(c, pass.kind)]
  BY DEF Start
<1>2. ~hist.overlapped /\ ~Beside(c, pass.kind)
  <2>1. hist'.overlapped = (hist.overlapped \/ Beside(c, pass.kind))
    BY <1>1 DEF Typed, History
  <2> QED
    BY <2>1
<1>4. ASSUME NEW d \in Containers
      PROVE  job[d].kind = "idle"
  <2>1. CASE d = c
    BY <1>1, <2>1 DEF Idle
  <2>2. CASE d # c
    <3>1. job[d].kind # "idle" => "calibration" \notin {pass.kind, job[d].kind} /\ ~Unguarded(c, d)
      BY <1>2, <2>2 DEF Beside
    <3>2. TakeLock(c) => Unguarded(c, d)
      BY <2>2, ScoringAssumption DEF TakeLock, Unguarded, ScoringAssumption
    <3> QED
      BY <3>1, <3>2
  <2> QED
    BY <2>1, <2>2
<1>5. job'[c] = pass /\ \A d \in Containers : d # c => job'[d] = job[d]
  BY <1>1 DEF Typed, Jobs
<1>6. AtMostOne'
  BY <1>4, <1>5 DEF AtMostOne
<1> QED
  BY <1>2, <1>4, <1>5, <1>6

LEMMA StaleStart ==
  ASSUME Typed, StaleInv, NEW c \in Containers, NEW pass, Start(c, pass),
         pass.kind \in {"drain", "calibration"}, pass.kind # "calibration" => TakeLock(c)
  PROVE  StaleInv'
<1>1. UNCHANGED <<cast, sess, actors, watermark>> /\ hist'.lost = hist.lost
  BY DEF Start, Typed, History
<1>2. /\ Verdicts' /\ Actor' = Actor
      /\ \A a \in Actor : ActorCurrent(a) => ActorCurrent(a)'
      /\ \A a \in Actor : Again(a) => Again(a)'
  BY <1>1, SameAll DEF StaleInv
<1>3. SUFFICES ASSUME ~hist'.overlapped
               PROVE  /\ AtMostOne'
                      /\ \A a \in Actor : Revisited(a)'
                      /\ \A d \in Containers : WindowKeeps(d)'
  BY <1>2 DEF StaleInv
<1>4. /\ ~hist.overlapped
      /\ \A d \in Containers : job[d].kind = "idle"
      /\ job'[c] = pass /\ \A d \in Containers : d # c => job'[d] = job[d]
      /\ AtMostOne'
  BY <1>3, StartAlone
<1>5. \A d \in Containers : job[d].step = "idle"
  BY <1>4 DEF Typed, Jobs, JobTyped, Steps
<1>6. ASSUME NEW a \in Actor
      PROVE  Revisited(a)'
  <2>1. Revisited(a) /\ ~Covered(a)
    BY <1>4, <1>5 DEF StaleInv, Covered
  <2> QED
    BY <1>1, <1>2, <2>1 DEF Revisited
<1>7. \A d \in Containers : job'[d].kind # "window"
  BY <1>4
<1> QED
  BY <1>4, <1>6, <1>7 DEF WindowKeeps

LEMMA StaleStartWindow ==
  ASSUME OverlapSuffices, Typed, StaleInv, NEW c \in Containers, StartWindow(c)
  PROVE  StaleInv'
<1>1. PICK r \in Readers :
        LET todo == EligibleSessions(r.sess, ToDbClock(WindowStart(clock)), ToDbClock(clock))
        IN  Start(c, [Idle EXCEPT !.kind = "window", !.at = clock, !.first = watermark = None,
                                  !.thr = r.thr, !.todo = todo,
                                  !.step = IF todo = {} THEN "actors" ELSE "page"])
  BY DEF StartWindow
<1> DEFINE todo == EligibleSessions(r.sess, ToDbClock(WindowStart(clock)), ToDbClock(clock))
           pass == [Idle EXCEPT !.kind = "window", !.at = clock, !.first = watermark = None,
                                !.thr = r.thr, !.todo = todo,
                                !.step = IF todo = {} THEN "actors" ELSE "page"]
<1>2. Start(c, pass) /\ TakeLock(c)
  BY <1>1 DEF StartWindow
<1>3. /\ pass.kind = "window" /\ pass.at = clock /\ pass.todo = todo /\ pass.touched = {}
      /\ pass.step = IF todo = {} THEN "actors" ELSE "page"
  BY DEF Idle
<1> HIDE DEF pass
<1>4. UNCHANGED <<cast, sess, actors, watermark>> /\ hist'.lost = hist.lost
  BY <1>2 DEF Start, Typed, History
<1>5. /\ Session' = Session /\ Actor' = Actor /\ visits' = visits /\ Verdicts'
      /\ \A a \in Actor : ActorCurrent(a) => ActorCurrent(a)'
      /\ \A a \in Actor : Again(a) => Again(a)'
  BY <1>4, SameAll DEF StaleInv
<1>6. SUFFICES ASSUME ~hist'.overlapped
               PROVE  /\ AtMostOne'
                      /\ \A a \in Actor : Revisited(a)'
                      /\ \A d \in Containers : WindowKeeps(d)'
  BY <1>5 DEF StaleInv
<1>7. /\ ~hist.overlapped
      /\ \A d \in Containers : job[d].kind = "idle"
      /\ job'[c] = pass /\ \A d \in Containers : d # c => job'[d] = job[d]
      /\ AtMostOne'
  BY <1>2, <1>3, <1>6, StartAlone
<1>8. \A d \in Containers : job[d].step = "idle"
  BY <1>7 DEF Typed, Jobs, JobTyped, Steps
<1>9. \A a \in Actor : a \in hist.lost \/ ActorCurrent(a) \/ Again(a)
  BY <1>7, <1>8 DEF StaleInv, Revisited, Covered
<1>10. \A a \in Actor : Revisited(a)'
  BY <1>4, <1>5, <1>9 DEF Revisited
<1>11. ASSUME watermark # None, NEW s \in Session
       PROVE  /\ s \in todo => InNextWindow(s)
              /\ Settled(s) /\ InNextWindow(s) /\ ~(sess[s].upd >= ToDbClock(clock - Overlap)) => s \in todo
  <2>1. WindowStart(clock) = watermark - Overlap
    BY <1>11 DEF WindowStart
  <2>2. s \in todo => r.sess[s].status # "open" /\ r.sess[s].upd >= ToDbClock(WindowStart(clock))
    BY DEF EligibleSessions, Closed
  <2>3. r.sess[s].status # "open" => r.sess[s].upd = sess[s].upd
    BY ReaderBehind
  <2>4. s \in todo => InNextWindow(s)
    BY <1>11, <2>1, <2>2, <2>3 DEF InNextWindow
  <2>5. ASSUME Settled(s), InNextWindow(s), ~(sess[s].upd >= ToDbClock(clock - Overlap))
        PROVE  s \in todo
    <3>1. sess[s].status # "open" /\ sess[s].upd >= ToDbClock(WindowStart(clock))
      BY <2>1, <2>5 DEF Settled, InNextWindow
    <3>2. sess[s].upd \in Int /\ clock \in Int
      BY ScoringAssumption DEF ScoringAssumption, Typed, Rows, RowTyped, Clocks
    <3>3. ToDbClock(clock - Overlap) \in Int
      BY <3>2, Offsets DEF ToDbClock
    <3>4. sess[s].upd < ToDbClock(clock - Overlap)
      BY <2>5, <3>2, <3>3
    <3> QED
      BY <3>1, <3>4, EligibleSeen
  <2> QED
    BY <2>4, <2>5
<1>12. todo \subseteq Session
  BY DEF EligibleSessions, Closed
<1> HIDE DEF todo
<1>13. WindowKeeps(c)'
  <2>1. watermark # None => \A s \in todo : InNextWindow(s)'
    <3>1. \A s \in Session : InNextWindow(s)' <=> InNextWindow(s)
      BY <1>4 DEF InNextWindow, ToDbClock
    <3> QED
      BY <1>11, <1>12, <3>1
  <2>2. ASSUME NEW a \in Actor
        PROVE  \/ a \in hist'.lost
               \/ ActorCurrent(a)'
               \/ pass.step = "page" /\ \E t \in todo : visits'[t].actor = a /\ Settled(t)'
               \/ After(c, a)'
    <3>1. CASE a \in hist.lost \/ ActorCurrent(a)
      BY <1>4, <1>5, <3>1
    <3>2. CASE Again(a)
      <4>1. PICK t \in Session : visits[t].actor = a /\ Settled(t) /\ InNextWindow(t)
        BY <3>2 DEF Again
      <4>2. watermark # None
        BY <4>1 DEF InNextWindow
      <4>3. CASE sess[t].upd >= ToDbClock(clock - Overlap)
        BY <1>3, <1>4, <1>5, <1>7, <4>1, <4>3 DEF After, Settled, ToDbClock
      <4>4. CASE ~(sess[t].upd >= ToDbClock(clock - Overlap))
        <5>1. t \in todo
          BY <1>11, <4>1, <4>2, <4>4
        <5> QED
          BY <1>3, <1>4, <1>5, <4>1, <5>1 DEF Settled
      <4> QED
        BY <4>3, <4>4
    <3> QED
      BY <1>9, <3>1, <3>2
  <2> QED
    BY <1>3, <1>4, <1>5, <1>7, <2>1, <2>2 DEF WindowKeeps
<1>14. \A d \in Containers : WindowKeeps(d)'
  <2>1. \A d \in Containers : d # c => job'[d].kind # "window"
    BY <1>7
  <2> QED
    BY <1>13, <2>1 DEF WindowKeeps
<1> QED
  BY <1>7, <1>10, <1>14

-----------------------------------------------------------------------------
(* Steps that write scores. *)

LEMMA Written ==
  ASSUME Typed, Verdicts, UNCHANGED <<cast, actors, watermark>>, NEW c \in Containers,
         NEW S \in SUBSET Closed(sess), WriteScores(c, S)
  PROVE  /\ Session' = Session /\ Actor' = Actor /\ visits' = visits
         /\ Verdicts' /\ StillSettled
         /\ \A s \in S : Settled(s)'
         /\ \A a \in Actor : Again(a) => Again(a)'
         /\ \A a \in Actor \ ActorsOf(S) : ActorCurrent(a) => ActorCurrent(a)'
         /\ \A s \in Session : InNextWindow(s) => InNextWindow(s)'
<1>1. Session' = Session /\ Actor' = Actor /\ visits' = visits
  BY SameCast
<1>2. SameClosed
  BY RowsWritten
<1>3. \A s \in Session : s \notin S => sess'[s] = sess[s]
  BY RowsWritten
<1>4. \A s \in S : /\ sess'[s].status \in {"scored", "excluded"}
                   /\ sess'[s].status = "scored" <=> Scorable(s)
  <2>1. \A s \in S : /\ sess'[s].status \in {"scored", "excluded"}
                     /\ sess'[s].status = "scored" <=> ~(Bot(visits[s]) \/ ZeroSignal(visits[s]))
    BY RowsWritten
  <2> QED
    BY <2>1 DEF Scorable
<1>5. Verdicts'
  BY <1>1, <1>3, <1>4 DEF Verdicts, Settled, Scorable
<1>6. StillSettled
  BY <1>2, <1>3, <1>4 DEF StillSettled, Settled, SameClosed
<1>7. \A s \in S : Settled(s)'
  BY <1>4 DEF Settled
<1>8. \A a \in Actor : Again(a) => Again(a)'
  BY <1>6, AgainKept
<1>9. ASSUME NEW a \in Actor, a \notin ActorsOf(S), ActorCurrent(a)
      PROVE  ActorCurrent(a)'
  <2>1. SameFor(a)
    BY <1>3, <1>9 DEF SameFor, ActorsOf
  <2> QED
    BY <1>9, <2>1, CurrentKept
<1>10. \A s \in Session : InNextWindow(s) => InNextWindow(s)'
  BY <1>2 DEF SameClosed, InNextWindow, ToDbClock
<1> QED
  BY <1>1, <1>5, <1>6, <1>7, <1>8, <1>9, <1>10

LEMMA StaleScorePage ==
  ASSUME Typed, StaleInv, NEW c \in Containers, NEW failed, NEW unseen, ScorePage(c, failed, unseen)
  PROVE  StaleInv'
<1> DEFINE page == Page(c)
           ok == page \ failed
           breaks == job[c].kind = "window" /\ Cardinality(page) = PageSize
           S == ok \cup unseen
<1>1. /\ job[c].step = "page" /\ failed \subseteq page /\ unseen \subseteq failed
      /\ WriteScores(c, S) /\ UNCHANGED <<cast, actors, watermark>>
  BY DEF ScorePage
<1>2. IF breaks THEN job' = [job EXCEPT ![c] = Idle]
      ELSE job' = [job EXCEPT ![c].todo = @ \ page, ![c].touched = ActorsOf(ok), ![c].step = "actors"]
  BY DEF ScorePage, Leave
<1>3. /\ hist'.overlapped = hist.overlapped
      /\ hist'.lost = hist.lost \cup ActorsOf(unseen \cup { s \in failed : sess[s].status # "pending" })
                        \cup IF breaks THEN Forgotten(c, ActorsOf(ok)) ELSE {}
  BY DEF ScorePage, Typed, History
<1>4. page \subseteq job[c].todo /\ page \subseteq Closed(sess) /\ page \subseteq Session
  BY PageClosed
<1>5. ~breaks /\ job[c].kind = "window" => page = job[c].todo
  BY PageIsAll
<1> HIDE DEF page, breaks
<1>6. S \in SUBSET Closed(sess)
  BY <1>1, <1>4
<1>7. /\ Session' = Session /\ Actor' = Actor /\ visits' = visits
      /\ Verdicts' /\ StillSettled
      /\ \A s \in S : Settled(s)'
      /\ \A a \in Actor : Again(a) => Again(a)'
      /\ \A a \in Actor \ ActorsOf(S) : ActorCurrent(a) => ActorCurrent(a)'
      /\ \A s \in Session : InNextWindow(s) => InNextWindow(s)'
  BY <1>1, <1>6, Written DEF StaleInv
<1>8. \A a \in ActorsOf(S) : a \in ActorsOf(ok) \/ a \in hist'.lost
  <2>1. \A a \in ActorsOf(S) : a \in ActorsOf(ok) \/ a \in ActorsOf(unseen)
    BY DEF ActorsOf
  <2>2. ActorsOf(unseen) \subseteq ActorsOf(unseen \cup { s \in failed : sess[s].status # "pending" })
    BY DEF ActorsOf
  <2> QED
    BY <1>3, <2>1, <2>2
<1> HIDE DEF S
<1>9. SUFFICES ASSUME ~hist.overlapped
               PROVE  /\ AtMostOne'
                      /\ \A a \in Actor : Revisited(a)'
                      /\ \A d \in Containers : WindowKeeps(d)'
  BY <1>3, <1>7 DEF StaleInv
<1>10. AtMostOne /\ (\A a \in Actor : Revisited(a)) /\ WindowKeeps(c)
  BY <1>9 DEF StaleInv
<1>11. DOMAIN job = Containers /\ JobTyped(c) /\ \A d \in Containers : JobTyped(d)
  BY DEF Typed, Jobs
<1>12. job[c].kind \in {"window", "drain"}
  BY <1>1, <1>11 DEF JobTyped, Steps
<1>13. \A d \in Containers : d # c => job[d].kind = "idle" /\ job[d].step = "idle" /\ job'[d] = job[d]
  <2>1. \A d \in Containers : d # c => job[d].kind = "idle"
    BY <1>10, <1>12 DEF AtMostOne
  <2>2. \A d \in Containers : d # c => job'[d] = job[d]
    BY <1>2, <1>11
  <2> QED
    BY <1>11, <2>1, <2>2 DEF JobTyped, Steps
<1>14. CASE breaks
  <2>1. job'[c] = Idle
    BY <1>2, <1>11, <1>14
  <2>2. ASSUME NEW a \in ActorsOf(ok), a \in Actor
        PROVE  a \in hist'.lost \/ Again(a)'
    <3>1. CASE watermark = None
      BY <1>3, <1>14, <3>1 DEF Forgotten
    <3>2. CASE watermark # None
      <4>1. PICK s \in ok : visits[s].actor = a
        BY DEF ActorsOf
      <4>2. s \in S /\ s \in Session /\ s \in job[c].todo
        BY <1>4 DEF S
      <4>3. InNextWindow(s)
        BY <1>10, <1>14, <3>2, <4>2 DEF WindowKeeps, breaks
      <4>4. InNextWindow(s)' /\ Settled(s)'
        BY <1>7, <4>2, <4>3
      <4> QED
        BY <1>7, <4>1, <4>2, <4>4 DEF Again
    <3> QED
      BY <3>1, <3>2
  <2>3. ASSUME NEW a \in Actor
        PROVE  Revisited(a)'
    <3>1. CASE a \in ActorsOf(S)
      BY <1>8, <2>2, <3>1 DEF Revisited
    <3>2. CASE a \notin ActorsOf(S)
      <4>1. Revisited(a) /\ ~Covered(a)
        BY <1>1, <1>10, <1>13 DEF Covered
      <4>2. hist.lost \subseteq hist'.lost
        BY <1>3
      <4> QED
        BY <1>7, <3>2, <4>1, <4>2 DEF Revisited
    <3> QED
      BY <3>1, <3>2
  <2>4. \A d \in Containers : job'[d].kind = "idle"
    BY <1>13, <2>1 DEF Idle
  <2> QED
    BY <2>3, <2>4 DEF AtMostOne, WindowKeeps
<1>15. CASE ~breaks
  <2>1. /\ job'[c].step = "actors" /\ job'[c].kind = job[c].kind /\ job'[c].at = job[c].at
        /\ job'[c].touched = ActorsOf(ok) /\ job'[c].todo = job[c].todo \ page
    BY <1>2, <1>11, <1>15 DEF JobTyped
  <2>2. Affected(c)' = ActorsOf(ok)
    BY <1>12, <2>1 DEF Affected
  <2>3. ASSUME NEW a \in Actor
        PROVE  Revisited(a)'
    <3>1. CASE a \in ActorsOf(S)
      <4>1. a \in ActorsOf(ok) => Covered(a)'
        BY <2>1, <2>2 DEF Covered
      <4> QED
        BY <1>8, <3>1, <4>1 DEF Revisited
    <3>2. CASE a \notin ActorsOf(S)
      <4>1. Revisited(a) /\ ~Covered(a)
        BY <1>1, <1>10, <1>13 DEF Covered
      <4>2. hist.lost \subseteq hist'.lost
        BY <1>3
      <4> QED
        BY <1>7, <3>2, <4>1, <4>2 DEF Revisited
    <3> QED
      BY <3>1, <3>2
  <2>4. ASSUME job[c].kind = "window"
        PROVE  WindowKeeps(c)'
    <3>1. page = job[c].todo
      BY <1>5, <1>15, <2>4
    <3>2. ASSUME watermark # None
          PROVE  (\A s \in job'[c].todo : InNextWindow(s)') /\ (\A a \in job'[c].touched : Again(a)')
      <4>1. \A s \in job[c].todo : InNextWindow(s)
        BY <1>10, <2>4, <3>2 DEF WindowKeeps
      <4>2. \A s \in ok : s \in Session /\ s \in S /\ InNextWindow(s)' /\ Settled(s)'
        BY <1>4, <1>7, <4>1 DEF S
      <4>3. ASSUME NEW a \in ActorsOf(ok) PROVE Again(a)'
        <5>1. PICK s \in ok : visits[s].actor = a
          BY DEF ActorsOf
        <5> QED
          BY <1>7, <4>2, <5>1 DEF Again
      <4> QED
        BY <2>1, <3>1, <4>3
    <3>3. ASSUME NEW a \in Actor
          PROVE  a \in hist'.lost \/ ActorCurrent(a)' \/ a \in ActorsOf(ok) \/ After(c, a)'
      <4>1. CASE a \in ActorsOf(S)
        BY <1>8, <4>1
      <4>2. CASE a \notin ActorsOf(S)
        <5>1. \/ a \in hist.lost
              \/ ActorCurrent(a)
              \/ \E t \in job[c].todo : visits[t].actor = a /\ Settled(t)
              \/ After(c, a)
          BY <1>1, <1>10, <2>4 DEF WindowKeeps
        <5>2. CASE a \in hist.lost \/ ActorCurrent(a)
          BY <1>3, <1>7, <4>2, <5>2
        <5>3. CASE After(c, a)
          BY <1>1, <1>7, <2>1, <5>3, AfterKept
        <5>4. ASSUME NEW t \in job[c].todo, visits[t].actor = a, Settled(t)
              PROVE  a \in ActorsOf(ok) \/ a \in hist'.lost
          <6>1. CASE t \in ok
            BY <5>4, <6>1 DEF ActorsOf
          <6>2. CASE t \notin ok
            <7>1. t \in failed /\ sess[t].status # "pending"
              BY <3>1, <5>4, <6>2 DEF Settled
            <7>2. a \in ActorsOf(unseen \cup { s \in failed : sess[s].status # "pending" })
              BY <5>4, <7>1 DEF ActorsOf
            <7> QED
              BY <1>3, <7>2
          <6> QED
            BY <6>1, <6>2
        <5> QED
          BY <5>1, <5>2, <5>3, <5>4
      <4> QED
        BY <4>1, <4>2
    <3> QED
      BY <1>1, <1>7, <2>1, <3>2, <3>3 DEF WindowKeeps
  <2>5. \A d \in Containers : WindowKeeps(d)'
    <3>1. \A d \in Containers : d # c => job'[d].kind # "window"
      BY <1>13
    <3> QED
      BY <2>1, <2>4, <3>1 DEF WindowKeeps
  <2>6. AtMostOne'
    BY <1>13 DEF AtMostOne
  <2> QED
    BY <2>3, <2>5, <2>6
<1> QED
  BY <1>14, <1>15

LEMMA StaleFailInPage ==
  ASSUME Typed, StaleInv, NEW c \in Containers, NEW S, FailInPage(c, S)
  PROVE  StaleInv'
<1>1. /\ job[c].step = "page" /\ S \subseteq Page(c)
      /\ WriteScores(c, S) /\ UNCHANGED <<cast, actors, watermark>>
      /\ job' = [job EXCEPT ![c] = Idle]
      /\ hist'.overlapped = hist.overlapped
      /\ hist'.lost = hist.lost \cup Forgotten(c, ActorsOf(S))
  BY DEF FailInPage, Leave, Typed, History
<1>2. S \subseteq job[c].todo /\ S \in SUBSET Closed(sess) /\ S \subseteq Session
  BY <1>1, PageClosed
<1>3. /\ Session' = Session /\ Actor' = Actor /\ visits' = visits
      /\ Verdicts'
      /\ \A s \in S : Settled(s)'
      /\ \A a \in Actor : Again(a) => Again(a)'
      /\ \A a \in Actor \ ActorsOf(S) : ActorCurrent(a) => ActorCurrent(a)'
      /\ \A s \in Session : InNextWindow(s) => InNextWindow(s)'
  BY <1>1, <1>2, Written DEF StaleInv
<1>4. SUFFICES ASSUME ~hist.overlapped
               PROVE  /\ AtMostOne'
                      /\ \A a \in Actor : Revisited(a)'
                      /\ \A d \in Containers : WindowKeeps(d)'
  BY <1>1, <1>3 DEF StaleInv
<1>5. AtMostOne /\ (\A a \in Actor : Revisited(a)) /\ WindowKeeps(c)
  BY <1>4 DEF StaleInv
<1>6. DOMAIN job = Containers /\ \A d \in Containers : JobTyped(d)
  BY DEF Typed, Jobs
<1>7. job[c].kind # "idle"
  BY <1>1, <1>6 DEF JobTyped, Steps
<1>8. \A d \in Containers : d # c => job[d].kind = "idle" /\ job[d].step = "idle"
  BY <1>5, <1>6, <1>7 DEF AtMostOne, JobTyped, Steps
<1>9. \A d \in Containers : job'[d].kind = "idle"
  BY <1>1, <1>6, <1>8 DEF Idle
<1>10. ASSUME NEW a \in Actor
       PROVE  Revisited(a)'
  <2>1. CASE a \in ActorsOf(S) /\ job[c].kind = "window" /\ watermark # None
    <3>1. PICK s \in S : visits[s].actor = a
      BY <2>1 DEF ActorsOf
    <3>2. InNextWindow(s)
      BY <1>2, <1>5, <2>1 DEF WindowKeeps
    <3> QED
      BY <1>2, <1>3, <3>1, <3>2 DEF Revisited, Again
  <2>2. CASE a \in ActorsOf(S) /\ ~(job[c].kind = "window" /\ watermark # None)
    BY <1>1, <2>2 DEF Forgotten, Revisited
  <2>3. CASE a \notin ActorsOf(S)
    <3>1. Revisited(a) /\ ~Covered(a)
      BY <1>1, <1>5, <1>8 DEF Covered
    <3> QED
      BY <1>1, <1>3, <2>3, <3>1 DEF Revisited
  <2> QED
    BY <2>1, <2>2, <2>3
<1> QED
  BY <1>9, <1>10 DEF AtMostOne, WindowKeeps

-----------------------------------------------------------------------------
(* The recompute, and a calibration. *)

LEMMA StaleRecompute ==
  ASSUME Typed, StaleInv, NEW c \in Containers, RecomputeActors(c)
  PROVE  StaleInv'
<1>1. /\ job[c].step = "actors" /\ UNCHANGED <<cast, sess>>
      /\ watermark' = IF job[c].kind = "window" THEN job[c].at ELSE watermark
      /\ IF job[c].kind = "drain" /\ job[c].todo # {}
         THEN job' = [job EXCEPT ![c].touched = {}, ![c].step = "page"]
         ELSE job' = [job EXCEPT ![c] = Idle]
      /\ hist'.lost = hist.lost \ Affected(c) /\ hist'.overlapped = hist.overlapped
  BY DEF RecomputeActors, Leave, Typed, History
<1>2. /\ \A a \in Actor : a \in Affected(c) => actors'[a] \in ActorRows(a)
      /\ \A a \in Actor : a \notin Affected(c) => actors'[a] = actors[a]
  <2>1. PICK rows : /\ \A a \in Affected(c) : rows[a] \in ActorRows(a)
                    /\ actors' = [a \in Actor |-> IF a \in Affected(c) THEN rows[a] ELSE actors[a]]
    BY DEF RecomputeActors
  <2> QED
    BY <2>1
<1>3. /\ Session' = Session /\ Actor' = Actor /\ visits' = visits
      /\ \A a \in Actor : SameFor(a)
  BY <1>1, SameCast DEF SameFor
<1>4. Verdicts' /\ StillSettled
  BY <1>1, <1>3 DEF StaleInv, Verdicts, Settled, Scorable, StillSettled
<1>5. \A a \in Actor : a \in Affected(c) => ActorCurrent(a)'
  BY <1>1, <1>2, <1>3, RecomputedCurrent
<1>6. \A a \in Actor : a \notin Affected(c) /\ ActorCurrent(a) => ActorCurrent(a)'
  BY <1>1, <1>2, <1>3, CurrentKept
<1>7. SUFFICES ASSUME ~hist.overlapped
               PROVE  /\ AtMostOne'
                      /\ \A a \in Actor : Revisited(a)'
                      /\ \A d \in Containers : WindowKeeps(d)'
  BY <1>1, <1>3, <1>4 DEF StaleInv
<1>8. AtMostOne /\ (\A a \in Actor : Revisited(a)) /\ WindowKeeps(c)
  BY <1>7 DEF StaleInv
<1>9. DOMAIN job = Containers /\ JobTyped(c) /\ \A d \in Containers : JobTyped(d)
  BY DEF Typed, Jobs
<1>10. job[c].kind # "idle"
  BY <1>1, <1>9 DEF JobTyped, Steps
<1>11. \A d \in Containers : d # c => job[d].kind = "idle" /\ job[d].step = "idle" /\ job'[d] = job[d]
  <2>1. \A d \in Containers : d # c => job[d].kind = "idle"
    BY <1>8, <1>10 DEF AtMostOne
  <2>2. \A d \in Containers : d # c => job'[d] = job[d]
    BY <1>1, <1>9
  <2> QED
    BY <1>9, <2>1, <2>2 DEF JobTyped, Steps
<1>12. job'[c].kind # "window"
  BY <1>1, <1>9 DEF JobTyped, Idle
<1>13. AtMostOne'
  BY <1>11 DEF AtMostOne
<1>14. \A d \in Containers : WindowKeeps(d)'
  BY <1>11, <1>12 DEF WindowKeeps
<1>15. ASSUME NEW a \in Actor
       PROVE  Revisited(a)'
  <2>1. CASE a \in Affected(c)
    BY <1>5, <2>1 DEF Revisited
  <2>2. CASE a \notin Affected(c) /\ job[c].kind = "window"
    <3>1. a \in hist.lost \/ ActorCurrent(a) \/ After(c, a)
      <4>1. a \notin job[c].touched
        BY <2>2 DEF Affected
      <4> QED
        BY <1>1, <1>8, <2>2, <4>1 DEF WindowKeeps
    <3>2. After(c, a) => Again(a)'
      <4>1. watermark' = job[c].at /\ job[c].at \in Int
        BY <1>1, <1>9, <2>2 DEF JobTyped
      <4>2. watermark' # None
        BY <4>1, FormulasAssumption DEF FormulasAssumption
      <4> QED
        BY <1>1, <1>3, <4>1, <4>2 DEF After, Again, InNextWindow, Settled, ToDbClock
    <3> QED
      BY <1>1, <1>6, <2>2, <3>1, <3>2 DEF Revisited
  <2>3. CASE a \notin Affected(c) /\ job[c].kind # "window"
    <3>1. Revisited(a) /\ ~Covered(a)
      BY <1>8, <1>11, <2>3 DEF Covered
    <3>2. Again(a) => Again(a)'
      BY <1>1, <1>4, <2>3, AgainKept
    <3> QED
      BY <1>1, <1>6, <2>3, <3>1, <3>2 DEF Revisited
  <2> QED
    BY <2>1, <2>2, <2>3
<1> QED
  BY <1>13, <1>14, <1>15

LEMMA StaleCalibrate ==
  ASSUME Typed, StaleInv, NEW c \in Containers, WriteThresholds(c) \/ ReassignBuckets(c)
  PROVE  StaleInv'
<1>1. /\ UNCHANGED <<cast, actors, watermark>>
      /\ hist'.lost = hist.lost /\ hist'.overlapped = hist.overlapped
      /\ job[c].step \in {"thresholds", "reassign"}
      /\ job' = [job EXCEPT ![c].step = IF job[c].step = "thresholds" THEN "reassign" ELSE "actors"]
      /\ job[c].step = "thresholds" => sess' = sess
      /\ job[c].step = "reassign" => ReassignBuckets(c)
  BY DEF WriteThresholds, ReassignBuckets, Typed, History
<1>2. DOMAIN job = Containers /\ JobTyped(c) /\ \A d \in Containers : JobTyped(d)
  BY DEF Typed, Jobs
<1>3. job[c].kind = "calibration"
  BY <1>1, <1>2 DEF JobTyped, Steps
<1>4. /\ \A s \in Session : sess'[s].status = sess[s].status /\ sess'[s].score = sess[s].score
      /\ \A s \in Session : ~(job[c].step = "reassign" /\ sess[s].status = "scored" /\ SessionDay(s) = job[c].at)
                            => sess'[s] = sess[s]
      /\ SameClosed
  <2>1. CASE job[c].step = "thresholds"
    BY <1>1, <2>1, SameRows
  <2>2. CASE job[c].step = "reassign"
    <3>1. ReassignBuckets(c)
      BY <1>1, <2>2
    <3>2. SameClosed /\ \A s \in Session : sess'[s].status = sess[s].status /\ sess'[s].score = sess[s].score
      BY <3>1, RowsReassigned
    <3>3. \A s \in Session : ~(sess[s].status = "scored" /\ SessionDay(s) = job[c].at) => sess'[s] = sess[s]
      BY <3>1, RowsReassigned
    <3> QED
      BY <2>2, <3>2, <3>3
  <2> QED
    BY <1>1, <2>1, <2>2
<1>5. Session' = Session /\ Actor' = Actor /\ visits' = visits
  BY <1>1, SameCast
<1>6. Verdicts' /\ StillSettled
  BY <1>4, <1>5 DEF StaleInv, Verdicts, Settled, Scorable, StillSettled, SameClosed
<1>7. \A a \in Actor : Again(a) => Again(a)'
  BY <1>1, <1>6, AgainKept
<1>8. SUFFICES ASSUME ~hist.overlapped
               PROVE  /\ AtMostOne'
                      /\ \A a \in Actor : Revisited(a)'
                      /\ \A d \in Containers : WindowKeeps(d)'
  BY <1>1, <1>5, <1>6 DEF StaleInv
<1>9. AtMostOne /\ (\A a \in Actor : Revisited(a))
  BY <1>8 DEF StaleInv
<1>10. \A d \in Containers : d # c => job[d].kind = "idle" /\ job[d].step = "idle" /\ job'[d] = job[d]
  <2>1. \A d \in Containers : d # c => job[d].kind = "idle"
    BY <1>3, <1>9 DEF AtMostOne
  <2>2. \A d \in Containers : d # c => job'[d] = job[d]
    BY <1>1, <1>2
  <2> QED
    BY <1>2, <2>1, <2>2 DEF JobTyped, Steps
<1>11. /\ job'[c].kind = "calibration" /\ job'[c].at = job[c].at
       /\ job[c].step = "reassign" => job'[c].step = "actors"
  BY <1>1, <1>2, <1>3 DEF JobTyped
<1>12. AtMostOne' /\ \A d \in Containers : WindowKeeps(d)'
  BY <1>10, <1>11 DEF AtMostOne, WindowKeeps
<1>13. ASSUME NEW a \in Actor
       PROVE  Revisited(a)'
  <2>1. CASE \E s \in Session : /\ visits[s].actor = a /\ job[c].step = "reassign"
                                /\ sess[s].status = "scored" /\ SessionDay(s) = job[c].at
    <3>1. PICK s \in Session : /\ visits[s].actor = a /\ job[c].step = "reassign"
                               /\ sess[s].status = "scored" /\ SessionDay(s) = job[c].at
      BY <2>1
    <3>2. sess'[s].status = "scored" /\ SessionDay(s)' = job'[c].at
      BY <1>4, <1>5, <1>11, <3>1 DEF SessionDay, DayOf
    <3>3. a \in Affected(c)'
      BY <1>5, <1>11, <3>1, <3>2 DEF Affected, ActorsOf
    <3> QED
      BY <1>11, <3>1, <3>3 DEF Revisited, Covered
  <2>2. CASE ~\E s \in Session : /\ visits[s].actor = a /\ job[c].step = "reassign"
                                 /\ sess[s].status = "scored" /\ SessionDay(s) = job[c].at
    <3>1. SameFor(a)
      BY <1>4, <2>2 DEF SameFor
    <3>2. ActorCurrent(a) => ActorCurrent(a)'
      BY <1>1, <3>1, CurrentKept
    <3>3. Revisited(a) /\ ~Covered(a)
      BY <1>1, <1>9, <1>10 DEF Covered
    <3> QED
      BY <1>1, <1>7, <3>2, <3>3 DEF Revisited
  <2> QED
    BY <2>1, <2>2
<1> QED
  BY <1>12, <1>13

LEMMA StaleQuietSteps ==
  ASSUME Typed, StaleInv, NEW c \in Containers,
         StartDrain(c) \/ StartCalibration(c) \/ DrainStops(c) \/ Fail(c)
  PROVE  StaleInv'
<1>0. DOMAIN job = Containers
  BY DEF Typed, Jobs
<1>1. CASE StartDrain(c)
  <2>1. PICK r, todo : Start(c, [Idle EXCEPT !.kind = "drain", !.thr = r.thr, !.todo = todo, !.step = "page"])
    BY <1>1 DEF StartDrain
  <2>2. [Idle EXCEPT !.kind = "drain", !.thr = r.thr, !.todo = todo, !.step = "page"].kind = "drain"
    BY DEF Idle
  <2>3. TakeLock(c)
    BY <1>1 DEF StartDrain
  <2> QED
    BY <2>1, <2>2, <2>3, StaleStart
<1>2. CASE StartCalibration(c)
  <2>1. PICK at, cuts : Start(c, [Idle EXCEPT !.kind = "calibration", !.step = "thresholds",
                                              !.at = at, !.cuts = cuts])
    BY <1>2 DEF StartCalibration
  <2>2. [Idle EXCEPT !.kind = "calibration", !.step = "thresholds", !.at = at, !.cuts = cuts].kind = "calibration"
    BY DEF Idle
  <2> QED
    BY <2>1, <2>2, StaleStart
<1>3. CASE DrainStops(c)
  <2>1. /\ job' = [job EXCEPT ![c] = Idle] /\ UNCHANGED <<cast, sess, actors, watermark, hist>>
        /\ job[c].step = "page"
    BY <1>3 DEF DrainStops, Leave
  <2>2. job'[c] = Idle /\ \A d \in Containers : d # c => job'[d] = job[d]
    BY <1>0, <2>1
  <2> QED
    BY <2>1, <2>2, StaleQuiet
<1>4. CASE Fail(c)
  <2>1. /\ job' = [job EXCEPT ![c] = Idle] /\ UNCHANGED <<cast, sess, actors, watermark>>
        /\ hist'.overlapped = hist.overlapped
        /\ hist'.lost = hist.lost \cup IF job[c].step = "actors" THEN Forgotten(c, Affected(c)) ELSE {}
    BY <1>4 DEF Fail, Leave, Typed, History
  <2>2. job'[c] = Idle /\ \A d \in Containers : d # c => job'[d] = job[d]
    BY <1>0, <2>1
  <2> QED
    BY <2>1, <2>2, StaleQuiet
<1> QED
  BY <1>1, <1>2, <1>3, <1>4

\* Nobody's pass changes.
LEMMA StaleTick ==
  ASSUME Typed, StaleInv, UNCHANGED <<cast, sess, actors, watermark, job, hist>>
  PROVE  StaleInv'
<1>1. None \notin Containers
  BY ScoringAssumption DEF ScoringAssumption
<1>2. \A d \in Containers : job'[d] = job[d]
  OBVIOUS
<1> QED
  BY <1>1, <1>2, StaleQuiet

LEMMA StaleStep ==
  ASSUME OverlapSuffices, Typed, StaleInv, [Next]_vars
  PROVE  StaleInv'
<1>1. CASE UNCHANGED vars
  BY <1>1, StaleTick DEF vars
<1>2. CASE Tick
  BY <1>2, StaleTick DEF Tick
<1>3. ASSUME NEW s \in Session, CloseSession(s)
      PROVE  StaleInv'
  BY <1>3, StaleCloseSession
<1>4. ASSUME NEW c \in Containers,
             \/ StartWindow(c)
             \/ StartDrain(c)
             \/ StartCalibration(c)
             \/ \E failed, unseen : ScorePage(c, failed, unseen)
             \/ RecomputeActors(c)
             \/ WriteThresholds(c)
             \/ ReassignBuckets(c)
             \/ DrainStops(c)
             \/ Fail(c)
             \/ \E S : FailInPage(c, S)
      PROVE  StaleInv'
  BY <1>4, StaleStartWindow, StaleQuietSteps, StaleScorePage, StaleRecompute, StaleCalibrate,
     StaleFailInPage
<1> QED
  BY <1>1, <1>2, <1>3, <1>4 DEF Next

LEMMA StaleInit ==
  ASSUME Init
  PROVE  StaleInv
<1>1. /\ sess = [s \in Session |-> NoSession] /\ job = [c \in Containers |-> Idle]
  BY DEF Init
<1>2. \A s \in Session : sess[s].status = "open"
  BY <1>1 DEF NoSession
<1>3. Verdicts
  BY <1>2 DEF Verdicts, Settled
<1>4. \A a \in Actor : Revisited(a)
  BY <1>2 DEF Revisited, ActorCurrent
<1>5. AtMostOne /\ \A c \in Containers : WindowKeeps(c)
  BY <1>1 DEF AtMostOne, WindowKeeps, Idle
<1> QED
  BY <1>3, <1>4, <1>5 DEF StaleInv

\* An actor whose row does not show the best of its scored sessions is recomputed
\* by a pass under way, or has a session in the next window, unless a drain, a
\* calibration or a first window was cut between its two commits, or a pass ran
\* beside another container's: a calibration, or one that has no lock.
THEOREM StaleAlwaysRevisited ==
  ASSUME OverlapSuffices
  PROVE  Spec => []StaleActorsRevisited
<1>1. Init => StaleInv
  BY StaleInit
<1>2. Typed /\ StaleInv /\ [Next]_vars => StaleInv'
  BY StaleStep
<1>3. StaleInv => StaleActorsRevisited
  BY DEF StaleInv, StaleActorsRevisited, Revisited, Covered, Again
<1> QED
  BY <1>1, <1>2, <1>3, TypedAlways, PTL DEF Spec
-----------------------------------------------------------------------------
(* Days, thresholds and percentiles. *)

LEMMA DayOrder ==
  ASSUME NEW a \in Nat, NEW b \in Nat, a <= b
  PROVE  DayOf(a) \in Nat /\ DayOf(b) \in Nat /\ DayOf(a) <= DayOf(b)
<1>1. DayLen \in Nat \ {0}
  BY ScoringAssumption DEF ScoringAssumption
<1>2. PICK q \in Int, r \in 0 .. DayLen - 1 : q = a \div DayLen /\ a = DayLen * q + r
  BY <1>1
<1>3. PICK p \in Int, t \in 0 .. DayLen - 1 : p = b \div DayLen /\ b = DayLen * p + t
  BY <1>1
<1>4. ~(p < q)
  <2>1. SUFFICES ASSUME p + 1 <= q PROVE FALSE
    BY <1>2, <1>3
  <2>2. DayLen * (p + 1) <= DayLen * q
    BY <1>1, <2>1
  <2> QED
    BY <1>1, <1>2, <1>3, <2>2
<1>5. q >= 0 /\ p >= 0
  <2>1. ~(q < 0)
    <3>1. SUFFICES ASSUME q + 1 <= 0 PROVE FALSE
      BY <1>2
    <3>2. DayLen * (q + 1) <= 0
      BY <1>1, <3>1
    <3> QED
      BY <1>1, <1>2, <3>2
  <2> QED
    BY <2>1, <1>2, <1>3, <1>4
<1> QED
  BY <1>2, <1>3, <1>4, <1>5 DEF DayOf

\* A score in hundredths, compared in either unit.
LEMMA SameBucket ==
  ASSUME NEW score \in Int, NEW p35 \in Int, NEW p72 \in Int
  PROVE  /\ AssignBucket(1000 * score, 1000 * p35, 1000 * p72) = AssignBucket(score, p35, p72)
         /\ RoundHalfEven(1000 * score, 1000) = score
<1>1. (1000 * score) \div 1000 = score /\ (1000 * score) % 1000 = 0
  OBVIOUS
<1>2. RoundHalfEven(1000 * score, 1000) = score
  BY <1>1 DEF RoundHalfEven
<1>3. AssignBucket(1000 * score, 1000 * p35, 1000 * p72) = AssignBucket(score, p35, p72)
  BY DEF AssignBucket
<1> QED
  BY <1>2, <1>3

\* A day with thresholds of its own is scored with them.
LEMMA OwnThresholds ==
  ASSUME NEW t, NEW day \in Int, DOMAIN t \subseteq Int, day \in DOMAIN t, t[day] # None
  PROVE  EffectiveThresholds(t, day) = t[day]
<1> DEFINE known == { d \in DOMAIN t : d <= day /\ t[d] # None }
<1>1. day \in known /\ \A d \in known : d \in Int /\ d <= day
  OBVIOUS
<1>2. EffectiveThresholds(t, day) = IF known = {} THEN FallbackThresholds ELSE t[Max(known)]
  BY DEF EffectiveThresholds
<1> HIDE DEF known
<1>3. Max(known) = day
  <2>1. \A d \in known : day >= d
    BY <1>1
  <2>2. Max(known) \in known /\ \A d \in known : Max(known) >= d
    BY <1>1, <2>1 DEF Max
  <2>3. PICK m \in Int : m = Max(known) /\ m <= day
    BY <1>1, <2>2
  <2>4. m >= day
    BY <1>1, <2>2, <2>3
  <2> QED
    BY <2>3, <2>4
<1> QED
  BY <1>1, <1>2, <1>3

\* The nearest rank of a percentage is the index of a value.
LEMMA RankIn ==
  ASSUME NEW n \in Nat \ {0}, NEW pct \in 0 .. 100
  PROVE  RoundHalfEven(pct * (n - 1), 100) \in 0 .. n - 1
<1>1. PICK a \in Int : a = pct * (n - 1)
  OBVIOUS
<1>2. 0 <= a /\ a <= 100 * (n - 1)
  <2>1. 0 <= pct * (n - 1)
    OBVIOUS
  <2>2. pct * (n - 1) <= 100 * (n - 1)
    OBVIOUS
  <2> QED
    BY <1>1, <2>1, <2>2
<1>3. RoundHalfEven(a, 100) \in 0 .. n - 1
  <2>1. PICK q \in Int, r \in 0 .. 99 : q = a \div 100 /\ r = a % 100 /\ a = 100 * q + r
    OBVIOUS
  <2>2. RoundHalfEven(a, 100) = IF 2 * r > 100 \/ (2 * r = 100 /\ q % 2 = 1) THEN q + 1 ELSE q
    BY <2>1 DEF RoundHalfEven
  <2> QED
    BY <1>2, <2>1, <2>2
<1> QED
  BY <1>1, <1>3

\* A percentile of a sample is one of its values.
LEMMA PercentileIn ==
  ASSUME NEW D, IsFiniteSet(D), D # {}, NEW f \in [D -> Int], NEW pct \in 0 .. 100
  PROVE  \E x \in D : Percentile(f, pct) = f[x]
<1> DEFINE upTo(v) == { x \in D : f[x] <= v }
           below(v) == { x \in D : f[x] < v }
           count == [x \in D |-> Cardinality(upTo(f[x]))]
           rank == RoundHalfEven(pct * (Cardinality(D) - 1), 100)
<1>1. PICK n \in Nat \ {0} : n = Cardinality(D) /\ rank \in 0 .. n - 1
  <2>1. Cardinality(D) \in Nat /\ Cardinality(D) # 0
    BY FS_EmptySet, FS_CardinalityType
  <2> QED
    BY <2>1, RankIn
<1> HIDE DEF rank
<1>2. ASSUME NEW v
      PROVE  IsFiniteSet(upTo(v)) /\ Cardinality(upTo(v)) \in 0 .. n
  <2>1. upTo(v) \subseteq D
    OBVIOUS
  <2> HIDE DEF upTo
  <2>2. IsFiniteSet(upTo(v)) /\ Cardinality(upTo(v)) <= Cardinality(D)
    BY <2>1, FS_Subset
  <2>3. Cardinality(upTo(v)) \in Nat
    BY <2>2, FS_CardinalityType
  <2> QED
    BY <1>1, <2>2, <2>3
<1>3. \A x \in D : count[x] \in 0 .. n
  BY <1>2
<1>4. \A x, y \in D : f[x] < f[y] => count[x] < count[y]
  <2>1. SUFFICES ASSUME NEW x \in D, NEW y \in D, f[x] < f[y]
                 PROVE  count[x] < count[y]
    OBVIOUS
  <2>2. PICK A, B : A = upTo(f[x]) /\ B = upTo(f[y])
    OBVIOUS
  <2>3. A \subseteq B /\ A # B
    BY <2>1, <2>2
  <2>4. IsFiniteSet(B) /\ Cardinality(A) \in Nat /\ Cardinality(B) \in Nat
    BY <1>2, <2>2
  <2>5. Cardinality(A) <= Cardinality(B) /\ Cardinality(A) # Cardinality(B)
    BY <2>3, <2>4, FS_Subset
  <2> QED
    BY <2>2, <2>4, <2>5
<1>5. \A x \in D : count[x] = Cardinality(upTo(f[x]))
  OBVIOUS
<1> HIDE DEF count
<1>6. \A x, y \in D : count[x] <= count[y] => f[x] <= f[y]
  <2>1. SUFFICES ASSUME NEW x \in D, NEW y \in D, count[x] <= count[y], f[y] < f[x]
                 PROVE  FALSE
    OBVIOUS
  <2>2. count[y] < count[x]
    BY <1>4, <2>1
  <2> QED
    BY <1>3, <2>1, <2>2
<1> DEFINE reach == { x \in D : rank < count[x] }
<1>7. reach # {}
  <2>1. PICK top \in D : \A x \in D : count[x] <= count[top]
    BY <1>1, <1>3, GreatestBy
  <2>2. \A x \in D : f[x] <= f[top]
    BY <1>6, <2>1
  <2>3. upTo(f[top]) = D
    BY <2>2
  <2>4. count[top] = n
    BY <1>1, <1>5, <2>3
  <2> QED
    BY <1>1, <2>4
<1>8. PICK v \in reach : \A x \in reach : count[v] <= count[x]
  <2>1. reach \subseteq D
    OBVIOUS
  <2> HIDE DEF reach
  <2>2. \A x \in reach : count[x] \in Nat
    BY <1>3, <2>1
  <2> QED
    BY <1>7, <2>2, LeastBy
<1>9. Cardinality(below(f[v])) <= rank
  <2>1. CASE below(f[v]) = {}
    BY <1>1, <2>1, FS_EmptySet
  <2>2. CASE below(f[v]) # {}
    <3>0. below(f[v]) \subseteq D /\ \A x \in below(f[v]) : f[x] < f[v]
      OBVIOUS
    <3>1. PICK w \in below(f[v]) : \A x \in below(f[v]) : count[x] <= count[w]
      <4> HIDE DEF below
      <4>1. \A x \in below(f[v]) : count[x] \in 0 .. n
        BY <1>3, <3>0
      <4> QED
        BY <1>1, <2>2, <4>1, GreatestBy
    <3>2. \A x \in below(f[v]) : f[x] <= f[w]
      BY <1>6, <3>0, <3>1
    <3>3. below(f[v]) = upTo(f[w])
      BY <3>0, <3>2
    <3>4. count[w] < count[v]
      BY <1>4, <1>8, <3>0
    <3>5. ~(rank < count[w])
      <4>1. w \in D /\ v \in D
        BY <1>8
      <4>2. ~(count[v] <= count[w])
        BY <1>3, <3>4, <4>1
      <4>3. w \notin reach
        BY <1>8, <4>2
      <4> QED
        BY <4>1, <4>3
    <3> QED
      BY <1>1, <1>3, <1>5, <3>0, <3>1, <3>3, <3>5
  <2> QED
    BY <2>1, <2>2
<1>10. rank < Cardinality(upTo(f[v]))
  BY <1>5, <1>8
<1> DEFINE V == { f[x] : x \in DOMAIN f }
           nearest(u) == Cardinality(below(u)) <= rank /\ rank < Cardinality(upTo(u))
<1>11. Percentile(f, pct) = CHOOSE u \in V : nearest(u)
  BY DOMAIN f = D DEF Percentile, rank
<1>12. f[v] \in V /\ nearest(f[v])
  BY <1>8, <1>9, <1>10
<1> HIDE DEF nearest, V
<1>13. Percentile(f, pct) \in V
  BY <1>11, <1>12
<1> QED
  BY <1>13 DEF V

\* The cuts of a calibration are integers.
LEMMA CutsTyped ==
  ASSUME NEW D, IsFiniteSet(D), NEW score \in [D -> Int], NEW visit
  PROVE  Calibrated(score, visit).p35 \in Int /\ Calibrated(score, visit).p72 \in Int
<1> DEFINE engaged == { x \in D : score[x] > 0 }
           scores == [x \in engaged |-> score[x]]
           p90 == DeadClickP90(visit)
<1>1. Calibrated(score, visit) =
        IF Cardinality(engaged) >= MinCalibrated
        THEN [p35 |-> Percentile(scores, 35), p72 |-> Percentile(scores, 72), p90 |-> p90]
        ELSE [FallbackThresholds EXCEPT !.p90 = p90]
  BY DOMAIN score = D DEF Calibrated
<1> HIDE DEF p90
<1>2. CASE Cardinality(engaged) >= MinCalibrated
  <2>1. IsFiniteSet(engaged)
    BY FS_Subset
  <2>2. engaged # {}
    BY <1>2, FS_EmptySet, FormulasAssumption DEF FormulasAssumption
  <2>3. scores \in [engaged -> Int]
    OBVIOUS
  <2> HIDE DEF engaged, scores
  <2>4. (\E x \in engaged : Percentile(scores, 35) = scores[x]) /\ (\E x \in engaged : Percentile(scores, 72) = scores[x])
    BY <2>1, <2>2, <2>3, PercentileIn
  <2> QED
    BY <1>1, <1>2, <2>3, <2>4
<1>3. CASE ~(Cardinality(engaged) >= MinCalibrated)
  BY <1>1, <1>3 DEF FallbackThresholds, P35Fallback, P72Fallback
<1> QED
  BY <1>2, <1>3

-----------------------------------------------------------------------------
(* A scored session is in the bucket its day's thresholds give. *)

\* The row of s holds what the thresholds t give: from the stored score, or
\* from the score it was rounded from.
Fits(s, t) ==
  /\ \E exact \in {1000 * sess[s].score, PredictiveScore(visits[s], t.p90)} :
       /\ RoundHalfEven(exact, 1000) = sess[s].score
       /\ sess[s].bucket = AssignBucket(exact, 1000 * t.p35, 1000 * t.p72)
  /\ sess[s].oper = Override(visits[s], sess[s].bucket)

Awaiting(c, day) == job[c].step = "reassign" /\ job[c].at = day

InBucket(s) ==
  LET day == SessionDay(s)
  IN  /\ sess[s].status = "scored" /\ thr[day] # None /\ day \notin hist.stale
      /\ \A c \in Containers : ~Awaiting(c, day)
      => Fits(s, thr[day])

Started == \A s \in Session : sess[s].status # "open" => visits[s].start <= clock

\* The cuts a calibration is about to use.
CutsSet(c) ==
  job[c].step \in {"thresholds", "reassign"} =>
    job[c].at \in Days /\ job[c].cuts.p35 \in Int /\ job[c].cuts.p72 \in Int

CutsWritten(c) == job[c].step = "reassign" => thr[job[c].at] = job[c].cuts

BucketInv ==
  /\ Started
  /\ \A c \in Containers : CutsSet(c)
  /\ ~hist.overlapped => /\ AtMostOne
                         /\ \A c \in Containers : CutsWritten(c)
                         /\ \A s \in Session : InBucket(s)

\* A step that keeps the thresholds and leaves no row that does not fit.
LEMMA BucketKept ==
  ASSUME BucketInv, UNCHANGED <<cast, thr>>, hist.stale \subseteq hist'.stale, Started',
         ~hist'.overlapped => ~hist.overlapped /\ AtMostOne',
         \A c \in Containers : CutsSet(c)',
         \A c \in Containers : job'[c].step = "reassign" => job'[c] = job[c],
         \A c \in Containers : job[c].step = "reassign" => job'[c] = job[c] \/ job[c].at \in hist'.stale,
         \A s \in Session : sess'[s].status = "scored" => sess'[s] = sess[s] \/ InBucket(s)'
  PROVE  BucketInv'
<1>1. Session' = Session /\ visits' = visits /\ \A s : SessionDay(s)' = SessionDay(s)
  BY SameCast DEF SessionDay, DayOf
<1>2. SUFFICES ASSUME ~hist'.overlapped
               PROVE  /\ \A c \in Containers : CutsWritten(c)'
                      /\ \A s \in Session : InBucket(s)'
  BY <1>1 DEF BucketInv
<1>3. /\ \A c \in Containers : CutsWritten(c)
      /\ \A s \in Session : InBucket(s)
  BY <1>2 DEF BucketInv
<1>4. \A c \in Containers : CutsWritten(c)'
  BY <1>3 DEF CutsWritten
<1>5. ASSUME NEW s \in Session, sess'[s] = sess[s]
      PROVE  InBucket(s)'
  <2> DEFINE day == SessionDay(s)
  <2>1. SUFFICES ASSUME sess[s].status = "scored", thr[day] # None, day \notin hist'.stale,
                        \A c \in Containers : ~(job'[c].step = "reassign" /\ job'[c].at = day)
                 PROVE  Fits(s, thr[day])'
    BY <1>1, <1>5 DEF InBucket, Awaiting
  <2>2. \A c \in Containers : ~Awaiting(c, day)
    BY <2>1 DEF Awaiting
  <2>3. InBucket(s)
    BY <1>3
  <2>4. Fits(s, thr[day])
    BY <2>1, <2>2, <2>3 DEF InBucket
  <2>5. day' = day /\ thr' = thr /\ visits' = visits
    BY <1>1
  <2> HIDE DEF day
  <2> QED
    BY <1>5, <2>4, <2>5 DEF Fits
<1>6. \A s \in Session : InBucket(s)'
  <2>1. SUFFICES ASSUME NEW s \in Session
                 PROVE  InBucket(s)'
    OBVIOUS
  <2>2. CASE sess'[s].status # "scored"
    BY <2>2 DEF InBucket
  <2> QED
    BY <1>5, <2>1, <2>2
<1> QED
  BY <1>4, <1>6

\* Time passes, or a session is closed.
LEMMA BucketTick ==
  ASSUME Typed, BucketInv, UNCHANGED <<cast, sess, thr, job, hist>>, clock' >= clock, clock' \in Nat
  PROVE  BucketInv'
<1>1. Session' = Session /\ visits' = visits
  BY SameCast
<1>2. Started'
  <2>1. SUFFICES ASSUME NEW s \in Session, sess[s].status # "open"
                 PROVE  visits[s].start <= clock'
    BY <1>1 DEF Started
  <2>2. visits[s].start <= clock
    BY <2>1 DEF BucketInv, Started
  <2>3. clock \in Nat /\ visits[s].start \in Nat
    BY <2>1, VisitTyped DEF Typed, Clocks, Visit
  <2> QED
    BY <2>2, <2>3
<1>3. \A c \in Containers : CutsSet(c)'
  BY DEF BucketInv, CutsSet, Days, DayOf
<1>4. ~hist'.overlapped => ~hist.overlapped /\ AtMostOne'
  BY DEF BucketInv, AtMostOne
<1> QED
  BY <1>2, <1>3, <1>4, BucketKept

LEMMA BucketClose ==
  ASSUME Typed, BucketInv, NEW s \in Session, CloseSession(s)
  PROVE  BucketInv'
<1>1. /\ UNCHANGED <<clock, cast, thr, job, hist>> /\ visits[s].start <= clock
      /\ sess' = [sess EXCEPT ![s].status = "pending", ![s].upd = DbClock(clock)]
  BY DEF CloseSession
<1>2. Session' = Session /\ visits' = visits
  BY <1>1, SameCast
<1>3. DOMAIN sess = Session /\ DOMAIN sess[s] = Columns
  BY DEF Typed, Rows, RowTyped
<1>4. sess'[s].status = "pending" /\ \A t \in Session : t # s => sess'[t] = sess[t]
  BY <1>1, <1>3 DEF Columns
<1>5. Started'
  BY <1>1, <1>2, <1>4 DEF BucketInv, Started
<1>6. \A c \in Containers : CutsSet(c)'
  BY <1>1 DEF BucketInv, CutsSet, Days, DayOf
<1>7. ~hist'.overlapped => ~hist.overlapped /\ AtMostOne'
  BY <1>1 DEF BucketInv, AtMostOne
<1>8. \A t \in Session : sess'[t].status = "scored" => sess'[t] = sess[t]
  BY <1>4
<1> QED
  BY <1>1, <1>5, <1>6, <1>7, <1>8, BucketKept

\* Once a day has thresholds of its own, a session is scored with them.
LEMMA DayOfClosed ==
  ASSUME Typed, Started, NEW s \in Session, sess[s].status # "open"
  PROVE  SessionDay(s) \in Days
<1>1. visits[s].start \in Nat /\ visits[s].start <= clock /\ clock \in 0 .. MaxTime
  BY VisitTyped DEF Typed, Clocks, Visit, Started
<1>2. MaxTime \in Nat
  BY ScoringAssumption DEF ScoringAssumption
<1>3. visits[s].start <= MaxTime
  BY <1>1, <1>2
<1>4. DayOf(visits[s].start) \in Nat /\ DayOf(MaxTime) \in Nat /\ DayOf(visits[s].start) <= DayOf(MaxTime)
  BY <1>1, <1>2, <1>3, DayOrder
<1> QED
  BY <1>4 DEF SessionDay, Days

LEMMA FitsWhenWritten ==
  ASSUME Typed, Started, UNCHANGED <<cast, thr>>, NEW c \in Containers, NEW S \in SUBSET Closed(sess),
         WriteScores(c, S), hist.stale \cup OutOfDate(c, S) \subseteq hist'.stale,
         NEW s \in S, sess'[s].status = "scored"
  PROVE  InBucket(s)'
<1> DEFINE day == SessionDay(s)
           eff == EffectiveThresholds(job[c].thr, day)
           row == ScoreRow(visits[s], eff)
<1>1. Session' = Session /\ visits' = visits /\ day' = day
  BY SameCast DEF SessionDay, DayOf
<1>2. s \in Session /\ sess[s].status # "open"
  BY DEF Closed
<1>3. /\ sess'[s].status = row.status /\ sess'[s].score = row.score
      /\ sess'[s].bucket = row.bucket /\ sess'[s].oper = row.oper
  <2>1. DOMAIN sess[s] = Columns
    BY <1>2 DEF Typed, Rows, RowTyped
  <2>2. sess'[s] = [sess[s] EXCEPT !.status = row.status, !.score = row.score,
                                   !.bucket = row.bucket, !.oper = row.oper]
    BY <1>2 DEF WriteScores
  <2> HIDE DEF row
  <2> QED
    BY <2>1, <2>2 DEF Columns
<1>4. SUFFICES ASSUME thr[day] # None, day \notin hist'.stale
               PROVE  Fits(s, thr[day])'
  <2> HIDE DEF day
  <2>1. thr' = thr
    OBVIOUS
  <2> QED
    BY <1>1, <2>1, Zenon DEF InBucket, day
<1>5. eff = thr[day]
  <2>1. day \notin OutOfDate(c, S)
    BY <1>4
  <2>2. eff = EffectiveThresholds(thr, day)
    BY <2>1 DEF OutOfDate
  <2>3. day \in Days /\ DOMAIN thr = Days
    BY <1>2, DayOfClosed DEF Typed
  <2>4. Days \subseteq Int
    BY DEF Days
  <2> HIDE DEF day, eff
  <2>5. EffectiveThresholds(thr, day) = thr[day]
    BY <1>4, <2>3, <2>4, OwnThresholds
  <2> QED
    BY <2>2, <2>5
<1>6. row = [status |-> "scored", score |-> RoundHalfEven(PredictiveScore(visits[s], eff.p90), 1000),
             bucket |-> AssignBucket(PredictiveScore(visits[s], eff.p90), 1000 * eff.p35, 1000 * eff.p72),
             oper |-> Override(visits[s], AssignBucket(PredictiveScore(visits[s], eff.p90), 1000 * eff.p35, 1000 * eff.p72))]
  <2> HIDE DEF eff
  <2>1. row = IF Bot(visits[s]) \/ ZeroSignal(visits[s])
              THEN [status |-> "excluded", score |-> None, bucket |-> None, oper |-> None]
              ELSE [status |-> "scored", score |-> RoundHalfEven(PredictiveScore(visits[s], eff.p90), 1000),
                    bucket |-> AssignBucket(PredictiveScore(visits[s], eff.p90), 1000 * eff.p35, 1000 * eff.p72),
                    oper |-> Override(visits[s], AssignBucket(PredictiveScore(visits[s], eff.p90), 1000 * eff.p35, 1000 * eff.p72))]
    BY DEF ScoreRow
  <2> HIDE DEF row
  <2> QED
    BY <1>3, <2>1
<1>7. thr' = thr /\ visits' = visits /\ day' = day
  BY <1>1
<1> HIDE DEF day, eff, row
<1>8. PICK exact : exact = PredictiveScore(visits[s], thr[day].p90)
  OBVIOUS
<1>9. /\ sess'[s].score = RoundHalfEven(exact, 1000)
      /\ sess'[s].bucket = AssignBucket(exact, 1000 * thr[day].p35, 1000 * thr[day].p72)
      /\ sess'[s].oper = Override(visits[s], sess'[s].bucket)
  BY <1>3, <1>5, <1>6, <1>8
<1> QED
  BY <1>7, <1>8, <1>9 DEF Fits

\* A step of a pass, or its end, that is not a write of a calibration.
LEMMA BucketPass ==
  ASSUME Typed, BucketInv, UNCHANGED <<clock, cast, thr>>, SameClosed, NEW c \in Containers,
         job'[c].step \notin {"thresholds", "reassign"}, job'[c].kind \in {"idle", job[c].kind},
         \A d \in Containers : d # c => job'[d] = job[d],
         hist.stale \subseteq hist'.stale, hist'.overlapped = hist.overlapped,
         job[c].step = "reassign" => job[c].at \in hist'.stale,
         \A s \in Session : sess'[s].status = "scored" => sess'[s] = sess[s] \/ InBucket(s)'
  PROVE  BucketInv'
<1>1. Session' = Session /\ visits' = visits
  BY SameCast
<1>2. Started'
  BY <1>1 DEF BucketInv, Started, SameClosed
<1>3. \A d \in Containers : CutsSet(d)'
  <2>1. ASSUME NEW d \in Containers
        PROVE  CutsSet(d)'
    <3>1. CASE d = c
      BY <3>1 DEF CutsSet
    <3>2. CASE d # c
      BY <3>2 DEF BucketInv, CutsSet, Days, DayOf
    <3> QED
      BY <3>1, <3>2
  <2> QED
    BY <2>1
<1>4. ~hist'.overlapped => ~hist.overlapped /\ AtMostOne'
  <2>1. ASSUME NEW d \in Containers, job'[d].kind # "idle"
        PROVE  job[d].kind # "idle"
    BY <2>1
  <2> QED
    BY <2>1 DEF BucketInv, AtMostOne
<1>5. /\ \A d \in Containers : job'[d].step = "reassign" => job'[d] = job[d]
      /\ \A d \in Containers : job[d].step = "reassign" => job'[d] = job[d] \/ job[d].at \in hist'.stale
  OBVIOUS
<1> QED
  BY <1>2, <1>3, <1>4, <1>5, BucketKept

LEMMA BucketScorePage ==
  ASSUME Typed, BucketInv, NEW c \in Containers, NEW failed, NEW unseen, ScorePage(c, failed, unseen)
  PROVE  BucketInv'
<1> DEFINE page == Page(c)
           ok == page \ failed
           S == ok \cup unseen
           breaks == job[c].kind = "window" /\ Cardinality(page) = PageSize
<1>1. /\ job[c].step = "page" /\ failed \subseteq page /\ unseen \subseteq failed
      /\ WriteScores(c, S)
      /\ UNCHANGED <<clock, cast, thr>>
  BY DEF ScorePage
<1>2. job' = [job EXCEPT ![c] = Idle] \/ job' = [job EXCEPT ![c].todo = @ \ page, ![c].touched = ActorsOf(ok),
                                                            ![c].step = "actors"]
  BY DEF ScorePage, Leave
<1>3. hist'.overlapped = hist.overlapped /\ hist'.stale = hist.stale \cup OutOfDate(c, S)
  BY DEF ScorePage, Typed, History
<1>4. DOMAIN job = Containers /\ JobTyped(c)
  BY DEF Typed, Jobs
<1>5. S \in SUBSET Closed(sess)
  BY <1>1, <1>4, PageIn DEF JobTyped
<1> HIDE DEF page, ok, S
<1>6. SameClosed /\ \A s \in Session : s \notin S => sess'[s] = sess[s]
  BY <1>1, <1>5, RowsWritten
<1>7. /\ job'[c].step \notin {"thresholds", "reassign"} /\ job'[c].kind \in {"idle", job[c].kind}
      /\ \A d \in Containers : d # c => job'[d] = job[d]
  <2>1. CASE job' = [job EXCEPT ![c] = Idle]
    BY <1>4, <2>1 DEF Idle
  <2>2. CASE job' = [job EXCEPT ![c].todo = @ \ page, ![c].touched = ActorsOf(ok), ![c].step = "actors"]
    BY <1>4, <2>2 DEF JobTyped
  <2> QED
    BY <1>2, <2>1, <2>2
<1>8. ASSUME NEW s \in Session, sess'[s].status = "scored"
      PROVE  sess'[s] = sess[s] \/ InBucket(s)'
  <2>1. CASE s \in S
    BY <1>1, <1>3, <1>5, <1>8, <2>1, FitsWhenWritten DEF BucketInv
  <2> QED
    BY <1>6, <2>1
<1> QED
  BY <1>1, <1>3, <1>6, <1>7, <1>8, BucketPass

LEMMA BucketFailInPage ==
  ASSUME Typed, BucketInv, NEW c \in Containers, NEW S, FailInPage(c, S)
  PROVE  BucketInv'
<1>1. /\ job[c].step = "page" /\ S \subseteq Page(c) /\ WriteScores(c, S)
      /\ UNCHANGED <<clock, cast, thr>> /\ job' = [job EXCEPT ![c] = Idle]
      /\ hist'.overlapped = hist.overlapped /\ hist'.stale = hist.stale \cup OutOfDate(c, S)
  BY DEF FailInPage, Leave, Typed, History
<1>2. DOMAIN job = Containers /\ JobTyped(c)
  BY DEF Typed, Jobs
<1>3. S \in SUBSET Closed(sess)
  BY <1>1, <1>2, PageIn DEF JobTyped
<1>4. SameClosed /\ \A s \in Session : s \notin S => sess'[s] = sess[s]
  BY <1>1, <1>3, RowsWritten
<1>5. /\ job'[c].step \notin {"thresholds", "reassign"} /\ job'[c].kind = "idle"
      /\ \A d \in Containers : d # c => job'[d] = job[d]
  BY <1>1, <1>2 DEF Idle
<1>6. ASSUME NEW s \in Session, sess'[s].status = "scored"
      PROVE  sess'[s] = sess[s] \/ InBucket(s)'
  <2>1. CASE s \in S
    BY <1>1, <1>3, <1>6, <2>1, FitsWhenWritten DEF BucketInv
  <2> QED
    BY <1>4, <2>1
<1> QED
  BY <1>1, <1>4, <1>5, <1>6, BucketPass

LEMMA BucketOtherSteps ==
  ASSUME Typed, BucketInv, NEW c \in Containers, RecomputeActors(c) \/ DrainStops(c) \/ Fail(c)
  PROVE  BucketInv'
<1>1. /\ UNCHANGED <<clock, cast, sess, thr>> /\ hist'.overlapped = hist.overlapped
      /\ hist.stale \subseteq hist'.stale
      /\ job[c].step = "reassign" => job[c].at \in hist'.stale
  <2>1. CASE RecomputeActors(c)
    BY <2>1 DEF RecomputeActors, Typed, History
  <2>2. CASE DrainStops(c)
    BY <2>2 DEF DrainStops
  <2>3. CASE Fail(c)
    BY <2>3 DEF Fail, Typed, History
  <2> QED
    BY <2>1, <2>2, <2>3
<1>2. job' = [job EXCEPT ![c] = Idle] \/ (job[c].kind = "drain" /\ job' = [job EXCEPT ![c].touched = {}, ![c].step = "page"])
  BY DEF RecomputeActors, DrainStops, Fail, Leave
<1>3. DOMAIN job = Containers /\ JobTyped(c)
  BY DEF Typed, Jobs
<1>4. /\ job'[c].step \notin {"thresholds", "reassign"} /\ job'[c].kind \in {"idle", job[c].kind}
      /\ \A d \in Containers : d # c => job'[d] = job[d]
  BY <1>2, <1>3 DEF Idle, JobTyped
<1>5. SameClosed
  BY <1>1, SameRows
<1> QED
  BY <1>1, <1>4, <1>5, BucketPass

\* A pass begins; a calibration with the cuts of the scores it read.
LEMMA BucketStart ==
  ASSUME Typed, BucketInv, NEW c \in Containers, NEW pass, Start(c, pass),
         pass.kind \in {"window", "drain", "calibration"}, pass.kind # "calibration" => TakeLock(c),
         pass.step # "reassign",
         pass.step = "thresholds" => pass.at \in Days /\ pass.cuts.p35 \in Int /\ pass.cuts.p72 \in Int
  PROVE  BucketInv'
<1>1. /\ UNCHANGED <<clock, cast, sess, thr>> /\ job[c] = Idle /\ job' = [job EXCEPT ![c] = pass]
      /\ hist'.stale = hist.stale
  BY DEF Start, Typed, History
<1>2. job'[c] = pass /\ job[c].step = "idle" /\ \A d \in Containers : d # c => job'[d] = job[d]
  BY <1>1 DEF Typed, Jobs, Idle
<1>3. Session' = Session /\ visits' = visits /\ Started'
  BY <1>1, SameCast DEF BucketInv, Started
<1>4. ASSUME NEW d \in Containers
      PROVE  CutsSet(d)'
  <2>1. CASE d = c
    BY <1>2, <2>1 DEF CutsSet, Days, DayOf
  <2>2. CASE d # c
    BY <1>2, <2>2 DEF BucketInv, CutsSet, Days, DayOf
  <2> QED
    BY <2>1, <2>2
<1>5. ~hist'.overlapped => ~hist.overlapped /\ AtMostOne'
  BY StartAlone
<1>6. /\ \A d \in Containers : job'[d].step = "reassign" => job'[d] = job[d]
      /\ \A d \in Containers : job[d].step = "reassign" => job'[d] = job[d]
  BY <1>2
<1> QED
  BY <1>1, <1>3, <1>4, <1>5, <1>6, BucketKept

LEMMA BucketStarts ==
  ASSUME Typed, BucketInv, NEW c \in Containers, StartWindow(c) \/ StartDrain(c) \/ StartCalibration(c)
  PROVE  BucketInv'
<1>1. CASE StartWindow(c)
  <2>1. PICK r \in Readers :
          LET todo == EligibleSessions(r.sess, ToDbClock(WindowStart(clock)), ToDbClock(clock))
          IN  Start(c, [Idle EXCEPT !.kind = "window", !.at = clock, !.first = watermark = None,
                                    !.thr = r.thr, !.todo = todo,
                                    !.step = IF todo = {} THEN "actors" ELSE "page"])
    BY <1>1 DEF StartWindow
  <2> DEFINE todo == EligibleSessions(r.sess, ToDbClock(WindowStart(clock)), ToDbClock(clock))
             pass == [Idle EXCEPT !.kind = "window", !.at = clock, !.first = watermark = None,
                                  !.thr = r.thr, !.todo = todo,
                                  !.step = IF todo = {} THEN "actors" ELSE "page"]
  <2>2. Start(c, pass)
    BY <2>1
  <2>3. TakeLock(c)
    BY <1>1 DEF StartWindow
  <2> HIDE DEF todo
  <2>4. pass.kind = "window" /\ pass.step \in {"actors", "page"}
    BY DEF Idle
  <2> HIDE DEF pass
  <2> QED
    BY <2>2, <2>3, <2>4, BucketStart
<1>2. CASE StartDrain(c)
  <2>1. PICK r, todo : Start(c, [Idle EXCEPT !.kind = "drain", !.thr = r.thr, !.todo = todo, !.step = "page"])
    BY <1>2 DEF StartDrain
  <2> DEFINE pass == [Idle EXCEPT !.kind = "drain", !.thr = r.thr, !.todo = todo, !.step = "page"]
  <2>2. pass.kind = "drain" /\ pass.step = "page"
    BY DEF Idle
  <2>3. TakeLock(c)
    BY <1>2 DEF StartDrain
  <2> HIDE DEF pass
  <2>4. Start(c, pass)
    BY <2>1 DEF pass
  <2> QED
    BY <2>2, <2>3, <2>4, BucketStart
<1>3. CASE StartCalibration(c)
  <2> DEFINE yesterday == DayOf(clock) - 1
  <2>1. PICK r \in Readers :
          LET day == { s \in Closed(r.sess) : SessionDay(s) = yesterday }
              scored == { s \in day : r.sess[s].status = "scored" }
          IN  Start(c, [Idle EXCEPT !.kind = "calibration", !.step = "thresholds", !.at = yesterday,
                          !.cuts = Calibrated([s \in scored |-> r.sess[s].score], [s \in day |-> visits[s]])])
    BY <1>3 DEF StartCalibration
  <2> DEFINE day == { s \in Closed(r.sess) : SessionDay(s) = yesterday }
             scored == { s \in day : r.sess[s].status = "scored" }
             scores == [s \in scored |-> r.sess[s].score]
             cuts == Calibrated(scores, [s \in day |-> visits[s]])
             pass == [Idle EXCEPT !.kind = "calibration", !.step = "thresholds", !.at = yesterday, !.cuts = cuts]
  <2>2. Start(c, pass)
    BY <2>1
  <2>3. yesterday \in Days
    <3>1. clock \in Nat /\ MaxTime \in Nat /\ clock <= MaxTime /\ DayOf(clock) > 0
      <4>1. DayOf(clock) > 0
        BY <1>3 DEF StartCalibration
      <4>2. MaxTime \in Nat /\ clock \in 0 .. MaxTime
        BY ScoringAssumption DEF ScoringAssumption, Typed, Clocks
      <4> QED
        BY <4>1, <4>2
    <3>2. DayOf(clock) \in Nat /\ DayOf(MaxTime) \in Nat /\ DayOf(clock) <= DayOf(MaxTime)
      BY <3>1, DayOrder
    <3> QED
      BY <3>1, <3>2 DEF Days
  <2>4. cuts.p35 \in Int /\ cuts.p72 \in Int
    <3>1. scored \subseteq Session /\ \A s \in scored : r.sess[s].status = "scored"
      BY DEF Closed
    <3> HIDE DEF scored, day
    <3>2. IsFiniteSet(scored)
      BY <3>1, VisitTyped, FS_Subset DEF Typed
    <3>3. \A s \in Session : RowTyped(r.sess[s])
      BY DEF Readers, Typed, Rows, ReplicaBehind
    <3>4. scores \in [scored -> Int]
      BY <3>1, <3>3, FormulasAssumption DEF RowTyped, FormulasAssumption
    <3> HIDE DEF scores
    <3> QED
      BY <3>2, <3>4, CutsTyped
  <2> HIDE DEF cuts, yesterday
  <2>5. pass.kind = "calibration" /\ pass.step = "thresholds" /\ pass.at = yesterday /\ pass.cuts = cuts
    BY DEF Idle
  <2> HIDE DEF pass
  <2> QED
    BY <2>2, <2>3, <2>4, <2>5, BucketStart
<1> QED
  BY <1>1, <1>2, <1>3

\* The thresholds of a day are written: its rows wait for their buckets.
LEMMA BucketWriteThresholds ==
  ASSUME Typed, BucketInv, NEW c \in Containers, WriteThresholds(c)
  PROVE  BucketInv'
<1>1. /\ UNCHANGED <<clock, cast, sess, hist>> /\ job[c].step = "thresholds"
      /\ thr' = [thr EXCEPT ![job[c].at] = job[c].cuts]
      /\ job' = [job EXCEPT ![c].step = "reassign"]
  BY DEF WriteThresholds
<1>2. DOMAIN job = Containers /\ DOMAIN thr = Days /\ \A d \in Containers : JobTyped(d)
  BY DEF Typed, Jobs
<1>3. /\ job'[c].step = "reassign" /\ job'[c].at = job[c].at /\ job'[c].cuts = job[c].cuts
      /\ job'[c].kind = job[c].kind
      /\ \A d \in Containers : d # c => job'[d] = job[d]
  BY <1>1, <1>2 DEF JobTyped
<1>4. CutsSet(c) /\ job[c].at \in Days
  BY <1>1 DEF BucketInv, CutsSet
<1>5. thr'[job[c].at] = job[c].cuts /\ \A d : d # job[c].at => thr'[d] = thr[d]
  BY <1>1, <1>2, <1>4
<1>6. Session' = Session /\ visits' = visits /\ Started' /\ \A s : SessionDay(s)' = SessionDay(s)
  BY <1>1, SameCast DEF BucketInv, Started, SessionDay, DayOf
<1>7. \A d \in Containers : CutsSet(d)'
  BY <1>1, <1>3, <1>4 DEF BucketInv, CutsSet, Days, DayOf
<1>8. SUFFICES ASSUME ~hist.overlapped
               PROVE  /\ AtMostOne'
                      /\ \A d \in Containers : CutsWritten(d)'
                      /\ \A s \in Session : InBucket(s)'
  BY <1>1, <1>6, <1>7 DEF BucketInv
<1>9. AtMostOne /\ \A s \in Session : InBucket(s)
  BY <1>8 DEF BucketInv
<1>10. AtMostOne'
  BY <1>3, <1>9 DEF AtMostOne
<1>11. \A d \in Containers : d # c => job[d].step # "reassign"
  BY <1>1, <1>2, <1>9 DEF AtMostOne, JobTyped, Steps
<1>12. \A d \in Containers : CutsWritten(d)'
  BY <1>3, <1>5, <1>11 DEF CutsWritten
<1>13. ASSUME NEW s \in Session
       PROVE  InBucket(s)'
  <2>1. CASE SessionDay(s) = job[c].at
    <3>1. Awaiting(c, SessionDay(s))'
      BY <1>3, <1>6, <2>1 DEF Awaiting
    <3> QED
      BY <3>1 DEF InBucket
  <2>2. CASE SessionDay(s) # job[c].at
    <3>1. PICK day : day = SessionDay(s) /\ SessionDay(s)' = day
      BY <1>6
    <3>2. SUFFICES ASSUME sess[s].status = "scored", thr[day] # None, day \notin hist.stale
                   PROVE  Fits(s, thr[day])'
      BY <1>1, <1>5, <2>2, <3>1 DEF InBucket
    <3>3. \A d \in Containers : ~Awaiting(d, day)
      BY <1>1, <1>11 DEF Awaiting
    <3>4. Fits(s, thr[day])
      BY <1>9, <3>1, <3>2, <3>3 DEF InBucket
    <3>5. thr'[day] = thr[day]
      BY <1>5, <2>2, <3>1
    <3> QED
      BY <1>1, <1>6, <3>4, <3>5 DEF Fits
  <2> QED
    BY <2>1, <2>2
<1> QED
  BY <1>10, <1>12, <1>13

\* The rows of the day get their buckets from their stored scores.
LEMMA BucketReassign ==
  ASSUME Typed, BucketInv, NEW c \in Containers, ReassignBuckets(c)
  PROVE  BucketInv'
<1>1. /\ UNCHANGED <<clock, cast, thr>> /\ job[c].step = "reassign"
      /\ hist'.stale = hist.stale \ {job[c].at} /\ hist'.overlapped = hist.overlapped
      /\ job' = [job EXCEPT ![c].step = "actors"]
  BY DEF ReassignBuckets, Typed, History
<1>2. DOMAIN job = Containers /\ \A d \in Containers : JobTyped(d)
  BY DEF Typed, Jobs
<1>3. /\ job'[c].step = "actors" /\ job'[c].kind = job[c].kind
      /\ \A d \in Containers : d # c => job'[d] = job[d]
  BY <1>1, <1>2 DEF JobTyped
<1>4. /\ SameClosed
      /\ \A s \in Session :
           /\ sess'[s].status = sess[s].status
           /\ sess'[s].score = sess[s].score
           /\ IF sess[s].status = "scored" /\ SessionDay(s) = job[c].at
              THEN /\ sess'[s].bucket = AssignBucket(sess[s].score, job[c].cuts.p35, job[c].cuts.p72)
                   /\ sess'[s].oper = Override(visits[s], sess'[s].bucket)
              ELSE sess'[s] = sess[s]
  BY RowsReassigned
<1>5. Session' = Session /\ visits' = visits /\ \A s : SessionDay(s)' = SessionDay(s)
  BY <1>1, SameCast DEF SessionDay, DayOf
<1>6. Started'
  BY <1>1, <1>4, <1>5 DEF BucketInv, Started, SameClosed
<1>7. \A d \in Containers : CutsSet(d)'
  BY <1>1, <1>3 DEF BucketInv, CutsSet, Days, DayOf
<1>8. SUFFICES ASSUME ~hist.overlapped
               PROVE  /\ AtMostOne'
                      /\ \A d \in Containers : CutsWritten(d)'
                      /\ \A s \in Session : InBucket(s)'
  BY <1>1, <1>5, <1>6, <1>7 DEF BucketInv
<1>9. AtMostOne /\ (\A d \in Containers : CutsWritten(d)) /\ (\A s \in Session : InBucket(s))
  BY <1>8 DEF BucketInv
<1>10. AtMostOne' /\ \A d \in Containers : CutsWritten(d)'
  BY <1>1, <1>3, <1>9 DEF AtMostOne, CutsWritten
<1>11. ASSUME NEW s \in Session, sess[s].status = "scored", thr[SessionDay(s)] # None
       PROVE  InBucket(s)'
  <2>1. PICK day : day = SessionDay(s) /\ SessionDay(s)' = day
    BY <1>5
  <2>2. CASE day = job[c].at
    <3>1. PICK cuts : cuts = job[c].cuts /\ thr[day] = cuts /\ thr'[day] = cuts /\ cuts.p35 \in Int /\ cuts.p72 \in Int
      BY <1>1, <1>9, <2>2 DEF BucketInv, CutsWritten, CutsSet
    <3>2. sess[s].score \in Int
      BY <1>11, FormulasAssumption DEF Typed, Rows, RowTyped, FormulasAssumption
    <3>3. /\ RoundHalfEven(1000 * sess[s].score, 1000) = sess[s].score
          /\ AssignBucket(1000 * sess[s].score, 1000 * cuts.p35, 1000 * cuts.p72) = AssignBucket(sess[s].score, cuts.p35, cuts.p72)
      <4>1. PICK p \in Int, q \in Int : p = cuts.p35 /\ q = cuts.p72
        BY <3>1
      <4>2. PICK score \in Int : score = sess[s].score
        BY <3>2
      <4>3. /\ RoundHalfEven(1000 * score, 1000) = score
            /\ AssignBucket(1000 * score, 1000 * p, 1000 * q) = AssignBucket(score, p, q)
        BY SameBucket
      <4> QED
        BY <4>1, <4>2, <4>3
    <3>4. /\ sess'[s].score = sess[s].score
          /\ sess'[s].bucket = AssignBucket(sess[s].score, cuts.p35, cuts.p72)
          /\ sess'[s].oper = Override(visits[s], sess'[s].bucket)
      BY <1>4, <1>11, <2>1, <2>2, <3>1
    <3>5. Fits(s, thr[day])'
      BY <1>5, <3>1, <3>3, <3>4 DEF Fits
    <3> QED
      BY <2>1, <3>5 DEF InBucket
  <2>3. CASE day # job[c].at
    <3>1. SUFFICES ASSUME day \notin hist.stale, \A d \in Containers : ~Awaiting(d, day)'
                   PROVE  Fits(s, thr[day])'
      BY <1>1, <2>1, <2>3 DEF InBucket
    <3>2. \A d \in Containers : ~Awaiting(d, day)
      BY <1>1, <1>3, <2>3, <3>1 DEF Awaiting
    <3>3. Fits(s, thr[day])
      BY <1>9, <1>11, <2>1, <3>1, <3>2 DEF InBucket
    <3>4. sess'[s] = sess[s]
      BY <1>4, <2>1, <2>3
    <3> QED
      BY <1>1, <1>5, <3>3, <3>4 DEF Fits
  <2> QED
    BY <2>2, <2>3
<1>12. ASSUME NEW s \in Session
       PROVE  InBucket(s)'
  <2>1. CASE sess[s].status = "scored" /\ thr[SessionDay(s)] # None
    BY <1>11, <2>1
  <2>2. CASE ~(sess[s].status = "scored" /\ thr[SessionDay(s)] # None)
    BY <1>1, <1>4, <1>5, <2>2 DEF InBucket
  <2> QED
    BY <2>1, <2>2
<1> QED
  BY <1>10, <1>12

LEMMA BucketStep ==
  ASSUME Typed, Typed', BucketInv, [Next]_vars
  PROVE  BucketInv'
<1>0. clock \in Nat /\ clock' \in Nat
  BY DEF Typed, Clocks
<1>1. CASE UNCHANGED vars
  BY <1>0, <1>1, BucketTick DEF vars
<1>2. CASE Tick
  BY <1>0, <1>2, BucketTick DEF Tick
<1>3. ASSUME NEW s \in Session, CloseSession(s)
      PROVE  BucketInv'
  BY <1>3, BucketClose
<1>4. ASSUME NEW c \in Containers,
             \/ StartWindow(c)
             \/ StartDrain(c)
             \/ StartCalibration(c)
             \/ \E failed, unseen : ScorePage(c, failed, unseen)
             \/ RecomputeActors(c)
             \/ WriteThresholds(c)
             \/ ReassignBuckets(c)
             \/ DrainStops(c)
             \/ Fail(c)
             \/ \E S : FailInPage(c, S)
      PROVE  BucketInv'
  BY <1>4, BucketStarts, BucketScorePage, BucketOtherSteps, BucketWriteThresholds, BucketReassign,
     BucketFailInPage
<1> QED
  BY <1>1, <1>2, <1>3, <1>4 DEF Next

LEMMA BucketInit ==
  ASSUME Init
  PROVE  BucketInv
<1>1. /\ sess = [s \in Session |-> NoSession] /\ job = [c \in Containers |-> Idle]
  BY DEF Init
<1>2. \A s \in Session : sess[s].status = "open"
  BY <1>1 DEF NoSession
<1>3. \A c \in Containers : job[c].step = "idle" /\ job[c].kind = "idle"
  BY <1>1 DEF Idle
<1> QED
  BY <1>2, <1>3 DEF BucketInv, Started, CutsSet, CutsWritten, InBucket, AtMostOne

\* A row that fits agrees with its day's thresholds.
LEMMA FitsAgree ==
  ASSUME Typed, BucketInv
  PROVE  BucketsAgree
<1>1. SUFFICES ASSUME NEW s \in Session, NEW day, day = SessionDay(s),
                      sess[s].status = "scored", thr[day] # None, day \notin hist.stale, ~hist.overlapped,
                      \A c \in Containers : job[c].step # "reassign"
               PROVE  /\ \E exact \in AsStored(s) :
                           sess[s].bucket = AssignBucket(exact, 1000 * thr[day].p35, 1000 * thr[day].p72)
                      /\ sess[s].oper = Override(visits[s], sess[s].bucket)
  BY DEF BucketsAgree
<1>2. day \in Days
  BY <1>1, DayOfClosed DEF BucketInv
<1>3. \A c \in Containers : ~Awaiting(c, day)
  BY <1>1 DEF Awaiting
<1>4. Fits(s, thr[day])
  BY <1>1, <1>3 DEF BucketInv, InBucket
<1>5. PICK exact \in {1000 * sess[s].score, PredictiveScore(visits[s], thr[day].p90)} :
        /\ RoundHalfEven(exact, 1000) = sess[s].score
        /\ sess[s].bucket = AssignBucket(exact, 1000 * thr[day].p35, 1000 * thr[day].p72)
  BY <1>4 DEF Fits
<1>6. exact \in AsStored(s)
  <2>1. day \in { e \in Days : thr[e] # None }
    BY <1>1, <1>2
  <2> QED
    BY <1>5, <2>1 DEF AsStored
<1> QED
  BY <1>4, <1>5, <1>6 DEF Fits

\* Every scored session of a calibrated day is in the bucket its day's thresholds
\* give, from its stored score or the one that was rounded to it, unless it was
\* scored from older thresholds or the calibration was cut or overlapped.
THEOREM BucketsAlwaysAgree == Spec => []BucketsAgree
<1>1. Init => BucketInv
  BY BucketInit
<1>2. Typed /\ Typed' /\ BucketInv /\ [Next]_vars => BucketInv'
  BY BucketStep
<1>3. Typed /\ BucketInv => BucketsAgree
  BY FitsAgree
<1> QED
  BY <1>1, <1>2, <1>3, TypedAlways, PTL DEF Spec
=============================================================================
