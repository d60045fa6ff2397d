---------------------------- MODULE RollupsProofs ----------------------------
(***************************************************************************)
(* Theorems about Rollups: for any rows, arriving at any time after their   *)
(* own, any lookbacks, day length and number of failures, what came in time *)
(* is counted for good and a run is skipped only when it would change       *)
(* nothing.                                                                 *)
(***************************************************************************)
EXTENDS Rollups, TLAPS, FiniteSetTheorems, SequenceTheorems, WellFoundedInduction

-----------------------------------------------------------------------------
(* What the tables count *)

\* The stages whose facts depend on no level.
Plain == {"summary", "pages", "clicks", "products", "paths"}

\* Those of them that count a row whatever else there is.
PerRow == Plain \ {"paths"}

\* The facts of a stage over all rows, some sessions being open.
FactsOf(stage, rows, open) ==
  CASE stage = "summary" -> SummaryFacts(rows, open)
    [] stage = "pages" -> PageFacts(rows)
    [] stage = "clicks" -> ClickFacts(rows)
    [] stage = "products" -> ProductFacts(rows)
    [] stage = "paths" -> PathFacts(rows)

\* What a stage counts for one row.
RowFacts(stage, r) == FactsOf(stage, {r}, {})

OnDays(facts, days) == {f \in facts : f.day \in days}

\* What the stage counts on those days, for the rows that are there now.
Current(stage, days) == OnDays(FactsOf(stage, arrived, Open), days)

\* The sessions that are read before s on its day.
Earlier(rows, s) ==
  {t \in Sessions(rows) : /\ DayOf(t.time) = DayOf(s.time)
                          /\ t.time < s.time \/ (t.time = s.time /\ t.id < s.id)}

\* A session's path.
PathOf(s) == Fact(s, CollapsedPath(s.trail), s.row)

-----------------------------------------------------------------------------
(* Days and windows *)

\* Days do not run backwards.
LEMMA DayMono ==
  ASSUME NEW a \in Nat, NEW b \in Nat, a <= b
  PROVE  DayOf(a) \in Nat /\ DayOf(b) \in Nat /\ DayOf(a) <= DayOf(b)
<1>1. DayLen \in Nat \ {0}
  BY RollupsAssumption
<1>2. \A n \in Nat \ {0} : a \div n \in Nat /\ b \div n \in Nat /\ a \div n <= b \div n
  BY SMT
<1> QED
  BY <1>1, <1>2 DEF DayOf

\* Time begins on day 0.
LEMMA DayZero == DayOf(0) = 0
<1>1. \A n \in Nat \ {0} : 0 \div n = 0
  BY SMT
<1> QED
  BY <1>1, RollupsAssumption DEF DayOf

\* The largest of two.
LEMMA MaxTwo ==
  ASSUME NEW a \in Int, NEW b \in Int
  PROVE  /\ Max({a, b}) \in {a, b}
         /\ Max({a, b}) >= a /\ Max({a, b}) >= b
<1>1. \E x \in {a, b} : \A y \in {a, b} : x >= y
  <2>1. CASE a >= b
    BY <2>1
  <2>2. CASE b >= a
    BY <2>2
  <2> QED
    BY <2>1, <2>2
<1> QED
  BY <1>1 DEF Max

\* The largest of three.
LEMMA MaxThree ==
  ASSUME NEW a \in Int, NEW b \in Int, NEW c \in Int
  PROVE  /\ Max({a, b, c}) \in {a, b, c}
         /\ Max({a, b, c}) >= a /\ Max({a, b, c}) >= b /\ Max({a, b, c}) >= c
<1>1. \E x \in {a, b, c} : \A y \in {a, b, c} : x >= y
  <2>1. CASE a >= b /\ a >= c
    BY <2>1
  <2>2. CASE b >= a /\ b >= c
    BY <2>2
  <2>3. CASE c >= a /\ c >= b
    BY <2>3
  <2> QED
    BY <2>1, <2>2, <2>3
<1> QED
  BY <1>1 DEF Max

\* The ends of an interval.
LEMMA IntervalEnds ==
  ASSUME NEW a \in Int, NEW b \in Int, a <= b
  PROVE  Max(a .. b) = b /\ Min(a .. b) = a
<1>1. \A x \in a .. b : (\A y \in a .. b : x >= y) <=> x = b
  OBVIOUS
<1>2. \A x \in a .. b : (\A y \in a .. b : x =< y) <=> x = a
  OBVIOUS
<1>3. a \in a .. b /\ b \in a .. b
  OBVIOUS
<1> QED
  BY <1>1, <1>2, <1>3 DEF Max, Min

\* The window reaches back as far as its bounds let it.
LEMMA WindowStartIs ==
  ASSUME NEW now \in Nat, watermark \in {None} \cup 0 .. now
  PROVE  /\ WindowStart(now) \in 0 .. now
         /\ watermark # None => watermark - Overlap <= WindowStart(now)
         /\ watermark # None /\ now - MaxWindow <= watermark - Overlap =>
              WindowStart(now) = Max({0, watermark - Overlap})
<1> DEFINE third == IF watermark = None THEN now - FirstLookback ELSE watermark - Overlap
<1>1. Overlap \in Nat /\ MaxWindow \in Nat /\ FirstLookback \in Nat
  BY RollupsAssumption
<1>2. third \in Int /\ third <= now
  BY <1>1
<1>3. WindowStart(now) = Max({0, now - MaxWindow, third})
  BY DEF WindowStart
<1> HIDE DEF third
<1>4. now - MaxWindow \in Int /\ now - MaxWindow <= now
  BY <1>1
<1>5. /\ WindowStart(now) \in {0, now - MaxWindow, third}
      /\ WindowStart(now) >= 0 /\ WindowStart(now) >= now - MaxWindow /\ WindowStart(now) >= third
  <2>1. 0 \in Int /\ third \in Int /\ now - MaxWindow \in Int
    BY <1>2, <1>4
  <2>2. /\ Max({0, now - MaxWindow, third}) \in {0, now - MaxWindow, third}
        /\ Max({0, now - MaxWindow, third}) >= 0
        /\ Max({0, now - MaxWindow, third}) >= now - MaxWindow
        /\ Max({0, now - MaxWindow, third}) >= third
    BY <2>1, MaxThree, Zenon
  <2> QED
    BY <1>3, <2>2, Zenon
<1>6. WindowStart(now) \in 0 .. now
  BY <1>2, <1>4, <1>5
<1>7. watermark # None => watermark - Overlap <= WindowStart(now)
  BY <1>1, <1>2, <1>5 DEF third
<1>8. ASSUME watermark # None, now - MaxWindow <= watermark - Overlap
      PROVE  WindowStart(now) = Max({0, watermark - Overlap})
  <2>1. third = watermark - Overlap /\ watermark - Overlap \in Int
    BY <1>1, <1>8 DEF third
  <2>2. /\ Max({0, watermark - Overlap}) \in {0, watermark - Overlap}
        /\ Max({0, watermark - Overlap}) >= 0
        /\ Max({0, watermark - Overlap}) >= watermark - Overlap
    BY <2>1, MaxTwo
  <2> QED
    BY <1>4, <1>5, <1>8, <2>1, <2>2
<1> QED
  BY <1>6, <1>7, <1>8

-----------------------------------------------------------------------------
(* Facts of rows and of days *)

\* A row's facts are of its day.
LEMMA FactDay ==
  ASSUME NEW stage \in PerRow, NEW r, NEW f \in RowFacts(stage, r)
  PROVE  f.day = DayOf(r.time)
<1>1. CASE stage = "summary"
  BY <1>1 DEF RowFacts, FactsOf, SummaryFacts, Fact, Sessions
<1>2. CASE stage = "pages"
  BY <1>2 DEF RowFacts, FactsOf, PageFacts, Fact, Events, Clicks
<1>3. CASE stage = "clicks"
  BY <1>3 DEF RowFacts, FactsOf, ClickFacts, Fact, Clicks
<1>4. CASE stage = "products"
  BY <1>4 DEF RowFacts, FactsOf, ProductFacts, Fact, Events
<1> QED
  BY <1>1, <1>2, <1>3, <1>4 DEF PerRow, Plain

\* What is counted is counted for some row, or for an open session.
LEMMA FactsOfRows ==
  ASSUME NEW stage \in PerRow, NEW rows, NEW open, NEW f
  PROVE  f \in FactsOf(stage, rows, open) <=>
           \/ \E r \in rows : f \in RowFacts(stage, r)
           \/ stage = "summary" /\ \E s \in open : f = Fact(s, "started", s.row)
<1>1. CASE stage = "summary"
  <2>1. f \in FactsOf(stage, rows, open) <=> f \in SummaryFacts(rows, open)
    BY <1>1 DEF FactsOf
  <2>2. \A r : f \in RowFacts(stage, r) <=> f \in SummaryFacts({r}, {})
    BY <1>1 DEF RowFacts, FactsOf
  <2> QED
    BY <1>1, <2>1, <2>2 DEF SummaryFacts, Sessions
<1>2. CASE stage = "pages"
  <2>1. f \in FactsOf(stage, rows, open) <=> f \in PageFacts(rows)
    BY <1>2 DEF FactsOf
  <2>2. \A r : f \in RowFacts(stage, r) <=> f \in PageFacts({r})
    BY <1>2 DEF RowFacts, FactsOf
  <2> QED
    BY <1>2, <2>1, <2>2 DEF PageFacts, Events, Clicks
<1>3. CASE stage = "clicks"
  <2>1. f \in FactsOf(stage, rows, open) <=> f \in ClickFacts(rows)
    BY <1>3 DEF FactsOf
  <2>2. \A r : f \in RowFacts(stage, r) <=> f \in ClickFacts({r})
    BY <1>3 DEF RowFacts, FactsOf
  <2> QED
    BY <1>3, <2>1, <2>2 DEF ClickFacts, Clicks
<1>4. CASE stage = "products"
  <2>1. f \in FactsOf(stage, rows, open) <=> f \in ProductFacts(rows)
    BY <1>4 DEF FactsOf
  <2>2. \A r : f \in RowFacts(stage, r) <=> f \in ProductFacts({r})
    BY <1>4 DEF RowFacts, FactsOf
  <2> QED
    BY <1>4, <2>1, <2>2 DEF ProductFacts, Events
<1> QED
  BY <1>1, <1>2, <1>3, <1>4 DEF PerRow, Plain

\* Paths are those of the first sessions of a day.
LEMMA PathFactsOf ==
  ASSUME NEW rows, NEW open, NEW f
  PROVE  f \in FactsOf("paths", rows, open) <=>
           \E s \in Sessions(rows) : Cardinality(Earlier(rows, s)) < MaxPerDate /\ f = PathOf(s)
BY DEF FactsOf, PathFacts, Earlier, PathOf

\* Counting the rows of some days is counting all and taking those days.
LEMMA FactsOn ==
  ASSUME NEW stage \in Plain, NEW rows, NEW open, NEW days
  PROVE  FactsOf(stage, On(rows, days), On(open, days)) = OnDays(FactsOf(stage, rows, open), days)
<1>1. CASE stage = "paths"
  <2>1. \A s : s \in Sessions(On(rows, days)) <=> s \in Sessions(rows) /\ DayOf(s.time) \in days
    BY DEF Sessions, On
  <2>2. \A s : DayOf(s.time) \in days => Earlier(On(rows, days), s) = Earlier(rows, s)
    BY DEF Earlier, Sessions, On
  <2>3. \A s : PathOf(s).day = DayOf(s.time)
    BY DEF PathOf, Fact
  <2>4. ASSUME NEW f
        PROVE  f \in FactsOf(stage, On(rows, days), On(open, days)) <=>
                 f \in FactsOf(stage, rows, open) /\ f.day \in days
    BY <1>1, <2>1, <2>2, <2>3, PathFactsOf
  <2> QED
    BY <2>4 DEF OnDays
<1>2. CASE stage # "paths"
  <2>1. stage \in PerRow
    BY <1>2 DEF PerRow
  <2>2. \A s : Fact(s, "started", s.row).day = DayOf(s.time)
    BY DEF Fact
  <2>3. ASSUME NEW f
        PROVE  f \in FactsOf(stage, On(rows, days), On(open, days)) <=>
                 f \in FactsOf(stage, rows, open) /\ f.day \in days
    BY <2>1, <2>2, FactsOfRows, FactDay DEF On
  <2> QED
    BY <2>3 DEF OnDays
<1> QED
  BY <1>1, <1>2

\* A day with sessions has a path: the first session's.
LEMMA DayHasPath ==
  ASSUME NEW rows, NEW open, \A s \in Sessions(rows) : s.time \in Nat /\ s.id \in Nat,
         NEW s \in Sessions(rows)
  PROVE  \E f \in FactsOf("paths", rows, open) : f.day = DayOf(s.time)
<1> DEFINE day == {t \in Sessions(rows) : DayOf(t.time) = DayOf(s.time)}
           first == {t \in day : \A u \in day : t.time <= u.time}
<1>1. \A T \in SUBSET Nat : T # {} => \E x \in T : \A y \in T : x <= y
  <2>1. \A x, y : <<y, x>> \in OpToRel(<, Nat) <=> y \in Nat /\ x \in Nat /\ y < x
    BY DEF OpToRel
  <2>2. ASSUME NEW T \in SUBSET Nat, T # {}
        PROVE  \E x \in T : \A y \in T : x <= y
    <3>1. PICK x \in T : \A y \in T : ~ (<<y, x>> \in OpToRel(<, Nat))
      BY <2>2, WFMin, NatLessThanWellFounded
    <3>2. \A y \in T : y \in Nat /\ x \in Nat /\ ~ (y < x)
      BY <2>1, <3>1
    <3> QED
      BY <3>2
  <2> QED
    BY <2>2
<1>2. s \in day
  OBVIOUS
<1>3. first # {}
  <2>1. {t.time : t \in day} \subseteq Nat /\ {t.time : t \in day} # {}
    BY <1>2
  <2>2. PICK x \in {t.time : t \in day} : \A y \in {t.time : t \in day} : x <= y
    BY <1>1, <2>1
  <2> QED
    BY <2>2
<1>4. PICK p \in first : \A u \in first : p.id <= u.id
  <2>1. {t.id : t \in first} \subseteq Nat /\ {t.id : t \in first} # {}
    BY <1>3
  <2>2. PICK x \in {t.id : t \in first} : \A y \in {t.id : t \in first} : x <= y
    BY <1>1, <2>1
  <2> QED
    BY <2>2
<1>5. p \in Sessions(rows) /\ DayOf(p.time) = DayOf(s.time)
  OBVIOUS
<1>6. Earlier(rows, p) = {}
  <2>1. ASSUME NEW t \in Earlier(rows, p)
        PROVE  FALSE
    <3>1. t \in day /\ (t.time < p.time \/ (t.time = p.time /\ t.id < p.id))
      BY <1>5, <2>1 DEF Earlier
    <3>2. p.time <= t.time /\ t.time \in Nat /\ p.time \in Nat /\ t.id \in Nat /\ p.id \in Nat
      BY <1>4, <1>5, <3>1
    <3>3. t.time = p.time /\ t.id < p.id
      BY <3>1, <3>2
    <3>4. t \in first
      BY <1>4, <3>1, <3>3
    <3> QED
      BY <1>4, <3>2, <3>3, <3>4
  <2> QED
    BY <2>1
<1>7. Cardinality(Earlier(rows, p)) < MaxPerDate
  BY <1>6, FS_EmptySet, RollupsAssumption
<1>8. PathOf(p) \in FactsOf("paths", rows, open)
  BY <1>5, <1>7, PathFactsOf
<1>9. PathOf(p).day = DayOf(s.time)
  BY <1>5 DEF PathOf, Fact
<1> QED
  BY <1>8, <1>9

-----------------------------------------------------------------------------
(* What a stage computes and stores *)

\* A stage's days are days up to its run's.
LEMMA StageDatesBound ==
  ASSUME NEW stage, NEW w \in Nat, NEW now \in Nat, w <= now
  PROVE  /\ StageDates(stage, Days(w, now)) \subseteq 0 .. DayOf(now)
         /\ stage \in Plain => StageDates(stage, Days(w, now)) = Days(w, now)
<1> DEFINE from == DayOf(w)  to == DayOf(now)
<1>1. from \in Nat /\ to \in Nat /\ from <= to
  BY DayMono
<1>2. Days(w, now) = from .. to
  BY DEF Days
<1>3. from .. to \subseteq 0 .. to
  BY <1>1
<1> HIDE DEF from, to
<1>4. ASSUME NEW lookback \in Nat
      PROVE  Extended(from .. to, lookback) \subseteq 0 .. to
  <2> DEFINE low == Max({0, to - lookback + 1})
             all == (from .. to) \cup {low}
  <2>1. to - lookback + 1 \in Int
    BY <1>1
  <2>2. low \in Nat
    <3>1. low \in {0, to - lookback + 1} /\ low >= 0
      BY <2>1, MaxTwo, 0 \in Int, Zenon
    <3> QED
      BY <2>1, <3>1
  <2> HIDE DEF low
  <2>3. Max(from .. to) = to
    BY <1>1, IntervalEnds
  <2>4. \E x \in all : \A y \in all : x =< y
    <3>1. CASE low <= from
      BY <1>1, <2>2, <3>1
    <3>2. CASE from <= low
      BY <1>1, <2>2, <3>2
    <3> QED
      BY <1>1, <2>2, <3>1, <3>2
  <2>5. Min(all) \in all
    BY <2>4 DEF Min
  <2>6. Min(all) \in Nat
    BY <1>1, <2>2, <2>5
  <2>7. Extended(from .. to, lookback) = Min(all) .. to
    BY <2>3 DEF Extended, low
  <2> QED
    BY <1>1, <2>6, <2>7
<1>5. IntentLookback \in Nat /\ HeatmapLookback \in Nat
  BY RollupsAssumption
<1> QED
  <2>1. to = DayOf(now)
    BY DEF to
  <2>2. CASE stage = "intent"
    BY <1>2, <1>4, <1>5, <2>1, <2>2 DEF StageDates, Plain
  <2>3. CASE stage = "heatmap"
    BY <1>2, <1>4, <1>5, <2>1, <2>3 DEF StageDates, Plain
  <2>4. CASE stage \notin {"intent", "heatmap"}
    BY <1>2, <1>3, <2>1, <2>4 DEF StageDates
  <2> QED
    BY <2>2, <2>3, <2>4

\* What a stage computes is of its days.
LEMMA ComputedDays ==
  ASSUME NEW stage, NEW dates, NEW source, NEW both,
         stage \in ToSet(Stages),
         NEW f \in Computed(stage, dates, source, both)
  PROVE  f.day \in StageDates(stage, dates)
<1> DEFINE days == StageDates(stage, dates)
           from == On(ReadFrom(stage, source), days)
<1>1. \A r \in from : DayOf(r.time) \in days
  BY DEF On
<1>2. \A r \in On(Open, days) : DayOf(r.time) \in days
  BY DEF On
<1>3. stage \in {"summary", "pages", "clicks", "products", "intent", "paths", "heatmap"}
  BY DEF ToSet, Stages
<1>4. CASE stage = "summary"
  <2>1. f \in SummaryFacts(from, IF both THEN On(Open, days) ELSE {})
    BY <1>4 DEF Computed
  <2> QED
    BY <1>1, <1>2, <2>1 DEF SummaryFacts, Sessions, Fact
<1>5. CASE stage = "pages"
  <2>1. f \in PageFacts(from)
    BY <1>5 DEF Computed
  <2> QED
    BY <1>1, <2>1 DEF PageFacts, Events, Clicks, Fact
<1>6. CASE stage = "clicks"
  <2>1. f \in ClickFacts(from)
    BY <1>6 DEF Computed
  <2> QED
    BY <1>1, <2>1 DEF ClickFacts, Clicks, Fact
<1>7. CASE stage = "products"
  <2>1. f \in ProductFacts(from)
    BY <1>7 DEF Computed
  <2> QED
    BY <1>1, <2>1 DEF ProductFacts, Events, Fact
<1>8. CASE stage = "intent"
  <2>1. f \in IntentFacts(from, Closed, score)
    BY <1>8 DEF Computed
  <2>2. \E e \in Events(from) : f.day = DayOf(e.time)
    BY <2>1 DEF IntentFacts, Fact
  <2> QED
    BY <1>1, <2>2 DEF Events
<1>9. CASE stage = "paths"
  <2>1. f \in FactsOf("paths", from, {})
    BY <1>9 DEF Computed, FactsOf
  <2>2. \E s \in Sessions(from) : f = PathOf(s)
    BY <2>1, PathFactsOf
  <2> QED
    BY <1>1, <2>2 DEF PathOf, Sessions, Fact
<1>10. CASE stage = "heatmap"
  <2>1. f \in HeatmapFacts(from, Closed, score, both)
    BY <1>10 DEF Computed
  <2>2. \E e \in Events(from) : f.day = DayOf(e.time)
    BY <2>1 DEF HeatmapFacts, Fact
  <2> QED
    BY <1>1, <2>2 DEF Events
<1> QED
  BY <1>3, <1>4, <1>5, <1>6, <1>7, <1>8, <1>9, <1>10

\* A run's copy is right for it: none, or the rows of its days but sessions.
ExactCopy(source, dates) == source = None \/ source = On(arrived, dates) \ Closed

\* A stage computes its facts for the rows it reads.
LEMMA ComputedFacts ==
  ASSUME NEW stage \in Plain, NEW dates, NEW source, NEW both
  PROVE  Computed(stage, dates, source, both) =
           FactsOf(stage, On(ReadFrom(stage, source), dates), IF both THEN On(Open, dates) ELSE {})
<1>1. StageDates(stage, dates) = dates
  BY DEF StageDates, Plain
<1> QED
  BY <1>1 DEF Computed, FactsOf, Plain

\* With the copy exact, and the open sessions read, a stage computes what a run on
\* the real tables would.
LEMMA ComputedCurrent ==
  ASSUME NEW stage \in Plain, NEW dates, NEW source, NEW both, ExactCopy(source, dates),
         both \/ stage # "summary"
  PROVE  Computed(stage, dates, source, both) = Current(stage, dates)
<1>0. Computed(stage, dates, source, both) =
        FactsOf(stage, On(ReadFrom(stage, source), dates), On(Open, dates))
  BY ComputedFacts DEF FactsOf, Plain
<1>1. CASE ReadFrom(stage, source) = arrived
  BY <1>0, <1>1, FactsOn DEF Current
<1>2. CASE ReadFrom(stage, source) # arrived
  <2> DEFINE copy == On(arrived, dates) \ Closed
  <2>1. stage \in {"pages", "clicks", "products"} /\ source = copy /\ ReadFrom(stage, source) = source
    BY <1>2 DEF ReadFrom, ReadsCopy, Plain, ExactCopy
  <2>2. /\ Events(On(copy, dates)) = Events(On(arrived, dates))
        /\ Clicks(On(copy, dates)) = Clicks(On(arrived, dates))
    BY DEF Events, Clicks, On, Closed, Sessions
  <2>3. FactsOf(stage, On(copy, dates), On(Open, dates)) = FactsOf(stage, On(arrived, dates), On(Open, dates))
    BY <2>1, <2>2 DEF FactsOf, PageFacts, ClickFacts, ProductFacts
  <2> QED
    BY <1>0, <2>1, <2>3, FactsOn DEF Current
<1> QED
  BY <1>1, <1>2

\* More rows count for more, and an open session that closes still counts.
LEMMA FactsGrow ==
  ASSUME NEW stage \in PerRow, NEW R, NEW S, NEW O, NEW Q,
         R \subseteq S, \A s \in O : s \in Q \/ s \in Sessions(S)
  PROVE  FactsOf(stage, R, O) \subseteq FactsOf(stage, S, Q)
<1>1. \A s \in Sessions(S) : stage = "summary" => Fact(s, "started", s.row) \in RowFacts(stage, s)
  BY DEF RowFacts, FactsOf, SummaryFacts, Sessions
<1>2. \A s \in Sessions(S) : s \in S
  BY DEF Sessions
<1> QED
  BY <1>1, <1>2, FactsOfRows

\* From part of the rows a stage computes part of what it would.
LEMMA ComputedPart ==
  ASSUME NEW stage \in Plain, NEW dates, NEW source, NEW both,
         source = None \/ source \subseteq arrived
  PROVE  Computed(stage, dates, source, both) \subseteq Current(stage, dates)
<1> DEFINE read == On(ReadFrom(stage, source), dates)
           open == IF both THEN On(Open, dates) ELSE {}
<1>1. read \subseteq On(arrived, dates) /\ open \subseteq On(Open, dates)
  BY DEF ReadFrom, On
<1>2. Computed(stage, dates, source, both) = FactsOf(stage, read, open)
  BY ComputedFacts
<1>3. FactsOf(stage, On(arrived, dates), On(Open, dates)) = Current(stage, dates)
  BY FactsOn DEF Current
<1>4. CASE stage \in PerRow
  <2> HIDE DEF read, open
  <2> QED
    BY <1>1, <1>2, <1>3, <1>4, FactsGrow
<1>5. CASE stage = "paths"
  <2>1. read = On(arrived, dates)
    BY <1>5 DEF ReadFrom, ReadsCopy
  <2> QED
    BY <1>2, <1>3, <1>5, <2>1 DEF FactsOf
<1> QED
  BY <1>4, <1>5 DEF PerRow

\* A row that a stage reads is counted.
LEMMA RowComputed ==
  ASSUME NEW stage \in PerRow, NEW dates, NEW source, NEW both, NEW r \in arrived,
         DayOf(r.time) \in dates,
         source = None \/ r \in Closed \/ r \in source
  PROVE  RowFacts(stage, r) \subseteq Computed(stage, dates, source, both)
<1>1. stage \in Plain
  BY DEF PerRow
<1>2. CASE r \in ReadFrom(stage, source)
  <2>1. r \in On(ReadFrom(stage, source), dates)
    BY <1>2 DEF On
  <2> QED
    BY <1>1, <2>1, ComputedFacts, FactsOfRows
<1>3. CASE r \notin ReadFrom(stage, source)
  <2>1. stage \in {"pages", "clicks", "products"} /\ r.kind = "sessions"
    BY <1>3 DEF ReadFrom, ReadsCopy, Closed, Sessions, PerRow, Plain
  <2>2. RowFacts(stage, r) = {}
    BY <2>1 DEF RowFacts, FactsOf, PageFacts, ClickFacts, ProductFacts, Events, Clicks
  <2> QED
    BY <2>2
<1> QED
  BY <1>2, <1>3

\* Rows of a day are replaced whole, if the stage has any.
LEMMA StoredIs ==
  ASSUME NEW stage, stage # "heatmap", NEW old, NEW new, NEW both
  PROVE  Stored(stage, old, new, both) = new \cup {f \in old : ~\E g \in new : g.day = f.day}
BY DEF Stored, Upserted, SameRow

\* Nothing else than the old and the new rows is stored.
LEMMA StoredWithin ==
  ASSUME NEW stage, NEW old, NEW new, NEW both
  PROVE  /\ Stored(stage, old, new, both) \subseteq Upserted(stage, old, new, both)
         /\ Upserted(stage, old, new, both) \subseteq old \cup new
         /\ new \subseteq Upserted(stage, old, new, both)
         /\ stage # "heatmap" => new \subseteq Stored(stage, old, new, both)
BY DEF Stored, Upserted, SameRow

\* A stored fact that is computed again, on the days of the stage, stays.
LEMMA StoredKeeps ==
  ASSUME NEW stage, stage # "heatmap", NEW old, NEW new, NEW both, NEW days,
         \A g \in new : g.day \in days,
         NEW f \in old, f.day \in days => f \in new
  PROVE  f \in Stored(stage, old, new, both) /\ f \in Upserted(stage, old, new, both)
<1>1. CASE f \in new
  BY <1>1, StoredWithin
<1>2. CASE f \notin new
  <2>1. \A g \in new : g.day # f.day
    BY <1>2
  <2>2. f \in Stored(stage, old, new, both)
    BY <2>1, StoredIs
  <2> QED
    BY <2>2, StoredWithin
<1> QED
  BY <1>1, <1>2

-----------------------------------------------------------------------------
(* The inductive invariant *)

\* The records the actions update have their fields.
Shapes ==
  /\ table = [stage \in ToSet(Stages) |-> table[stage]]
  /\ proc = [last |-> proc.last, refused |-> proc.refused]
  /\ trig = [queue |-> trig.queue, due |-> trig.due, asking |-> trig.asking, told |-> trig.told]
  /\ trig.told = [id \in scene.ids |-> trig.told[id]]
  /\ hist = [from |-> hist.from, owed |-> hist.owed, asked |-> hist.asked,
             covered |-> hist.covered, quiet |-> hist.quiet, torn |-> hist.torn, blind |-> hist.blind,
             wanted |-> hist.wanted, unlucky |-> hist.unlucky]
  /\ hist.wanted = [id \in scene.ids |-> hist.wanted[id]]
  /\ hist.from \in Nat
  /\ run # None =>
       run = [next |-> run.next, now |-> run.now, dates |-> run.dates, sig |-> run.sig,
              source |-> run.source, failed |-> run.failed, clean |-> run.clean,
              id |-> run.id, from |-> run.from]

\* An id is queued once.
QueuedOnce ==
  /\ trig.queue \in Seq(scene.ids)
  /\ \A m, n \in DOMAIN trig.queue : trig.queue[m] = trig.queue[n] => m = n

\* A signature counts rows that are there, at a time.
Signs(rows, sig, at) ==
  /\ sig = <<sig[1], sig[2], sig[3], at>>
  /\ sig[1] \in 0 .. Cardinality(Events(rows))
  /\ sig[2] \in 0 .. Cardinality(Clicks(rows))
  /\ sig[3] \in 0 .. Cardinality(Sessions(rows))

\* No row has come since the signature was taken.
NoneSince(rows, sig) ==
  /\ sig[1] = Cardinality(Events(rows))
  /\ sig[2] = Cardinality(Clicks(rows))
  /\ sig[3] = Cardinality(Sessions(rows))

\* Days up to now.
Window(dates, now) == \E w \in 0 .. now : dates = Days(w, now)

\* A run recomputes whole days up to its own, for rows that are due from some day on.
RunWindow ==
  run # None =>
    /\ run.now \in Nat /\ run.from \in Nat /\ hist.from <= run.from
    /\ Window(run.dates, run.now)
    /\ run.sig # None => Signs(arrived, run.sig, run.now)

\* What is remembered was done when the watermark says.
LastWindow ==
  proc.last # None =>
    /\ proc.last = [dates |-> proc.last.dates, sig |-> proc.last.sig]
    /\ watermark \in Nat /\ Signs(arrived, proc.last.sig, watermark)
    /\ Window(proc.last.dates, watermark)

\* The run's signature, or the one remembered, is still that of now.
RunFresh == run # None /\ run.sig # None /\ NoneSince(arrived, run.sig)
LastFresh == proc.last # None /\ NoneSince(arrived, proc.last.sig)

\* The copy has the rows that the run was asked for, and is exact while none comes.
CopySound ==
  run # None /\ run.source # None =>
    /\ run.source \subseteq arrived
    /\ \A r \in hist.asked \ Closed : DayOf(r.time) \in run.dates => r \in run.source
    /\ RunFresh \/ LastFresh => ExactCopy(run.source, run.dates)

\* A day with facts keeps having some, so its old ones are always replaced.
DaysHave ==
  \A stage \in Plain : \A f \in table[stage] : Current(stage, {f.day}) # {}

\* What is remembered is current while no row comes.
LastCurrent ==
  LastFresh =>
    \A stage \in Plain :
      At(stage, Seen(stage, proc.last.dates)) = Current(stage, Seen(stage, proc.last.dates))

\* So is what the run has written, if none of its stages has failed.
RunCurrent ==
  RunFresh /\ ~run.failed =>
    \A n \in 1 .. run.next - 1 : Stages[n] \in Plain =>
      At(Stages[n], Seen(Stages[n], run.dates)) = Current(Stages[n], Seen(Stages[n], run.dates))

\* What the run was asked for is in the tables it has written.
RunCounted ==
  run # None /\ ~run.failed =>
    \A r \in hist.asked : DayOf(r.time) \in run.dates =>
      \A n \in 1 .. run.next - 1 : Stages[n] \in PerRow =>
        RowFacts(Stages[n], r) \subseteq table[Stages[n]]

\* From this day on the next window has every row that is not counted.
Due(day, mark) == DayOf(Max({0, mark - Overlap})) <= day

\* A row that was in time is counted, too old to be, or in the next window.
OwedDue ==
  /\ \A r \in arrived : r.time <= clock
  /\ \A r \in hist.owed : \/ r \in hist.covered
                          \/ DayOf(r.time) < hist.from
                          \/ watermark = None
                          \/ Due(DayOf(r.time), watermark)

\* A run is asked for what was owed as it began, and will have it.
RunOwed ==
  run # None =>
    /\ hist.covered \subseteq hist.asked
    /\ \A r \in hist.owed \ hist.asked : Due(DayOf(r.time), run.now)
    /\ \A r \in hist.asked :
         DayOf(r.time) \in run.dates \/ r \in hist.covered \/ DayOf(r.time) < run.from

\* What is wanted of a request that is answered is counted, or too old.
Answers ==
  /\ \A id \in scene.ids : hist.wanted[id] \subseteq hist.owed
  /\ run # None /\ run.id # None =>
       /\ run.id \in scene.ids /\ trig.told[run.id] = "running"
       /\ hist.wanted[run.id] \subseteq hist.asked
  /\ \A id \in scene.ids : trig.told[id] = "completed" /\ id \notin hist.unlucky =>
       \A r \in hist.wanted[id] : r \in hist.covered \/ DayOf(r.time) < hist.from

\* A run that no row came since is asked for all that is owed; once it is complete
\* and remembered, that is counted, or too old.
Owing ==
  /\ RunFresh => hist.asked = hist.owed
  /\ LastFresh => \A r \in hist.owed : r \in hist.covered \/ DayOf(r.time) < hist.from

\* The records and the windows; what has been counted; who is owed what.
Framed == TypeOK /\ Shapes /\ QueuedOnce /\ RunWindow /\ LastWindow
Written == CopySound /\ DaysHave /\ LastCurrent /\ RunCurrent
Served == NothingMissed /\ RunCounted /\ OwedDue /\ RunOwed /\ Answers

RollupInv == Framed /\ Written /\ Owing /\ Served

-----------------------------------------------------------------------------
(* What the invariant says of the constants and of the records *)

\* Times are numbers and rows are finitely many.
LEMMA SceneTyped ==
  ASSUME TypeOK
  PROVE  /\ scene.until \in Nat /\ clock \in Nat
         /\ IsFiniteSet(Row) /\ IsFiniteSet(arrived) /\ arrived \subseteq Row
         /\ \A r \in Row : r.time \in Nat /\ r.kind \in {"events", "clicks", "sessions"}
         /\ \A s \in Sessions(Row) : s.time \in Nat /\ s.id \in Nat
<1>1. scene \in ToSet(Scenes) /\ arrived \subseteq Row /\ clock \in 0 .. scene.until
  BY DEF TypeOK
<1>2. /\ scene.until \in Nat /\ IsFiniteSet(Row)
      /\ \A r \in Row : /\ r.time \in Nat /\ r.kind \in {"events", "clicks", "sessions"}
                        /\ r.kind = "sessions" => r.id \in Nat
  BY <1>1, ScenesAssumption DEF Row
<1>3. IsFiniteSet(arrived)
  BY <1>1, <1>2, FS_Subset
<1> QED
  BY <1>1, <1>2, <1>3 DEF Sessions

\* The counts of finitely many rows are numbers.
LEMMA CountsTyped ==
  ASSUME NEW rows, IsFiniteSet(rows)
  PROVE  /\ IsFiniteSet(Events(rows)) /\ Cardinality(Events(rows)) \in Nat
         /\ IsFiniteSet(Clicks(rows)) /\ Cardinality(Clicks(rows)) \in Nat
         /\ IsFiniteSet(Sessions(rows)) /\ Cardinality(Sessions(rows)) \in Nat
<1>1. Events(rows) \subseteq rows /\ Clicks(rows) \subseteq rows /\ Sessions(rows) \subseteq rows
  BY DEF Events, Clicks, Sessions
<1> QED
  BY <1>1, FS_Subset, FS_CardinalityType

\* A row that comes shows in every signature taken before.
LEMMA ArrivalShows ==
  ASSUME NEW rows, IsFiniteSet(rows), NEW r, r \notin rows,
         r.kind \in {"events", "clicks", "sessions"},
         NEW sig, NEW at, Signs(rows, sig, at)
  PROVE  Signs(rows \cup {r}, sig, at) /\ ~ NoneSince(rows \cup {r}, sig)
<1> DEFINE more == rows \cup {r}
           e == Cardinality(Events(rows))  c == Cardinality(Clicks(rows))
           s == Cardinality(Sessions(rows))
<1>1. e \in Nat /\ c \in Nat /\ s \in Nat
  BY CountsTyped
<1>2. /\ sig = <<sig[1], sig[2], sig[3], at>>
      /\ sig[1] \in 0 .. e /\ sig[2] \in 0 .. c /\ sig[3] \in 0 .. s
  BY DEF Signs
<1>3. /\ Cardinality(Events(rows) \cup {r}) = e + 1 \/ r \in Events(rows)
      /\ Cardinality(Clicks(rows) \cup {r}) = c + 1 \/ r \in Clicks(rows)
      /\ Cardinality(Sessions(rows) \cup {r}) = s + 1 \/ r \in Sessions(rows)
  BY CountsTyped, FS_AddElement, Zenon
<1>4. r \notin Events(rows) /\ r \notin Clicks(rows) /\ r \notin Sessions(rows)
  BY DEF Events, Clicks, Sessions
<1>5. ASSUME NEW i \in e .. e + 1, NEW j \in c .. c + 1, NEW k \in s .. s + 1, i + j + k > e + c + s,
             Cardinality(Events(more)) = i, Cardinality(Clicks(more)) = j, Cardinality(Sessions(more)) = k
      PROVE  Signs(more, sig, at) /\ ~ NoneSince(more, sig)
  <2>1. /\ sig[1] \in 0 .. i /\ sig[2] \in 0 .. j /\ sig[3] \in 0 .. k
        /\ ~ (sig[1] = i /\ sig[2] = j /\ sig[3] = k)
    <3> HIDE DEF e, c, s
    <3> QED
      BY <1>1, <1>2, <1>5
  <2> QED
    BY <1>2, <1>5, <2>1 DEF Signs, NoneSince
<1>6. CASE r.kind = "events"
  <2>1. Events(more) = Events(rows) \cup {r} /\ Clicks(more) = Clicks(rows) /\ Sessions(more) = Sessions(rows)
    BY <1>6 DEF Events, Clicks, Sessions
  <2>2. /\ Cardinality(Events(more)) = e + 1 /\ Cardinality(Clicks(more)) = c
        /\ Cardinality(Sessions(more)) = s
    BY <1>3, <1>4, <2>1
  <2> QED
    <3> HIDE DEF e, c, s, more
    <3>1. Signs(more, sig, at) /\ ~ NoneSince(more, sig)
      BY <1>1, <1>5, <2>2
    <3> QED
      BY <3>1 DEF more
<1>7. CASE r.kind = "clicks"
  <2>1. Events(more) = Events(rows) /\ Clicks(more) = Clicks(rows) \cup {r} /\ Sessions(more) = Sessions(rows)
    BY <1>7 DEF Events, Clicks, Sessions
  <2>2. /\ Cardinality(Events(more)) = e /\ Cardinality(Clicks(more)) = c + 1
        /\ Cardinality(Sessions(more)) = s
    BY <1>3, <1>4, <2>1
  <2> QED
    <3> HIDE DEF e, c, s, more
    <3>1. Signs(more, sig, at) /\ ~ NoneSince(more, sig)
      BY <1>1, <1>5, <2>2
    <3> QED
      BY <3>1 DEF more
<1>8. CASE r.kind = "sessions"
  <2>1. Events(more) = Events(rows) /\ Clicks(more) = Clicks(rows) /\ Sessions(more) = Sessions(rows) \cup {r}
    BY <1>8 DEF Events, Clicks, Sessions
  <2>2. /\ Cardinality(Events(more)) = e /\ Cardinality(Clicks(more)) = c
        /\ Cardinality(Sessions(more)) = s + 1
    BY <1>3, <1>4, <2>1
  <2> QED
    <3> HIDE DEF e, c, s, more
    <3>1. Signs(more, sig, at) /\ ~ NoneSince(more, sig)
      BY <1>1, <1>5, <2>2
    <3> QED
      BY <3>1 DEF more
<1> QED
  BY <1>6, <1>7, <1>8

\* The signature of now counts the rows of now; equal but for the hour means no row since.
LEMMA SignatureSigns ==
  ASSUME IsFiniteSet(arrived)
  PROVE  /\ Signs(arrived, Signature, clock) /\ NoneSince(arrived, Signature)
         /\ \A sig, at : Signs(arrived, sig, at) =>
              /\ sig = Signature => at = clock
              /\ Front(sig) = Front(Signature) => NoneSince(arrived, sig)
<1> DEFINE e == Cardinality(Events(arrived))  c == Cardinality(Clicks(arrived))
           s == Cardinality(Sessions(arrived))
<1>1. e \in Nat /\ c \in Nat /\ s \in Nat
  BY CountsTyped
<1>2. Signature = <<e, c, s, clock>>
  BY DEF Signature, Closed
<1> HIDE DEF e, c, s
<1>3. Signs(arrived, Signature, clock) /\ NoneSince(arrived, Signature)
  BY <1>1, <1>2 DEF Signs, NoneSince, e, c, s
<1>4. ASSUME NEW w, NEW x, NEW y, NEW z
      PROVE  LET t == Front(<<w, x, y, z>>) IN t[1] = w /\ t[2] = x /\ t[3] = y
  <2> DEFINE t == <<w, x, y, z>>
  <2>1. t \in Seq({w, x, y, z}) /\ Len(t) = 4 /\ t[1] = w /\ t[2] = x /\ t[3] = y
    OBVIOUS
  <2> HIDE DEF t
  <2>2. \A i \in 1 .. 3 : SubSeq(t, 1, 3)[i] = t[i]
    BY <2>1
  <2>3. Front(t)[1] = t[1] /\ Front(t)[2] = t[2] /\ Front(t)[3] = t[3]
    BY <2>1, <2>2 DEF Front
  <2> QED
    BY <2>1, <2>3 DEF t
<1>5. ASSUME NEW sig, NEW at, Signs(arrived, sig, at)
      PROVE  /\ sig = Signature => at = clock
             /\ Front(sig) = Front(Signature) => NoneSince(arrived, sig)
  <2>1. sig = <<sig[1], sig[2], sig[3], at>>
    BY <1>5 DEF Signs
  <2>2. sig = Signature => at = clock
    BY <1>2, <2>1
  <2>3. ASSUME Front(sig) = Front(Signature)
        PROVE  NoneSince(arrived, sig)
    <3>1. Front(sig)[1] = sig[1] /\ Front(sig)[2] = sig[2] /\ Front(sig)[3] = sig[3]
      <4> DEFINE x == sig[1]  y == sig[2]  z == sig[3]
      <4>1. Front(sig) = Front(<<x, y, z, at>>)
        BY <2>1
      <4> HIDE DEF x, y, z
      <4>2. Front(sig)[1] = x /\ Front(sig)[2] = y /\ Front(sig)[3] = z
        BY <1>4, <4>1
      <4> QED
        BY <4>2 DEF x, y, z
    <3>2. Front(Signature)[1] = e /\ Front(Signature)[2] = c /\ Front(Signature)[3] = s
      BY <1>2, <1>4
    <3>3. sig[1] = e /\ sig[2] = c /\ sig[3] = s
      BY <2>3, <3>1, <3>2, Zenon
    <3> QED
      BY <3>3 DEF NoneSince, e, c, s
  <2> QED
    BY <2>2, <2>3
<1> QED
  BY <1>3, <1>5

\* The queue without the id a run takes.
Rest == IF trig.queue = <<>> THEN <<>> ELSE Tail(trig.queue)

\* What the manager has been told once an id has a status.
ToldNow(id, status) ==
  [i \in scene.ids |-> IF i = id /\ id # None THEN status ELSE trig.told[i]]

\* Replacing a field of a trigger record.
LEMMA TrigUpdates ==
  ASSUME NEW q, NEW d, NEW a, NEW T, NEW R, R = [queue |-> q, due |-> d, asking |-> a, told |-> T]
  PROVE  /\ \A x : [R EXCEPT !.queue = x] = [queue |-> x, due |-> d, asking |-> a, told |-> T]
         /\ \A x : [R EXCEPT !.due = x] = [queue |-> q, due |-> x, asking |-> a, told |-> T]
         /\ \A x : [R EXCEPT !.asking = x] = [queue |-> q, due |-> d, asking |-> x, told |-> T]
         /\ \A i, x : [R EXCEPT !.told[i] = x]
                      = [queue |-> q, due |-> d, asking |-> a, told |-> [T EXCEPT ![i] = x]]
OBVIOUS

\* Answering changes what was told of one id, if there is one.
LEMMA AnsweredIs ==
  ASSUME Shapes, NEW id, NEW status
  PROVE  /\ Answered(trig, id, status) =
              [queue |-> trig.queue, due |-> trig.due, asking |-> trig.asking, told |-> ToldNow(id, status)]
         /\ Begun(trig) = [queue |-> IF trig.queue = <<>> THEN <<>> ELSE Tail(trig.queue), due |-> FALSE,
                           asking |-> trig.asking, told |-> ToldNow(NextId(trig), "running")]
         /\ Answered(Begun(trig), NextId(trig), status) =
              [queue |-> IF trig.queue = <<>> THEN <<>> ELSE Tail(trig.queue), due |-> FALSE,
               asking |-> trig.asking, told |-> ToldNow(NextId(trig), status)]
<1> DEFINE next == NextId(trig)
           rest == IF trig.queue = <<>> THEN <<>> ELSE Tail(trig.queue)
<1>1. /\ trig = [queue |-> trig.queue, due |-> trig.due, asking |-> trig.asking, told |-> trig.told]
      /\ trig.told = [i \in scene.ids |-> trig.told[i]]
  BY DEF Shapes
<1>2. \A i, st : [trig.told EXCEPT ![i] = st] = [j \in scene.ids |-> IF j = i THEN st ELSE trig.told[j]]
  BY <1>1
<1>3. \A i, st : Answered(trig, i, st) =
                    [queue |-> trig.queue, due |-> trig.due, asking |-> trig.asking, told |-> ToldNow(i, st)]
  BY <1>1, <1>2 DEF Answered, ToldNow
<1>4. Begun(trig) = [queue |-> rest, due |-> FALSE, asking |-> trig.asking, told |-> ToldNow(next, "running")]
  <2>1. Answered(trig, next, "running") =
          [queue |-> trig.queue, due |-> trig.due, asking |-> trig.asking, told |-> ToldNow(next, "running")]
    BY <1>3
  <2> HIDE DEF next, rest
  <2>2. Begun(trig) = [Answered(trig, next, "running") EXCEPT !.queue = rest, !.due = FALSE]
    BY DEF Begun, next, rest
  <2> QED
    <3> DEFINE R == [Answered(trig, next, "running") EXCEPT !.queue = rest]
    <3>1. R = [queue |-> rest, due |-> trig.due, asking |-> trig.asking, told |-> ToldNow(next, "running")]
      BY <2>1, TrigUpdates
    <3>2. Begun(trig) = [R EXCEPT !.due = FALSE]
      BY <2>2
    <3> HIDE DEF R
    <3> QED
      BY <3>1, <3>2, TrigUpdates, Zenon
<1> HIDE DEF next, rest
<1>5. Answered(Begun(trig), next, status) =
        [queue |-> rest, due |-> FALSE, asking |-> trig.asking, told |-> ToldNow(next, status)]
  <2>1. CASE next = None
    BY <1>4, <2>1 DEF Answered, ToldNow
  <2>2. CASE next # None
    <3>1. [ToldNow(next, "running") EXCEPT ![next] = status] = ToldNow(next, status)
      BY <2>2 DEF ToldNow
    <3> DEFINE T == ToldNow(next, "running")
    <3>2. Answered(Begun(trig), next, status) = [Begun(trig) EXCEPT !.told[next] = status]
      BY <2>2 DEF Answered
    <3>3. [T EXCEPT ![next] = status] = ToldNow(next, status)
      BY <3>1
    <3>4. [Begun(trig) EXCEPT !.told[next] = status]
            = [queue |-> rest, due |-> FALSE, asking |-> trig.asking, told |-> [T EXCEPT ![next] = status]]
      <4> DEFINE R == Begun(trig)  d == FALSE  asking == trig.asking
      <4>1. R = [queue |-> rest, due |-> d, asking |-> asking, told |-> T]
        BY <1>4
      <4> HIDE DEF R, d, asking, T
      <4>2. [R EXCEPT !.told[next] = status]
              = [queue |-> rest, due |-> d, asking |-> asking, told |-> [T EXCEPT ![next] = status]]
        BY <4>1, TrigUpdates
      <4> QED
        BY <4>2 DEF R, d, asking
    <3> QED
      BY <3>2, <3>3, <3>4, Zenon
  <2> QED
    BY <2>1, <2>2
<1> QED
  BY <1>3, <1>4, <1>5 DEF next, rest

\* A run takes an id that is queued; the others stay queued, each once.
LEMMA TakeId ==
  ASSUME TypeOK, QueuedOnce, NEW status
  PROVE  /\ Rest \in Seq(scene.ids)
         /\ \A m, n \in DOMAIN Rest : Rest[m] = Rest[n] => m = n
         /\ ToSet(Rest) \subseteq {id \in scene.ids : ToldNow(NextId(trig), status)[id] = "queued"}
         /\ NextId(trig) # None =>
              NextId(trig) \in scene.ids /\ trig.told[NextId(trig)] = "queued"
<1>1. /\ trig.queue \in Seq(scene.ids)
      /\ \A m, n \in DOMAIN trig.queue : trig.queue[m] = trig.queue[n] => m = n
      /\ \A n \in DOMAIN trig.queue : trig.told[trig.queue[n]] = "queued" /\ trig.queue[n] \in scene.ids
  BY DEF TypeOK, QueuedOnce, ToSet
<1>2. CASE trig.queue = <<>>
  BY <1>2 DEF NextId, ToSet, Rest
<1>3. CASE trig.queue # <<>>
  <2>1. /\ Rest \in Seq(scene.ids) /\ Len(Rest) = Len(trig.queue) - 1
        /\ DOMAIN Rest = 1 .. Len(Rest) /\ DOMAIN trig.queue = 1 .. Len(trig.queue)
        /\ \A n \in 1 .. Len(Rest) : Rest[n] = trig.queue[n + 1] /\ n + 1 \in DOMAIN trig.queue
        /\ 1 \in DOMAIN trig.queue /\ Len(trig.queue) \in Nat
    <3> DEFINE q == trig.queue
    <3>1. q \in Seq(scene.ids) /\ q # <<>> /\ Rest = Tail(q)
      BY <1>1, <1>3 DEF Rest
    <3> HIDE DEF q
    <3>2. /\ Rest \in Seq(scene.ids) /\ Len(q) \in Nat \ {0} /\ Len(Rest) = Len(q) - 1
          /\ DOMAIN Rest = 1 .. Len(Rest) /\ DOMAIN q = 1 .. Len(q)
      BY <3>1, HeadTailProperties, LenProperties, EmptySeq
    <3>3. \A n \in 1 .. Len(Rest) : Rest[n] = q[n + 1]
      BY <3>1, HeadTailProperties
    <3> QED
      BY <3>2, <3>3 DEF q
  <2>2. NextId(trig) = trig.queue[1]
    BY <1>1, <1>3 DEF NextId
  <2>3. ASSUME NEW m \in DOMAIN Rest, NEW n \in DOMAIN Rest, Rest[m] = Rest[n]
        PROVE  m = n
    <3>1. m \in Nat /\ n \in Nat /\ trig.queue[m + 1] = trig.queue[n + 1]
      BY <2>1, <2>3
    <3>2. m + 1 = n + 1
      BY <1>1, <2>1, <2>3, <3>1, Zenon
    <3> QED
      BY <3>1, <3>2
  <2>4. ASSUME NEW n \in DOMAIN Rest
        PROVE  /\ Rest[n] \in scene.ids /\ Rest[n] # NextId(trig)
               /\ trig.told[Rest[n]] = "queued"
    <3>1. n \in Nat \ {0} /\ Rest[n] = trig.queue[n + 1] /\ n + 1 \in DOMAIN trig.queue
      BY <2>1
    <3>2. 1 \in DOMAIN trig.queue /\ n + 1 # 1
      BY <2>1, <3>1
    <3>3. trig.queue[n + 1] # trig.queue[1]
      BY <1>1, <3>1, <3>2, Zenon
    <3>4. trig.told[trig.queue[n + 1]] = "queued" /\ trig.queue[n + 1] \in scene.ids
      BY <1>1, <3>1, Zenon
    <3> QED
      BY <2>2, <3>1, <3>3, <3>4
  <2> QED
    BY <1>1, <2>1, <2>2, <2>3, <2>4 DEF ToSet, ToldNow
<1> QED
  BY <1>2, <1>3

-----------------------------------------------------------------------------
(* What each action does to the records *)

\* The history after a step, but for its flags.
HistIs(from, owed, asked, covered, wanted, unlucky) ==
  hist' = [from |-> from, owed |-> owed, asked |-> asked, covered |-> covered,
           quiet |-> hist'.quiet, torn |-> hist'.torn, blind |-> hist'.blind,
           wanted |-> wanted, unlucky |-> unlucky]

\* A step leaves the history alone, or only raises its flags and adds the unlucky.
HistSame(unlucky) == HistIs(hist.from, hist.owed, hist.asked, hist.covered, hist.wanted, unlucky)

\* The run after a step of its own.
RunIs(next, source, failed) ==
  run' = [next |-> next, now |-> run.now, dates |-> run.dates, sig |-> run.sig, source |-> source,
          failed |-> failed, clean |-> run'.clean, id |-> run.id, from |-> run.from]

\* The requests after a step.
TrigIs(queue, told) ==
  trig' = [queue |-> queue, due |-> trig'.due, asking |-> trig'.asking, told |-> told]

\* Replacing fields of the history.
LEMMA HistUpdates ==
  ASSUME Shapes, NEW x, NEW y, NEW z, NEW i
  PROVE  /\ hist' = hist => HistSame(hist.unlucky)
         /\ hist' = [hist EXCEPT !.quiet = x] => HistSame(hist.unlucky)
         /\ hist' = [hist EXCEPT !.torn = x] => HistSame(hist.unlucky)
         /\ hist' = [hist EXCEPT !.blind = x] => HistSame(hist.unlucky)
         /\ hist' = [hist EXCEPT !.torn = x, !.blind = y] => HistSame(hist.unlucky)
         /\ hist' = [hist EXCEPT !.quiet = x, !.torn = y] => HistSame(hist.unlucky)
         /\ hist' = [hist EXCEPT !.unlucky = x] => HistSame(x)
         /\ hist' = [hist EXCEPT !.unlucky = x, !.quiet = y] => HistSame(x)
         /\ hist' = [hist EXCEPT !.quiet = x, !.owed = y] =>
              HistIs(hist.from, y, hist.asked, hist.covered, hist.wanted, hist.unlucky)
         /\ hist' = [hist EXCEPT !.wanted[i] = x] =>
              HistIs(hist.from, hist.owed, hist.asked, hist.covered, [hist.wanted EXCEPT ![i] = x], hist.unlucky)
         /\ hist' = [hist EXCEPT !.covered = x] =>
              HistIs(hist.from, hist.owed, hist.asked, x, hist.wanted, hist.unlucky)
         /\ hist' = [hist EXCEPT !.asked = x, !.quiet = y] =>
              HistIs(hist.from, hist.owed, x, hist.covered, hist.wanted, hist.unlucky)
         /\ hist' = [hist EXCEPT !.from = x, !.covered = y, !.torn = z] =>
              HistIs(x, hist.owed, hist.asked, y, hist.wanted, hist.unlucky)
<1>1. hist = [from |-> hist.from, owed |-> hist.owed, asked |-> hist.asked,
              covered |-> hist.covered, quiet |-> hist.quiet, torn |-> hist.torn, blind |-> hist.blind,
              wanted |-> hist.wanted, unlucky |-> hist.unlucky]
  BY DEF Shapes
<1>2. hist' = hist => HistSame(hist.unlucky)
  BY <1>1 DEF HistSame, HistIs
<1>3. hist' = [hist EXCEPT !.quiet = x] => HistSame(hist.unlucky)
  BY <1>1 DEF HistSame, HistIs
<1>4. hist' = [hist EXCEPT !.torn = x] => HistSame(hist.unlucky)
  BY <1>1 DEF HistSame, HistIs
<1>5. hist' = [hist EXCEPT !.unlucky = x] => HistSame(x)
  BY <1>1 DEF HistSame, HistIs
<1>6. hist' = [hist EXCEPT !.unlucky = x, !.quiet = y] => HistSame(x)
  BY <1>1 DEF HistSame, HistIs
<1>7. hist' = [hist EXCEPT !.quiet = x, !.owed = y] =>
        HistIs(hist.from, y, hist.asked, hist.covered, hist.wanted, hist.unlucky)
  BY <1>1 DEF HistIs
<1>8. hist' = [hist EXCEPT !.wanted[i] = x] =>
        HistIs(hist.from, hist.owed, hist.asked, hist.covered, [hist.wanted EXCEPT ![i] = x], hist.unlucky)
  BY <1>1 DEF HistIs
<1>9. hist' = [hist EXCEPT !.covered = x] =>
        HistIs(hist.from, hist.owed, hist.asked, x, hist.wanted, hist.unlucky)
  BY <1>1 DEF HistIs
<1>10. hist' = [hist EXCEPT !.asked = x, !.quiet = y] =>
         HistIs(hist.from, hist.owed, x, hist.covered, hist.wanted, hist.unlucky)
  BY <1>1 DEF HistIs
<1>11. hist' = [hist EXCEPT !.from = x, !.covered = y, !.torn = z] =>
         HistIs(x, hist.owed, hist.asked, y, hist.wanted, hist.unlucky)
  BY <1>1 DEF HistIs
<1>12. /\ hist' = [hist EXCEPT !.blind = x] => HistSame(hist.unlucky)
       /\ hist' = [hist EXCEPT !.torn = x, !.blind = y] => HistSame(hist.unlucky)
       /\ hist' = [hist EXCEPT !.quiet = x, !.torn = y] => HistSame(hist.unlucky)
  BY <1>1 DEF HistSame, HistIs
<1> QED
  BY <1>2, <1>3, <1>4, <1>5, <1>6, <1>7, <1>8, <1>9, <1>10, <1>11, <1>12

\* Replacing fields of the run.
LEMMA RunUpdates ==
  ASSUME Shapes, run # None, NEW x, NEW y, NEW z
  PROVE  /\ run' = [run EXCEPT !.next = x] => RunIs(x, run.source, run.failed)
         /\ run' = [run EXCEPT !.next = x, !.source = y] => RunIs(x, y, run.failed)
         /\ run' = [run EXCEPT !.next = x, !.clean = y] => RunIs(x, run.source, run.failed)
         /\ run' = [run EXCEPT !.next = x, !.failed = y, !.clean = z] => RunIs(x, run.source, y)
<1>1. run = [next |-> run.next, now |-> run.now, dates |-> run.dates, sig |-> run.sig,
             source |-> run.source, failed |-> run.failed, clean |-> run.clean,
             id |-> run.id, from |-> run.from]
  BY DEF Shapes
<1>2. run' = [run EXCEPT !.next = x] => RunIs(x, run.source, run.failed)
  BY <1>1 DEF RunIs
<1>3. run' = [run EXCEPT !.next = x, !.source = y] => RunIs(x, y, run.failed)
  BY <1>1 DEF RunIs
<1>4. run' = [run EXCEPT !.next = x, !.clean = y] => RunIs(x, run.source, run.failed)
  BY <1>1 DEF RunIs
<1>5. run' = [run EXCEPT !.next = x, !.failed = y, !.clean = z] => RunIs(x, run.source, y)
  BY <1>1 DEF RunIs
<1> QED
  BY <1>2, <1>3, <1>4, <1>5

\* The flags of the history after a step.
FlagsAre(quiet, torn, blind) == hist'.quiet = quiet /\ hist'.torn = torn /\ hist'.blind = blind

\* Raising a flag of the history, or tearing days, is all that happens to its flags;
\* so it is with the run.
LEMMA FlagUpdates ==
  ASSUME Shapes, NEW x, NEW y, NEW z, NEW i
  PROVE  /\ hist' = [hist EXCEPT !.quiet = x] => FlagsAre(x, hist.torn, hist.blind)
         /\ hist' = [hist EXCEPT !.torn = x] => FlagsAre(hist.quiet, x, hist.blind)
         /\ hist' = [hist EXCEPT !.blind = x] => FlagsAre(hist.quiet, hist.torn, x)
         /\ hist' = [hist EXCEPT !.torn = x, !.blind = y] => FlagsAre(hist.quiet, x, y)
         /\ hist' = [hist EXCEPT !.quiet = x, !.torn = y] => FlagsAre(x, y, hist.blind)
         /\ hist' = [hist EXCEPT !.unlucky = x] => FlagsAre(hist.quiet, hist.torn, hist.blind)
         /\ hist' = [hist EXCEPT !.unlucky = x, !.quiet = y] => FlagsAre(y, hist.torn, hist.blind)
         /\ hist' = [hist EXCEPT !.quiet = x, !.owed = y] => FlagsAre(x, hist.torn, hist.blind)
         /\ hist' = [hist EXCEPT !.wanted[i] = x] => FlagsAre(hist.quiet, hist.torn, hist.blind)
         /\ hist' = [hist EXCEPT !.covered = x] => FlagsAre(hist.quiet, hist.torn, hist.blind)
         /\ hist' = [hist EXCEPT !.asked = x, !.quiet = y] => FlagsAre(y, hist.torn, hist.blind)
         /\ hist' = [hist EXCEPT !.from = x, !.covered = y, !.torn = z] => FlagsAre(hist.quiet, z, hist.blind)
         /\ run # None /\ run' = [run EXCEPT !.next = x] => run'.clean = run.clean
         /\ run # None /\ run' = [run EXCEPT !.next = x, !.source = y] => run'.clean = run.clean
         /\ run # None /\ run' = [run EXCEPT !.next = x, !.clean = y] => run'.clean = y
         /\ run # None /\ run' = [run EXCEPT !.next = x, !.failed = y, !.clean = z] => run'.clean = z
<1>1. hist = [from |-> hist.from, owed |-> hist.owed, asked |-> hist.asked,
              covered |-> hist.covered, quiet |-> hist.quiet, torn |-> hist.torn, blind |-> hist.blind,
              wanted |-> hist.wanted, unlucky |-> hist.unlucky]
  BY DEF Shapes
<1>2. run # None =>
        run = [next |-> run.next, now |-> run.now, dates |-> run.dates, sig |-> run.sig,
               source |-> run.source, failed |-> run.failed, clean |-> run.clean,
               id |-> run.id, from |-> run.from]
  BY DEF Shapes
<1> QED
  BY <1>1, <1>2 DEF FlagsAre

\* What a stage leaves in its table: all of it, or whole rows of it and whole days
\* of those cleaned up.
Whole(T, source, both) ==
  T = Stored(Here, table[Here], Computed(Here, run.dates, source, both), both)

Part(T, source, both) ==
  /\ both = TRUE
  /\ \E rows, days :
       LET new == Computed(Here, run.dates, source, both)
       IN  /\ rows \subseteq new /\ \A f \in rows, g \in new : SameRow(f, g) => g \in rows
           /\ \A f \in new : f.day \in days => f \in rows
           /\ T = Partly(Here, table[Here], rows, days)

\* What the history knows of it: days that two stages may see differently are torn,
\* and the run is no longer quiet, or clean, if something was not as it should.
StageMarks(source, both) ==
  /\ hist'.torn \in {hist.torn, hist.torn \cup StageDates(Here, run.dates)}
  /\ run'.clean => run.clean /\ source = run.source
  /\ source # run.source => hist'.torn = hist.torn \cup StageDates(Here, run.dates)
  /\ hist'.quiet => hist.quiet /\ (Here = "heatmap" => both) /\ (run'.failed => run.failed)

\* The summary is blind on the days it could not read the open sessions for.
BlindAfter(both) ==
  hist'.blind = IF Here # "summary" THEN hist.blind
                ELSE IF both THEN hist.blind \ run.dates ELSE hist.blind \cup run.dates

\* A stage writes its own table and the run goes on, failed if the table is not whole.
StageStep(T, source, both) ==
  /\ source \in {run.source, None}
  /\ StageMarks(source, both)
  /\ table' = [table EXCEPT ![Here] = T]
  /\ \/ /\ Whole(T, source, both) /\ BlindAfter(both)
        /\ RunIs(run.next + 1, run.source, run.failed)
     \/ /\ Part(T, source, both) /\ hist'.blind = hist.blind
        /\ \E next \in {run.next + 1, Len(Stages) + 1} : RunIs(next, run.source, TRUE)

\* What a stage leaves is old or computed.
LEMMA LeftWithin ==
  ASSUME NEW T, NEW source, NEW both, Whole(T, source, both) \/ Part(T, source, both)
  PROVE  T \subseteq table[Here] \cup Computed(Here, run.dates, source, both)
<1>1. CASE Whole(T, source, both)
  BY <1>1, StoredWithin DEF Whole
<1>2. CASE Part(T, source, both)
  <2>1. PICK rows, days :
          /\ rows \subseteq Computed(Here, run.dates, source, both)
          /\ T = Partly(Here, table[Here], rows, days)
    BY <1>2 DEF Part
  <2>2. T \subseteq Upserted(Here, table[Here], rows, TRUE)
    BY <2>1 DEF Partly
  <2> QED
    BY <2>1, <2>2, StoredWithin
<1> QED
  BY <1>1, <1>2

\* Every way a stage may end is a step of that kind.
LEMMA StageDoes ==
  ASSUME Shapes, TypeOK, Stage \/ OpenUnread \/ LevelsUnread \/ StageRetried \/ StageFails
  PROVE  /\ \E T, source, both : StageStep(T, source, both)
         /\ run # None /\ run.next \in 1 .. 7 /\ Here \in ToSet(Stages)
         /\ HistSame(hist.unlucky)
         /\ UNCHANGED <<clock, scene, arrived, watermark, proc, trig>>
         /\ faults' \in 0 .. MaxFaults
<1>1. /\ InStage
      /\ UNCHANGED <<clock, scene, arrived, watermark, proc, trig>>
  BY DEF Stage, OpenUnread, LevelsUnread, StageRetried, StageFails
<1>2. run # None /\ run.next \in 1 .. 7 /\ Here \in ToSet(Stages)
  BY <1>1 DEF InStage, Here, ToSet, Stages
<1>3. HistSame(hist.unlucky)
  BY HistUpdates DEF Stage, OpenUnread, LevelsUnread, StageRetried, StageFails
<1>4. faults' \in 0 .. MaxFaults
  <2>1. faults' = faults \/ Fault
    BY DEF Stage, OpenUnread, LevelsUnread, StageRetried, StageFails
  <2> QED
    BY <2>1, RollupsAssumption DEF TypeOK, Fault
<1> DEFINE after(source, both) ==
             Stored(Here, table[Here], Computed(Here, run.dates, source, both), both)
           yes == TRUE
           no == FALSE
<1>5. ASSUME NEW source \in {run.source, None}, NEW both, Write(source, both), BlindAfter(both),
             StageMarks(source, both), RunIs(run.next + 1, run.source, run.failed)
      PROVE  StageStep(after(source, both), source, both)
  <2>1. table' = [table EXCEPT ![Here] = after(source, both)]
    BY <1>5 DEF Write
  <2>2. Whole(after(source, both), source, both)
    BY DEF Whole
  <2> HIDE DEF after
  <2> QED
    BY <1>5, <2>1, <2>2 DEF StageStep
<1>6. CASE Stage
  <2>1. RunIs(run.next + 1, run.source, run.failed)
    BY <1>2, <1>6, RunUpdates DEF Stage
  <2>2. Write(run.source, TRUE)
    BY <1>6 DEF Stage
  <2>3. /\ run' = [run EXCEPT !.next = run.next + 1]
        /\ hist' = [hist EXCEPT !.blind = StillBlind]
    BY <1>6 DEF Stage
  <2>4. run'.clean = run.clean /\ FlagsAre(hist.quiet, hist.torn, StillBlind)
    BY <1>2, <2>3, FlagUpdates
  <2>5. StageMarks(run.source, TRUE)
    BY <2>1, <2>4 DEF StageMarks, FlagsAre, RunIs
  <2>6. BlindAfter(TRUE)
    BY <2>4 DEF BlindAfter, FlagsAre, StillBlind
  <2> HIDE DEF after
  <2>7. StageStep(after(run.source, TRUE), run.source, TRUE)
    BY <1>5, <2>1, <2>2, <2>5, <2>6, Zenon
  <2> QED
    BY <1>1, <1>2, <1>3, <1>4, <2>7, Zenon
<1>7. CASE OpenUnread
  <2>1. RunIs(run.next + 1, run.source, run.failed)
    BY <1>2, <1>7, RunUpdates DEF OpenUnread
  <2>2. Write(run.source, FALSE) /\ Here = "summary"
    BY <1>7 DEF OpenUnread
  <2>3. /\ run' = [run EXCEPT !.next = run.next + 1]
        /\ hist' = [hist EXCEPT !.blind = hist.blind \cup run.dates]
    BY <1>7 DEF OpenUnread
  <2>4. run'.clean = run.clean /\ FlagsAre(hist.quiet, hist.torn, hist.blind \cup run.dates)
    BY <1>2, <2>3, FlagUpdates
  <2>5. StageMarks(run.source, FALSE)
    BY <2>1, <2>2, <2>4 DEF StageMarks, FlagsAre, RunIs
  <2>6. BlindAfter(FALSE)
    BY <2>2, <2>4 DEF BlindAfter, FlagsAre
  <2> HIDE DEF after
  <2>7. StageStep(after(run.source, FALSE), run.source, FALSE)
    BY <1>5, <2>1, <2>2, <2>5, <2>6, Zenon
  <2> QED
    BY <1>1, <1>2, <1>3, <1>4, <2>7, Zenon
<1>8. CASE LevelsUnread
  <2>1. RunIs(run.next + 1, run.source, run.failed)
    BY <1>2, <1>8, RunUpdates DEF LevelsUnread
  <2>2. Write(run.source, FALSE) /\ Here = "heatmap"
    BY <1>8 DEF LevelsUnread
  <2>3. hist' = [hist EXCEPT !.quiet = no] /\ run' = [run EXCEPT !.next = run.next + 1]
    BY <1>8 DEF LevelsUnread
  <2> HIDE DEF no
  <2>4. run'.clean = run.clean /\ FlagsAre(no, hist.torn, hist.blind)
    BY <1>2, <2>3, FlagUpdates
  <2>5. StageMarks(run.source, FALSE)
    BY <2>4 DEF StageMarks, FlagsAre, no
  <2>6. BlindAfter(FALSE)
    BY <2>2, <2>4 DEF BlindAfter, FlagsAre
  <2> HIDE DEF after
  <2>7. StageStep(after(run.source, FALSE), run.source, FALSE)
    BY <1>5, <2>1, <2>2, <2>5, <2>6, Zenon
  <2> QED
    BY <1>1, <1>2, <1>3, <1>4, <2>7, Zenon
<1>9. CASE StageRetried
  <2>1. RunIs(run.next + 1, run.source, run.failed)
    BY <1>2, <1>9, RunUpdates DEF StageRetried
  <2>2. Write(None, TRUE)
    BY <1>9 DEF StageRetried
  <2> DEFINE torn == hist.torn \cup StageDates(Here, run.dates)
  <2>3. /\ hist' = [hist EXCEPT !.torn = torn, !.blind = StillBlind]
        /\ run' = [run EXCEPT !.next = run.next + 1, !.clean = no]
    BY <1>9 DEF StageRetried
  <2> HIDE DEF no, torn
  <2>4. run'.clean = no /\ FlagsAre(hist.quiet, torn, StillBlind)
    BY <1>2, <2>3, FlagUpdates
  <2>5. StageMarks(None, TRUE)
    BY <2>1, <2>4 DEF StageMarks, FlagsAre, RunIs, no, torn
  <2>6. BlindAfter(TRUE)
    BY <2>4 DEF BlindAfter, FlagsAre, StillBlind
  <2> HIDE DEF after
  <2>7. StageStep(after(None, TRUE), None, TRUE)
    BY <1>5, <2>1, <2>2, <2>5, <2>6, Zenon
  <2> QED
    BY <1>1, <1>2, <1>3, <1>4, <2>7, Zenon
<1>10. CASE StageFails
  <2>1. PICK source \in {run.source, None} :
          LET new == Computed(Here, run.dates, source, TRUE)
          IN  /\ \E keys \in SUBSET {<<f.day, f.key>> : f \in new}, days \in SUBSET {f.day : f \in new} :
                   LET rows == {f \in new : <<f.day, f.key>> \in keys}
                   IN  /\ \A f \in new : f.day \in days => f \in rows
                       /\ table' = [table EXCEPT ![Here] = Partly(Here, table[Here], rows, days)]
              /\ hist' = [hist EXCEPT !.quiet = FALSE,
                                      !.torn = IF source = run.source THEN hist.torn
                                               ELSE hist.torn \cup StageDates(Here, run.dates)]
    BY <1>10, Zenon DEF StageFails
  <2> DEFINE new == Computed(Here, run.dates, source, yes)
             rowsOf(keys) == {f \in new : <<f.day, f.key>> \in keys}
             torn == IF source = run.source THEN hist.torn ELSE hist.torn \cup StageDates(Here, run.dates)
  <2>2. PICK keys, days :
          /\ \A f \in new : f.day \in days => f \in rowsOf(keys)
          /\ table' = [table EXCEPT ![Here] = Partly(Here, table[Here], rowsOf(keys), days)]
    BY <2>1, Zenon
  <2> DEFINE rows == rowsOf(keys)
             T == Partly(Here, table[Here], rows, days)
  <2>3. rows \subseteq new /\ \A f \in rows, g \in new : SameRow(f, g) => g \in rows
    BY DEF SameRow
  <2>4. Part(T, source, yes)
    <3> HIDE DEF new, rowsOf
    <3> QED
      BY <2>2, <2>3, Zenon DEF Part, new
  <2>5. PICK next \in {run.next + 1, Len(Stages) + 1} :
          run' = [run EXCEPT !.next = next, !.failed = yes, !.clean = no]
    BY <1>10 DEF StageFails
  <2>6. hist' = [hist EXCEPT !.quiet = no, !.torn = torn]
    BY <2>1, Zenon
  <2>7. table' = [table EXCEPT ![Here] = T]
    BY <2>2
  <2> HIDE DEF new, rowsOf, rows, T, torn
  <2>8. RunIs(next, run.source, yes) /\ run'.clean = no
    <3> HIDE DEF yes, no
    <3> QED
      BY <1>2, <2>5, RunUpdates, FlagUpdates
  <2>9. FlagsAre(no, torn, hist.blind)
    <3> HIDE DEF no
    <3> QED
      BY <2>6, FlagUpdates
  <2>10. StageMarks(source, yes)
    BY <2>8, <2>9 DEF StageMarks, FlagsAre, torn
  <2>11. hist'.blind = hist.blind
    BY <2>9 DEF FlagsAre
  <2>12. StageStep(T, source, yes)
    BY <2>4, <2>7, <2>8, <2>10, <2>11, Zenon DEF StageStep
  <2> QED
    BY <1>1, <1>2, <1>3, <1>4, <2>12, Zenon
<1> QED
  BY <1>6, <1>7, <1>8, <1>9, <1>10

\* The tables after a stage.
LEMMA StageTables ==
  ASSUME Shapes, Here \in ToSet(Stages), NEW T, table' = [table EXCEPT ![Here] = T]
  PROVE  /\ table' = [stage \in ToSet(Stages) |-> table'[stage]]
         /\ table'[Here] = T
         /\ \A stage \in ToSet(Stages) \ {Here} : table'[stage] = table[stage]
<1>1. table = [stage \in ToSet(Stages) |-> table[stage]]
  BY DEF Shapes
<1> DEFINE next == [table EXCEPT ![Here] = T]
<1>2. /\ next = [stage \in ToSet(Stages) |-> next[stage]]
      /\ next[Here] = T
      /\ \A stage \in ToSet(Stages) \ {Here} : next[stage] = table[stage]
  BY <1>1
<1> QED
  BY <1>2

\* A run begins, whatever becomes of it.
LEMMA BeginDoes ==
  ASSUME Shapes, TypeOK, QueuedOnce, ConfigFails \/ BrandFails \/ SkipRun \/ \E sig \in {Signature, None} : StartRun(sig)
  PROVE  /\ \E status \in {"failed", "completed", "running"} : TrigIs(Rest, ToldNow(NextId(trig), status))
         /\ run = None
         /\ faults' \in 0 .. MaxFaults
         /\ UNCHANGED <<clock, scene, arrived, table>>
<1>1. /\ run = None
      /\ UNCHANGED <<clock, scene, arrived, table>>
  BY DEF ConfigFails, BrandFails, SkipRun, StartRun, MayBegin
<1>2. faults' \in 0 .. MaxFaults
  BY RollupsAssumption DEF TypeOK, ConfigFails, BrandFails, SkipRun, StartRun, Signed, Fault
<1>3. \/ trig' = Answered(Begun(trig), NextId(trig), "failed")
      \/ trig' = Answered(Begun(trig), NextId(trig), "completed")
      \/ trig' = Begun(trig)
  BY DEF ConfigFails, BrandFails, SkipRun, StartRun
<1>4. \A status : trig' = Answered(Begun(trig), NextId(trig), status) => TrigIs(Rest, ToldNow(NextId(trig), status))
  BY AnsweredIs DEF TrigIs, Rest
<1>5. trig' = Begun(trig) => TrigIs(Rest, ToldNow(NextId(trig), "running"))
  BY AnsweredIs DEF TrigIs, Rest
<1> QED
  BY <1>1, <1>2, <1>3, <1>4, <1>5

\* A run ends, whatever it did.
LEMMA EndDoes ==
  ASSUME Shapes, TypeOK, EndRun \/ WatermarkFails
  PROVE  /\ TrigIs(trig.queue, ToldNow(run.id, "completed"))
         /\ run # None /\ run.next = 8 /\ run' = None
         /\ faults' \in 0 .. MaxFaults
         /\ UNCHANGED <<clock, scene, arrived, table>>
<1>1. /\ run # None /\ run.next = 8 /\ run' = None
      /\ UNCHANGED <<clock, scene, arrived, table>>
      /\ trig' = Answered(trig, run.id, "completed")
  BY DEF EndRun, WatermarkFails, RunId, Stages
<1>2. faults' \in 0 .. MaxFaults
  BY RollupsAssumption DEF TypeOK, EndRun, WatermarkFails, Fault
<1>3. TrigIs(trig.queue, ToldNow(run.id, "completed"))
  BY <1>1, AnsweredIs DEF TrigIs
<1> QED
  BY <1>1, <1>2, <1>3

-----------------------------------------------------------------------------
(* The records and the windows *)

\* Windows stay as they are while no row comes and no run begins or ends.
LEMMA WindowsStay ==
  ASSUME Framed, UNCHANGED <<arrived, watermark, proc>>, hist'.from = hist.from,
         run' = None \/ /\ run # None
                        /\ run'.now = run.now /\ run'.from = run.from
                        /\ run'.dates = run.dates /\ run'.sig = run.sig
  PROVE  RunWindow' /\ LastWindow'
<1>1. RunWindow /\ LastWindow
  BY DEF Framed
<1>2. LastWindow'
  BY <1>1 DEF LastWindow
<1>3. RunWindow'
  BY <1>1 DEF RunWindow
<1> QED
  BY <1>2, <1>3

\* Time passes: the domains that reach up to the clock only grow.
LEMMA TickFramed ==
  ASSUME Framed, Tick
  PROVE  Framed'
<1>1. TypeOK /\ Shapes /\ QueuedOnce
  BY DEF Framed
<1>2. /\ clock < scene.until /\ clock' = clock + 1
      /\ UNCHANGED <<scene, arrived, score, watermark, table, proc, run, trig, hist, faults>>
  BY DEF Tick
<1>3. clock \in Nat /\ scene.until \in Nat
  BY <1>1, SceneTyped
<1>4. DayOf(0) .. DayOf(clock) \subseteq DayOf(0) .. DayOf(clock + 1)
  <2>1. DayOf(0) \in Nat /\ DayOf(clock) \in Nat /\ DayOf(clock + 1) \in Nat /\ DayOf(clock) <= DayOf(clock + 1)
    BY <1>3, DayMono
  <2> QED
    BY <2>1
<1>5. TypeOK'
  <2>1. clock' \in 0 .. scene'.until /\ faults' \in 0 .. MaxFaults
    BY <1>1, <1>2, <1>3 DEF TypeOK
  <2>2. watermark' \in {None} \cup 0 .. clock'
    BY <1>1, <1>2, <1>3 DEF TypeOK
  <2>3. \A stage \in ToSet(Stages) : \A f \in table'[stage] : f.day \in Days(0, clock')
    BY <1>1, <1>2, <1>4 DEF TypeOK, Days
  <2>4. run' # None => run'.next \in 0 .. Len(Stages) + 1 /\ Max(run'.dates) = DayOf(run'.now) /\ run'.now <= clock'
    <3>1. run # None => run.now \in Nat
      BY DEF Framed, RunWindow
    <3> QED
      BY <1>1, <1>2, <1>3, <3>1 DEF TypeOK
  <2> QED
    BY <1>1, <1>2, <2>1, <2>2, <2>3, <2>4 DEF TypeOK, Row
<1>6. Shapes' /\ QueuedOnce'
  BY <1>1, <1>2 DEF Shapes, QueuedOnce
<1>7. RunWindow' /\ LastWindow'
  BY <1>2, WindowsStay
<1> QED
  BY <1>5, <1>6, <1>7 DEF Framed

\* A row that comes is one of the scene, and signatures count at most the rows there are.
LEMMA ArriveFramed ==
  ASSUME Framed, NEW r \in Row \ arrived, Arrive(r)
  PROVE  Framed'
<1>1. TypeOK /\ Shapes /\ QueuedOnce /\ RunWindow /\ LastWindow
  BY DEF Framed
<1>2. /\ arrived' = arrived \cup {r}
      /\ UNCHANGED <<clock, scene, watermark, table, proc, run, trig, faults>>
      /\ HistIs(hist.from, hist'.owed, hist.asked, hist.covered, hist.wanted, hist.unlucky)
      /\ hist'.owed \in {hist.owed, hist.owed \cup {r}}
  <2> DEFINE owed == IF DayOf(r.time) >= DayOf(Max({0, clock - Overlap})) THEN hist.owed \cup {r} ELSE hist.owed
  <2>1. hist' = [hist EXCEPT !.quiet = FALSE, !.owed = owed]
    BY DEF Arrive
  <2> HIDE DEF owed
  <2>2. HistIs(hist.from, owed, hist.asked, hist.covered, hist.wanted, hist.unlucky)
    BY <1>1, <2>1, HistUpdates
  <2>3. hist'.owed = owed
    BY <2>2 DEF HistIs
  <2> QED
    BY <2>2, <2>3 DEF Arrive, owed
<1>3. TypeOK'
  BY <1>1, <1>2 DEF TypeOK, HistIs, Row
<1>4. Shapes' /\ QueuedOnce'
  BY <1>1, <1>2 DEF Shapes, QueuedOnce, HistIs
<1>5. \A sig, at : Signs(arrived, sig, at) => Signs(arrived', sig, at)
  BY <1>1, <1>2, SceneTyped, ArrivalShows
<1>6. RunWindow' /\ LastWindow'
  BY <1>1, <1>2, <1>5 DEF RunWindow, LastWindow, HistIs
<1> QED
  BY <1>3, <1>4, <1>6 DEF Framed

\* A score that is rewritten, a request, and a firing that is dropped.
LEMMA RescoreFramed ==
  ASSUME Framed, NEW s, NEW level, Rescore(s, level)
  PROVE  Framed'
<1>1. TypeOK /\ Shapes /\ QueuedOnce
  BY DEF Framed
<1>2. /\ UNCHANGED <<clock, scene, arrived, watermark, table, proc, run, trig>>
      /\ HistSame(hist.unlucky)
      /\ faults' = faults \/ Fault
  BY <1>1, HistUpdates DEF Rescore
<1>3. faults' \in 0 .. MaxFaults
  BY <1>1, <1>2, RollupsAssumption DEF TypeOK, Fault
<1>4. TypeOK'
  BY <1>1, <1>2, <1>3 DEF TypeOK, HistSame, HistIs, Row
<1>5. Shapes' /\ QueuedOnce'
  BY <1>1, <1>2 DEF Shapes, QueuedOnce, HistSame, HistIs
<1>6. RunWindow' /\ LastWindow'
  BY <1>2, WindowsStay DEF HistSame, HistIs
<1> QED
  BY <1>4, <1>5, <1>6 DEF Framed

\* A request queues an id that was not known.
LEMMA TriggerFramed ==
  ASSUME Framed, NEW id \in scene.ids, Trigger(id)
  PROVE  Framed'
<1>1. TypeOK /\ Shapes /\ QueuedOnce
  BY DEF Framed
<1> DEFINE told == [trig.told EXCEPT ![id] = "queued"]
           queue == Append(trig.queue, id)
<1>2. /\ UNCHANGED <<clock, scene, arrived, watermark, table, proc, run, faults>>
      /\ HistIs(hist.from, hist.owed, hist.asked, hist.covered, [hist.wanted EXCEPT ![id] = hist.owed], hist.unlucky)
      /\ trig' = [queue |-> queue, due |-> trig.due, asking |-> trig.asking \cup {id}, told |-> told]
      /\ trig.told[id] = "unknown"
  <2>1. trig = [queue |-> trig.queue, due |-> trig.due, asking |-> trig.asking, told |-> trig.told]
    BY <1>1 DEF Shapes
  <2> QED
    BY <1>1, <2>1, HistUpdates DEF Trigger
<1>3. /\ trig' = [queue |-> trig'.queue, due |-> trig'.due, asking |-> trig'.asking, told |-> trig'.told]
      /\ trig'.queue = queue /\ trig'.told = told
  BY <1>2
<1>4. /\ \A i \in scene.ids : told[i] = IF i = id THEN "queued" ELSE trig.told[i]
      /\ told = [i \in scene.ids |-> told[i]]
  BY <1>1 DEF Shapes
<1> DEFINE w == [hist.wanted EXCEPT ![id] = hist.owed]
<1>5. w = [i \in scene.ids |-> w[i]]
  BY <1>1 DEF Shapes
<1>6. /\ trig.queue \in Seq(scene.ids)
      /\ \A n \in DOMAIN trig.queue : /\ trig.queue[n] \in scene.ids /\ trig.queue[n] # id
                                     /\ trig.told[trig.queue[n]] = "queued"
  BY <1>1, <1>2 DEF QueuedOnce, TypeOK, ToSet
<1>7. /\ queue \in Seq(scene.ids) /\ Len(trig.queue) \in Nat
      /\ DOMAIN queue = DOMAIN trig.queue \cup {Len(trig.queue) + 1}
      /\ Len(trig.queue) + 1 \notin DOMAIN trig.queue
      /\ \A n \in DOMAIN trig.queue : queue[n] = trig.queue[n]
      /\ queue[Len(trig.queue) + 1] = id
  <2> DEFINE q == trig.queue  S == scene.ids
  <2>1. q \in Seq(S) /\ id \in S
    BY <1>6
  <2> HIDE DEF q, S
  <2>2. /\ Append(q, id) \in Seq(S) /\ Len(q) \in Nat /\ Len(Append(q, id)) = Len(q) + 1
        /\ DOMAIN q = 1 .. Len(q) /\ DOMAIN Append(q, id) = 1 .. Len(q) + 1
        /\ Append(q, id)[Len(q) + 1] = id
    BY <2>1, AppendProperties, LenProperties
  <2>3. \A n \in 1 .. Len(q) : Append(q, id)[n] = q[n]
    BY <2>1, <2>2, AppendProperties
  <2>4. /\ DOMAIN Append(q, id) = DOMAIN q \cup {Len(q) + 1}
        /\ Len(q) + 1 \notin DOMAIN q
    BY <2>2
  <2> QED
    BY <2>2, <2>3, <2>4 DEF q, S
<1> HIDE DEF told, queue, w
<1>8. QueuedOnce'
  BY <1>1, <1>2, <1>3, <1>6, <1>7 DEF QueuedOnce
<1>9. ToSet(trig'.queue) \subseteq {i \in scene.ids : told[i] = "queued"}
  <2>1. ASSUME NEW n \in DOMAIN queue
        PROVE  queue[n] \in scene.ids /\ told[queue[n]] = "queued"
    <3>1. n \in DOMAIN trig.queue \/ n = Len(trig.queue) + 1
      BY <1>7
    <3> QED
      BY <1>4, <1>6, <1>7, <3>1
  <2> QED
    BY <1>3, <2>1 DEF ToSet
<1>10. TypeOK'
  BY <1>1, <1>2, <1>3, <1>9 DEF TypeOK, HistIs, Row
<1>11. HistIs(hist.from, hist.owed, hist.asked, hist.covered, w, hist.unlucky)
  BY <1>2 DEF w
<1>12. Shapes'
  BY <1>1, <1>2, <1>3, <1>4, <1>5, <1>11 DEF Shapes, HistIs
<1>13. RunWindow' /\ LastWindow'
  BY <1>2, WindowsStay DEF HistIs
<1> QED
  BY <1>8, <1>10, <1>12, <1>13 DEF Framed

\* A firing, or one that fails or is dropped, leaves the queue alone.
LEMMA FiringFramed ==
  ASSUME Framed, FiringSkipped \/ \E id \in scene.ids : Fire(id)
  PROVE  Framed'
<1>1. TypeOK /\ Shapes /\ QueuedOnce
  BY DEF Framed
<1>2. UNCHANGED <<clock, scene, arrived, watermark, table, proc, run, hist>>
  BY DEF FiringSkipped, Fire
<1>3. TrigIs(trig.queue, trig.told)
  <2>1. trig = [queue |-> trig.queue, due |-> trig.due, asking |-> trig.asking, told |-> trig.told]
    BY <1>1 DEF Shapes
  <2>2. ASSUME NEW a, NEW b
        PROVE  /\ trig' = [trig EXCEPT !.due = b] => TrigIs(trig.queue, trig.told)
               /\ trig' = [trig EXCEPT !.asking = a] => TrigIs(trig.queue, trig.told)
               /\ trig' = [trig EXCEPT !.asking = a, !.due = b] => TrigIs(trig.queue, trig.told)
    <3>1. trig' = [trig EXCEPT !.due = b] => TrigIs(trig.queue, trig.told)
      BY <2>1 DEF TrigIs
    <3>2. trig' = [trig EXCEPT !.asking = a] => TrigIs(trig.queue, trig.told)
      BY <2>1 DEF TrigIs
    <3>3. trig' = [trig EXCEPT !.asking = a, !.due = b] => TrigIs(trig.queue, trig.told)
      BY <2>1 DEF TrigIs
    <3> QED
      BY <3>1, <3>2, <3>3
  <2>3. CASE FiringSkipped
    <3>1. PICK b : trig' = [trig EXCEPT !.due = b]
      BY <2>3, Zenon DEF FiringSkipped
    <3> QED
      BY <2>2, <3>1, Zenon
  <2>4. CASE \E id \in scene.ids : Fire(id)
    <3>1. \/ \E a, b : trig' = [trig EXCEPT !.asking = a, !.due = b]
          \/ \E a : trig' = [trig EXCEPT !.asking = a]
      BY <2>4, Zenon DEF Fire
    <3> QED
      BY <2>2, <3>1, Zenon
  <2> QED
    BY <2>3, <2>4
<1>4. faults' \in 0 .. MaxFaults
  <2>1. faults' = faults \/ Fault
    BY DEF FiringSkipped, Fire
  <2> QED
    BY <1>1, <2>1, RollupsAssumption DEF TypeOK, Fault
<1>5. TypeOK'
  BY <1>1, <1>2, <1>3, <1>4 DEF TypeOK, TrigIs, Row
<1>6. Shapes'
  BY <1>1, <1>2, <1>3 DEF Shapes, TrigIs
<1>7. QueuedOnce'
  BY <1>1, <1>2, <1>3 DEF QueuedOnce, TrigIs
<1>8. RunWindow' /\ LastWindow'
  BY <1>2, WindowsStay
<1> QED
  BY <1>5, <1>6, <1>7, <1>8 DEF Framed

\* A run that begins: the watermark and what is remembered stay, but for a skip.
LEMMA BeginFramed ==
  ASSUME Framed, ConfigFails \/ BrandFails
  PROVE  Framed'
<1>1. TypeOK /\ Shapes /\ QueuedOnce
  BY DEF Framed
<1>2. PICK status : TrigIs(Rest, ToldNow(NextId(trig), status))
  BY <1>1, BeginDoes
<1>3. /\ run = None /\ faults' \in 0 .. MaxFaults
      /\ UNCHANGED <<clock, scene, arrived, table, watermark, proc, run>>
  BY <1>1, BeginDoes DEF ConfigFails, BrandFails
<1>4. \E u : HistSame(u)
  BY <1>1, HistUpdates DEF ConfigFails, BrandFails
<1>5. /\ Rest \in Seq(scene.ids)
      /\ \A m, n \in DOMAIN Rest : Rest[m] = Rest[n] => m = n
      /\ ToSet(Rest) \subseteq {id \in scene.ids : ToldNow(NextId(trig), status)[id] = "queued"}
  BY <1>1, TakeId, Zenon
<1>6. trig'.queue = Rest /\ trig'.told = ToldNow(NextId(trig), status)
  BY <1>2 DEF TrigIs
<1>7. TypeOK'
  BY <1>1, <1>3, <1>4, <1>5, <1>6 DEF TypeOK, HistSame, HistIs, Row
<1>8. QueuedOnce'
  BY <1>3, <1>5, <1>6 DEF QueuedOnce
<1>9. trig'.told = [id \in scene.ids |-> trig'.told[id]]
  BY <1>6 DEF ToldNow
<1>10. Shapes'
  BY <1>1, <1>2, <1>3, <1>4, <1>6, <1>9 DEF Shapes, HistSame, HistIs, TrigIs
<1>11. RunWindow' /\ LastWindow'
  BY <1>3, <1>4, WindowsStay DEF HistSame, HistIs
<1> QED
  BY <1>7, <1>8, <1>10, <1>11 DEF Framed

\* A run is skipped only if nothing came since the last, and then at its own hour.
LEMMA SkipAtWatermark ==
  ASSUME Framed, SkipRun
  PROVE  /\ watermark = clock /\ watermark # None
         /\ LastFresh /\ proc.last.dates = Days(WindowStart(clock), clock)
<1>1. TypeOK /\ LastWindow
  BY DEF Framed
<1>2. /\ watermark # None
      /\ proc.last = [dates |-> Days(WindowStart(clock), clock), sig |-> Signature]
  BY DEF SkipRun, Unchanged
<1>3. clock \in Nat /\ IsFiniteSet(arrived)
  BY <1>1, SceneTyped
<1>4. watermark \in {None} \cup 0 .. clock
  BY <1>1 DEF TypeOK
<1>5. WindowStart(clock) \in 0 .. clock
  BY <1>3, <1>4, WindowStartIs
<1>6. proc.last # None
  <2>1. Days(WindowStart(clock), clock) \subseteq Nat
    <3>1. DayOf(WindowStart(clock)) \in Nat /\ DayOf(clock) \in Nat
      BY <1>3, <1>5, DayMono
    <3> QED
      BY <3>1 DEF Days
  <2>2. Signature \in Nat \X Nat \X Nat \X Nat
    BY <1>3, CountsTyped DEF Signature, Closed
  <2>3. proc.last \in [dates : SUBSET Nat, sig : Nat \X Nat \X Nat \X Nat]
    BY <1>2, <2>1, <2>2
  <2> QED
    BY <2>3, NoneAssumption
<1>7. Signs(arrived, proc.last.sig, watermark)
  BY <1>1, <1>6 DEF LastWindow
<1>8. proc.last.sig = Signature /\ proc.last.dates = Days(WindowStart(clock), clock)
  BY <1>2
<1>9. watermark = clock /\ NoneSince(arrived, proc.last.sig)
  BY <1>3, <1>7, <1>8, SignatureSigns
<1> QED
  BY <1>2, <1>6, <1>8, <1>9 DEF LastFresh

\* A skipped run moves the watermark to where it is already.
LEMMA SkipFramed ==
  ASSUME Framed, SkipRun
  PROVE  Framed'
<1>1. TypeOK /\ Shapes /\ QueuedOnce
  BY DEF Framed
<1>2. PICK status : TrigIs(Rest, ToldNow(NextId(trig), status))
  BY <1>1, BeginDoes
<1>3. /\ run = None /\ faults' \in 0 .. MaxFaults
      /\ UNCHANGED <<clock, scene, arrived, table, proc, run>>
      /\ watermark' = watermark
  BY <1>1, BeginDoes, SkipAtWatermark DEF SkipRun
<1> DEFINE covered == {r \in hist.owed : DayOf(r.time) >= hist.from}
<1>4. HistIs(hist.from, hist.owed, hist.asked, covered, hist.wanted, hist.unlucky) /\ covered \subseteq hist.owed
  BY <1>1, HistUpdates DEF SkipRun
<1>5. /\ Rest \in Seq(scene.ids)
      /\ \A m, n \in DOMAIN Rest : Rest[m] = Rest[n] => m = n
      /\ ToSet(Rest) \subseteq {id \in scene.ids : ToldNow(NextId(trig), status)[id] = "queued"}
  BY <1>1, TakeId, Zenon
<1>6. trig'.queue = Rest /\ trig'.told = ToldNow(NextId(trig), status)
  BY <1>2 DEF TrigIs
<1> HIDE DEF covered
<1>7. TypeOK'
  BY <1>1, <1>3, <1>4, <1>5, <1>6 DEF TypeOK, HistIs, Row
<1>8. QueuedOnce'
  BY <1>3, <1>5, <1>6 DEF QueuedOnce
<1>9. trig'.told = [id \in scene.ids |-> trig'.told[id]]
  BY <1>6 DEF ToldNow
<1>10. Shapes'
  BY <1>1, <1>2, <1>3, <1>4, <1>6, <1>9 DEF Shapes, HistIs, TrigIs
<1>11. RunWindow' /\ LastWindow'
  BY <1>3, <1>4, WindowsStay DEF HistIs
<1> QED
  BY <1>7, <1>8, <1>10, <1>11 DEF Framed

\* The record of a run that starts.
Started(sig, from) ==
  run' = [next |-> 0, now |-> clock, dates |-> Days(WindowStart(clock), clock), sig |-> sig, source |-> None,
          failed |-> FALSE, clean |-> TRUE, id |-> NextId(trig), from |-> from]

\* A new run's window, and from which day on it counts what it is asked for.
LEMMA StartDoes ==
  ASSUME Framed, NEW sig \in {Signature, None}, StartRun(sig)
  PROVE  \E from \in Nat :
           /\ Started(sig, from)
           /\ hist.from <= from
           /\ Window(Days(WindowStart(clock), clock), clock)
           /\ \A r \in arrived :
                r.time <= clock /\ (watermark = None \/ Due(DayOf(r.time), watermark)) =>
                  DayOf(r.time) \in Days(WindowStart(clock), clock) \/ DayOf(r.time) < from
<1> DEFINE start == WindowStart(clock)
           dates == Days(start, clock)
           bounded == watermark = None \/ clock - MaxWindow > watermark - Overlap
           from == IF bounded THEN Max({hist.from, Min(dates)}) ELSE hist.from
<1>1. TypeOK /\ Shapes
  BY DEF Framed
<1>2. clock \in Nat /\ watermark \in {None} \cup 0 .. clock /\ hist.from \in Nat
  BY <1>1, SceneTyped DEF TypeOK, Shapes
<1>3. Overlap \in Nat /\ MaxWindow \in Nat
  BY RollupsAssumption
<1>4. start \in 0 .. clock
  BY <1>2, WindowStartIs
<1>5. /\ DayOf(start) \in Nat /\ DayOf(clock) \in Nat /\ DayOf(start) <= DayOf(clock)
      /\ dates = DayOf(start) .. DayOf(clock)
  BY <1>2, <1>4, DayMono DEF Days
<1>6. Min(dates) = DayOf(start)
  BY <1>5, IntervalEnds
<1>7. /\ Max({hist.from, DayOf(start)}) \in {hist.from, DayOf(start)}
      /\ Max({hist.from, DayOf(start)}) >= hist.from /\ Max({hist.from, DayOf(start)}) >= DayOf(start)
  <2>1. hist.from \in Int /\ DayOf(start) \in Int
    BY <1>2, <1>5
  <2> QED
    BY <2>1, MaxTwo, Zenon
<1>8. Started(sig, from)
  BY DEF StartRun, Started
<1> HIDE DEF start, dates, bounded
<1>9. from \in Nat /\ hist.from <= from /\ (bounded => DayOf(start) <= from)
  <2>1. CASE bounded
    <3>1. from = Max({hist.from, DayOf(start)})
      BY <1>6, <2>1
    <3> HIDE DEF from
    <3> QED
      BY <1>2, <1>5, <1>7, <3>1
  <2>2. CASE ~ bounded
    BY <1>2, <2>2
  <2> QED
    BY <2>1, <2>2
<1>10. Window(dates, clock)
  BY <1>4 DEF Window, dates
<1>11. ASSUME NEW r \in arrived, r.time <= clock, watermark = None \/ Due(DayOf(r.time), watermark)
       PROVE  DayOf(r.time) \in dates \/ DayOf(r.time) < from
  <2>1. r.time \in Nat
    BY <1>1, SceneTyped
  <2>2. DayOf(r.time) \in Nat /\ DayOf(r.time) <= DayOf(clock)
    BY <1>2, <1>11, <2>1, DayMono
  <2>3. CASE bounded
    BY <1>5, <1>9, <2>2, <2>3
  <2>4. CASE ~ bounded
    <3>1. watermark # None /\ clock - MaxWindow <= watermark - Overlap
      BY <1>2, <1>3, <2>4 DEF bounded
    <3>2. start = Max({0, watermark - Overlap})
      BY <1>2, <3>1, WindowStartIs DEF start
    <3>3. DayOf(start) <= DayOf(r.time)
      BY <1>11, <3>1, <3>2 DEF Due
    <3> QED
      BY <1>5, <2>2, <3>3
  <2> QED
    BY <2>3, <2>4
<1> HIDE DEF from
<1> QED
  BY <1>8, <1>9, <1>10, <1>11 DEF dates, start

\* A run that starts has a window that ends now.
LEMMA StartFramed ==
  ASSUME Framed, NEW sig \in {Signature, None}, StartRun(sig)
  PROVE  Framed'
<1>1. TypeOK /\ Shapes /\ QueuedOnce /\ LastWindow
  BY DEF Framed
<1>2. PICK status : TrigIs(Rest, ToldNow(NextId(trig), status))
  BY <1>1, BeginDoes
<1>3. /\ run = None /\ faults' \in 0 .. MaxFaults
      /\ UNCHANGED <<clock, scene, arrived, table, proc, watermark>>
  BY <1>1, BeginDoes DEF StartRun
<1>4. HistIs(hist.from, hist.owed, hist.owed, hist.covered, hist.wanted, hist.unlucky)
  BY <1>1, HistUpdates DEF StartRun
<1>5. PICK from \in Nat :
        Started(sig, from) /\ hist.from <= from /\ Window(Days(WindowStart(clock), clock), clock)
  BY StartDoes
<1>6. /\ run'.next = 0 /\ run'.now = clock /\ run'.dates = Days(WindowStart(clock), clock)
      /\ run'.sig = sig /\ run'.from = from
      /\ run' = [next |-> run'.next, now |-> run'.now, dates |-> run'.dates, sig |-> run'.sig,
                 source |-> run'.source, failed |-> run'.failed, clean |-> run'.clean,
                 id |-> run'.id, from |-> run'.from]
  BY <1>5 DEF Started
<1>7. clock \in Nat /\ IsFiniteSet(arrived) /\ hist.covered \subseteq hist.owed
  BY <1>1, SceneTyped DEF TypeOK
<1>8. Max(Days(WindowStart(clock), clock)) = DayOf(clock)
  <2>1. WindowStart(clock) \in 0 .. clock
    BY <1>1, <1>7, WindowStartIs DEF TypeOK
  <2>2. DayOf(WindowStart(clock)) \in Nat /\ DayOf(clock) \in Nat /\ DayOf(WindowStart(clock)) <= DayOf(clock)
    BY <1>7, <2>1, DayMono
  <2> QED
    BY <2>2, IntervalEnds DEF Days
<1>9. /\ Rest \in Seq(scene.ids)
      /\ \A m, n \in DOMAIN Rest : Rest[m] = Rest[n] => m = n
      /\ ToSet(Rest) \subseteq {id \in scene.ids : ToldNow(NextId(trig), status)[id] = "queued"}
  BY <1>1, TakeId, Zenon
<1>10. trig'.queue = Rest /\ trig'.told = ToldNow(NextId(trig), status)
  BY <1>2 DEF TrigIs
<1>11. TypeOK'
  <2>1. run'.next \in 0 .. Len(Stages) + 1 /\ Max(run'.dates) = DayOf(run'.now) /\ run'.now <= clock'
    BY <1>3, <1>6, <1>7, <1>8 DEF Stages
  <2> QED
    BY <1>1, <1>3, <1>4, <1>9, <1>10, <2>1 DEF TypeOK, HistIs, Row
<1>12. QueuedOnce'
  BY <1>3, <1>9, <1>10 DEF QueuedOnce
<1>13. trig'.told = [id \in scene.ids |-> trig'.told[id]]
  BY <1>10 DEF ToldNow
<1>14. Shapes'
  BY <1>1, <1>2, <1>3, <1>4, <1>6, <1>10, <1>13 DEF Shapes, HistIs, TrigIs
<1>15. LastWindow'
  BY <1>1, <1>3, <1>4 DEF LastWindow, HistIs
<1>16. RunWindow'
  BY <1>3, <1>4, <1>5, <1>6, <1>7, SignatureSigns DEF RunWindow, HistIs
<1> QED
  BY <1>11, <1>12, <1>14, <1>15, <1>16 DEF Framed

\* A run goes on: its window and what it was asked for stay.
LEMMA PrepareDoes ==
  ASSUME Framed, PrepareSource
  PROVE  /\ run # None /\ run.next = 0
         /\ \/ RunIs(1, On(arrived, run.dates) \ Closed, run.failed)
            \/ RunIs(1, run.source, run.failed)
         /\ HistSame(hist.unlucky)
         /\ \E refused : proc' = [last |-> proc.last, refused |-> refused]
         /\ faults' \in 0 .. MaxFaults
         /\ UNCHANGED <<clock, scene, arrived, watermark, table, trig>>
<1>1. TypeOK /\ Shapes
  BY DEF Framed
<1>2. /\ run # None /\ run.next = 0
      /\ UNCHANGED <<clock, scene, arrived, watermark, table, trig>>
      /\ faults' = faults \/ Fault
  BY DEF PrepareSource
<1>3. \/ RunIs(1, On(arrived, run.dates) \ Closed, run.failed)
      \/ RunIs(1, run.source, run.failed)
  BY <1>1, <1>2, RunUpdates DEF PrepareSource
<1>4. HistSame(hist.unlucky)
  BY <1>1, HistUpdates DEF PrepareSource
<1>5. faults' \in 0 .. MaxFaults
  BY <1>1, <1>2, RollupsAssumption DEF TypeOK, Fault
<1>6. \E refused : proc' = [last |-> proc.last, refused |-> refused]
  <2>1. proc = [last |-> proc.last, refused |-> proc.refused]
    BY <1>1 DEF Shapes
  <2>2. \A b : [proc EXCEPT !.refused = b] = [last |-> proc.last, refused |-> b]
    BY <2>1
  <2>3. proc' = proc \/ \E b \in BOOLEAN : proc' = [proc EXCEPT !.refused = b]
    BY DEF PrepareSource
  <2> QED
    BY <2>1, <2>2, <2>3
<1> QED
  BY <1>2, <1>3, <1>4, <1>5, <1>6

\* A run that has its copy, or none, keeps its window.
LEMMA PrepareFramed ==
  ASSUME Framed, PrepareSource
  PROVE  Framed'
<1>1. TypeOK /\ Shapes /\ QueuedOnce /\ RunWindow /\ LastWindow
  BY DEF Framed
<1>2. /\ run # None
      /\ HistSame(hist.unlucky) /\ faults' \in 0 .. MaxFaults
      /\ UNCHANGED <<clock, scene, arrived, watermark, table, trig>>
  BY PrepareDoes
<1>3. /\ run'.next = 1 /\ run'.now = run.now /\ run'.dates = run.dates
      /\ run'.sig = run.sig /\ run'.from = run.from
      /\ run' = [next |-> run'.next, now |-> run'.now, dates |-> run'.dates, sig |-> run'.sig,
                 source |-> run'.source, failed |-> run'.failed, clean |-> run'.clean,
                 id |-> run'.id, from |-> run'.from]
  BY PrepareDoes DEF RunIs
<1>4. /\ proc'.last = proc.last
      /\ proc' = [last |-> proc'.last, refused |-> proc'.refused]
  BY PrepareDoes
<1>5. TypeOK'
  <2>1. run'.next \in 0 .. Len(Stages) + 1 /\ Max(run'.dates) = DayOf(run'.now) /\ run'.now <= clock'
    BY <1>1, <1>2, <1>3 DEF TypeOK, Stages
  <2> QED
    BY <1>1, <1>2, <2>1 DEF TypeOK, HistSame, HistIs, Row
<1>6. Shapes' /\ QueuedOnce'
  BY <1>1, <1>2, <1>3, <1>4 DEF Shapes, QueuedOnce, HistSame, HistIs
<1>7. RunWindow'
  BY <1>1, <1>2, <1>3 DEF RunWindow, HistSame, HistIs
<1>8. LastWindow'
  BY <1>1, <1>2, <1>4 DEF LastWindow, HistSame, HistIs
<1> QED
  BY <1>5, <1>6, <1>7, <1>8 DEF Framed

\* A stage writes facts of days that have come.
LEMMA StageFramed ==
  ASSUME Framed, Stage \/ OpenUnread \/ LevelsUnread \/ StageRetried \/ StageFails
  PROVE  Framed'
<1>1. TypeOK /\ Shapes /\ QueuedOnce /\ RunWindow
  BY DEF Framed
<1>2. /\ run # None /\ run.next \in 1 .. 7 /\ Here \in ToSet(Stages)
      /\ HistSame(hist.unlucky) /\ faults' \in 0 .. MaxFaults
      /\ UNCHANGED <<clock, scene, arrived, watermark, proc, trig>>
  BY <1>1, StageDoes
<1>3. PICK T, source, both : StageStep(T, source, both)
  BY <1>1, StageDoes
<1>4. /\ table' = [stage \in ToSet(Stages) |-> table'[stage]]
      /\ table'[Here] = T
      /\ \A stage \in ToSet(Stages) \ {Here} : table'[stage] = table[stage]
  BY <1>1, <1>2, <1>3, StageTables DEF StageStep
<1> DEFINE C == Computed(Here, run.dates, source, both)
<1>5. PICK next \in {run.next + 1, Len(Stages) + 1} : \E failed : RunIs(next, run.source, failed)
  BY <1>3 DEF StageStep
<1>6. /\ run'.next = next /\ run'.now = run.now /\ run'.dates = run.dates
      /\ run'.sig = run.sig /\ run'.from = run.from
      /\ run' = [next |-> run'.next, now |-> run'.now, dates |-> run'.dates, sig |-> run'.sig,
                 source |-> run'.source, failed |-> run'.failed, clean |-> run'.clean,
                 id |-> run'.id, from |-> run'.from]
  BY <1>5 DEF RunIs
<1>7. T \subseteq table[Here] \cup C
  BY <1>3, LeftWithin DEF StageStep
<1>8. \A f \in C : f.day \in Days(0, clock)
  <2>1. run.now \in Nat /\ run.now <= clock /\ clock \in Nat
    BY <1>1, <1>2, SceneTyped DEF TypeOK, RunWindow
  <2>2. PICK w \in 0 .. run.now : run.dates = Days(w, run.now)
    BY <1>1, <1>2 DEF RunWindow, Window
  <2>3. w \in Nat /\ w <= run.now
    BY <2>1, <2>2
  <2>4. StageDates(Here, run.dates) \subseteq 0 .. DayOf(run.now)
    BY <2>1, <2>2, <2>3, StageDatesBound
  <2>5. 0 .. DayOf(run.now) \subseteq Days(0, clock)
    <3>1. /\ DayOf(run.now) \in Nat /\ DayOf(clock) \in Nat /\ DayOf(run.now) <= DayOf(clock)
      BY <2>1, DayMono
    <3>2. DayOf(0) = 0
      BY DayZero
    <3> QED
      BY <3>1, <3>2 DEF Days
  <2> QED
    BY <1>2, <2>4, <2>5, ComputedDays
<1> HIDE DEF C
<1>9. TypeOK'
  <2>1. run'.next \in 0 .. Len(Stages) + 1 /\ Max(run'.dates) = DayOf(run'.now) /\ run'.now <= clock'
    BY <1>1, <1>2, <1>6 DEF TypeOK, Stages
  <2>2. \A stage \in ToSet(Stages) : \A f \in table'[stage] : f.day \in Days(0, clock)
    BY <1>1, <1>4, <1>7, <1>8 DEF TypeOK
  <2> QED
    BY <1>1, <1>2, <2>1, <2>2 DEF TypeOK, HistSame, HistIs, Row
<1>10. Shapes' /\ QueuedOnce'
  BY <1>1, <1>2, <1>4, <1>6 DEF Shapes, QueuedOnce, HistSame, HistIs
<1>11. RunWindow' /\ LastWindow'
  BY <1>2, <1>6, WindowsStay DEF HistSame, HistIs
<1> QED
  BY <1>9, <1>10, <1>11 DEF Framed

\* Fields of the memory of the process.
LEMMA ProcUpdates ==
  ASSUME Shapes, NEW x
  PROVE  /\ [proc EXCEPT !.last = x] = [last |-> x, refused |-> proc.refused]
         /\ [proc EXCEPT !.last = x].last = x
<1>1. proc = [last |-> proc.last, refused |-> proc.refused]
  BY DEF Shapes
<1> QED
  BY <1>1

\* A complete run sets the watermark and is remembered with the signature it began with.
LEMMA CompletedDoes ==
  ASSUME Framed, EndRun, ~ run.failed
  PROVE  /\ run # None /\ run.next = 8 /\ run' = None
         /\ watermark' = run.now
         /\ proc' = [last |-> Remember(run.sig), refused |-> proc.refused]
         /\ HistIs(run.from, hist.owed, hist.asked, {r \in hist.asked : DayOf(r.time) >= run.from},
                   hist.wanted, hist.unlucky)
         /\ UNCHANGED <<clock, scene, arrived, table, faults>>
<1>1. Shapes
  BY DEF Framed
<1>2. /\ run # None /\ run.next = 8 /\ run' = None
      /\ watermark' = run.now
      /\ proc' = [proc EXCEPT !.last = Remember(run.sig)]
      /\ UNCHANGED <<clock, scene, arrived, table, faults>>
  BY DEF EndRun, Completed, Stages
<1> DEFINE covered == {r \in hist.asked : DayOf(r.time) >= run.from}
           torn == IF run.clean THEN hist.torn \ run.dates ELSE hist.torn
<1>3. hist' = [hist EXCEPT !.from = run.from, !.covered = covered, !.torn = torn]
  BY DEF EndRun, Completed
<1> HIDE DEF covered, torn
<1>4. HistIs(run.from, hist.owed, hist.asked, covered, hist.wanted, hist.unlucky)
  BY <1>1, <1>3, HistUpdates
<1>5. proc' = [last |-> Remember(run.sig), refused |-> proc.refused]
  BY <1>1, <1>2, ProcUpdates
<1> QED
  BY <1>2, <1>4, <1>5 DEF covered

\* Any other end of a run, or of the container, moves nothing and is remembered
\* at most as before.
LEMMA BrokenOffDoes ==
  ASSUME Framed, (EndRun /\ run.failed) \/ WatermarkFails \/ Crash
  PROVE  /\ run' = None
         /\ \E refused : proc' \in {proc, [last |-> None, refused |-> refused]}
         /\ HistSame(hist'.unlucky)
         /\ UNCHANGED <<clock, scene, arrived, watermark, table>>
         /\ faults' \in 0 .. MaxFaults
<1>1. TypeOK /\ Shapes
  BY DEF Framed
<1>2. /\ run' = None
      /\ UNCHANGED <<clock, scene, arrived, watermark, table>>
      /\ faults' = faults \/ Fault
  BY DEF EndRun, Completed, WatermarkFails, Crash
<1>3. faults' \in 0 .. MaxFaults
  BY <1>1, <1>2, RollupsAssumption DEF TypeOK, Fault
<1>4. \E u : HistSame(u)
  BY <1>1, HistUpdates DEF EndRun, Completed, WatermarkFails, Crash
<1>5. HistSame(hist'.unlucky)
  BY <1>4 DEF HistSame, HistIs
<1>6. \E refused : proc' \in {proc, [last |-> None, refused |-> refused]}
  <2>1. \/ proc' = proc
        \/ proc' = [proc EXCEPT !.last = None]
        \/ proc' = [last |-> None, refused |-> FALSE]
    BY DEF EndRun, Completed, WatermarkFails, Crash
  <2>2. [proc EXCEPT !.last = None] = [last |-> None, refused |-> proc.refused]
    BY <1>1, ProcUpdates
  <2> QED
    BY <2>1, <2>2, Zenon
<1> QED
  BY <1>2, <1>3, <1>5, <1>6

\* The requests after a run ends or the container does.
LEMMA TrigAfter ==
  ASSUME Framed, EndRun \/ WatermarkFails \/ Crash,
         run # None /\ run.id # None => trig.told[run.id] = "running"
  PROVE  /\ trig' = [queue |-> trig'.queue, due |-> trig'.due, asking |-> trig'.asking, told |-> trig'.told]
         /\ trig'.told = [id \in scene.ids |-> trig'.told[id]]
         /\ trig'.queue \in Seq(scene.ids)
         /\ \A m, n \in DOMAIN trig'.queue : trig'.queue[m] = trig'.queue[n] => m = n
         /\ ToSet(trig'.queue) \subseteq {id \in scene.ids : trig'.told[id] = "queued"}
<1>1. TypeOK /\ Shapes /\ QueuedOnce
  BY DEF Framed
<1>2. CASE EndRun \/ WatermarkFails
  <2>1. TrigIs(trig.queue, ToldNow(run.id, "completed")) /\ run # None
    BY <1>1, <1>2, EndDoes
  <2>2. trig'.queue = trig.queue /\ trig'.told = ToldNow(run.id, "completed")
    BY <2>1 DEF TrigIs
  <2>3. \A n \in DOMAIN trig.queue : trig.queue[n] \in scene.ids /\ trig.told[trig.queue[n]] = "queued"
    BY <1>1 DEF TypeOK, ToSet
  <2>4. \A n \in DOMAIN trig.queue : ToldNow(run.id, "completed")[trig.queue[n]] = "queued"
    BY <2>1, <2>3 DEF ToldNow
  <2>5. ToSet(trig.queue) \subseteq {id \in scene.ids : trig'.told[id] = "queued"}
    BY <2>2, <2>3, <2>4 DEF ToSet
  <2>6. trig'.told = [id \in scene.ids |-> trig'.told[id]]
    BY <2>2 DEF ToldNow
  <2> QED
    BY <1>1, <2>1, <2>2, <2>5, <2>6 DEF QueuedOnce, TrigIs
<1>3. CASE Crash
  <2>1. trig' = [queue |-> <<>>, due |-> FALSE, asking |-> {}, told |-> trig.told]
    <3>1. trig = [queue |-> trig.queue, due |-> trig.due, asking |-> trig.asking, told |-> trig.told]
      BY <1>1 DEF Shapes
    <3> DEFINE no == FALSE
    <3>2. trig' = [trig EXCEPT !.queue = <<>>, !.due = no, !.asking = {}]
      BY <1>3 DEF Crash
    <3> HIDE DEF no
    <3>3. trig' = [queue |-> <<>>, due |-> no, asking |-> {}, told |-> trig.told]
      BY <3>1, <3>2
    <3> QED
      BY <3>3 DEF no
  <2>2. trig'.queue = <<>> /\ trig'.told = trig.told
    BY <2>1
  <2>3. trig' = [queue |-> trig'.queue, due |-> trig'.due, asking |-> trig'.asking, told |-> trig'.told]
    BY <2>1
  <2>4. ToSet(trig'.queue) = {}
    BY <2>2 DEF ToSet
  <2> QED
    BY <1>1, <2>2, <2>3, <2>4 DEF Shapes
<1> QED
  BY <1>2, <1>3

\* A run that ends, or the container with it, leaves a watermark that has passed.
LEMMA EndFramed ==
  ASSUME Framed, Answers, EndRun \/ WatermarkFails \/ Crash
  PROVE  Framed'
<1>1. TypeOK /\ Shapes /\ QueuedOnce /\ RunWindow /\ LastWindow
  BY DEF Framed
<1>2. /\ trig' = [queue |-> trig'.queue, due |-> trig'.due, asking |-> trig'.asking, told |-> trig'.told]
      /\ trig'.told = [id \in scene.ids |-> trig'.told[id]]
      /\ trig'.queue \in Seq(scene.ids)
      /\ \A m, n \in DOMAIN trig'.queue : trig'.queue[m] = trig'.queue[n] => m = n
      /\ ToSet(trig'.queue) \subseteq {id \in scene.ids : trig'.told[id] = "queued"}
  BY TrigAfter DEF Answers
<1>3. CASE EndRun /\ ~ run.failed
  <2> DEFINE covered == {r \in hist.asked : DayOf(r.time) >= run.from}
  <2>1. /\ run # None /\ run' = None /\ watermark' = run.now
        /\ proc' = [last |-> Remember(run.sig), refused |-> proc.refused]
        /\ UNCHANGED <<clock, scene, arrived, table, faults>>
    BY <1>3, CompletedDoes
  <2>2. HistIs(run.from, hist.owed, hist.asked, covered, hist.wanted, hist.unlucky)
    BY <1>3, CompletedDoes
  <2>3. covered \subseteq hist.asked
    OBVIOUS
  <2>4. run.now \in Nat /\ run.now <= clock /\ run.from \in Nat
    BY <1>1, <2>1 DEF TypeOK, RunWindow
  <2> HIDE DEF covered
  <2>5. TypeOK'
    <3>1. watermark' \in {None} \cup 0 .. clock
      BY <1>1, <2>1, <2>4, SceneTyped
    <3> QED
      BY <1>1, <1>2, <2>1, <2>2, <2>3, <3>1 DEF TypeOK, HistIs, Row
  <2>6. Shapes'
    BY <1>1, <1>2, <2>1, <2>2, <2>4 DEF Shapes, HistIs
  <2>7. QueuedOnce'
    BY <1>2, <2>1 DEF QueuedOnce
  <2>8. RunWindow'
    BY <2>1 DEF RunWindow
  <2>9. LastWindow'
    <3>1. proc'.last = Remember(run.sig)
      BY <2>1
    <3>2. CASE run.sig = None
      BY <3>1, <3>2 DEF Remember, LastWindow
    <3>3. CASE run.sig # None
      <4>1. proc'.last = [dates |-> run.dates, sig |-> run.sig]
        BY <3>1, <3>3 DEF Remember
      <4>2. Signs(arrived, run.sig, run.now) /\ Window(run.dates, run.now)
        BY <1>1, <2>1, <3>3 DEF RunWindow
      <4> QED
        BY <2>1, <2>2, <2>4, <4>1, <4>2 DEF LastWindow, HistIs
    <3> QED
      BY <3>2, <3>3
  <2> QED
    BY <2>5, <2>6, <2>7, <2>8, <2>9 DEF Framed
<1>4. CASE (EndRun /\ run.failed) \/ WatermarkFails \/ Crash
  <2>1. /\ run' = None /\ HistSame(hist'.unlucky) /\ faults' \in 0 .. MaxFaults
        /\ UNCHANGED <<clock, scene, arrived, watermark, table>>
    BY <1>4, BrokenOffDoes
  <2>2. PICK refused : proc' \in {proc, [last |-> None, refused |-> refused]}
    BY <1>4, BrokenOffDoes
  <2>3. TypeOK'
    BY <1>1, <1>2, <2>1 DEF TypeOK, HistSame, HistIs, Row
  <2>4. /\ proc' = [last |-> proc'.last, refused |-> proc'.refused]
        /\ proc'.last \in {proc.last, None}
    BY <1>1, <2>2 DEF Shapes
  <2>5. Shapes'
    BY <1>1, <1>2, <2>1, <2>4 DEF Shapes, HistSame, HistIs
  <2>6. QueuedOnce'
    BY <1>2, <2>1 DEF QueuedOnce
  <2>7. RunWindow'
    BY <2>1 DEF RunWindow
  <2>8. LastWindow'
    BY <1>1, <2>1, <2>4 DEF LastWindow, HistSame, HistIs
  <2> QED
    BY <2>3, <2>5, <2>6, <2>7, <2>8 DEF Framed
<1> QED
  BY <1>3, <1>4

-----------------------------------------------------------------------------
(* What the tables hold *)

\* A row that comes leaves the days that had facts with some.
LEMMA DaysKeepFacts ==
  ASSUME Framed, NEW r \in Row \ arrived, Arrive(r), NEW stage \in Plain, NEW d,
         Current(stage, {d}) # {}
  PROVE  Current(stage, {d})' # {}
<1>1. arrived' = arrived \cup {r} /\ UNCHANGED scene
  BY DEF Arrive
<1>2. PICK f \in FactsOf(stage, arrived, Open) : f.day = d
  BY DEF Current, OnDays
<1>3. /\ \A s \in Open : s \in Open' \/ s \in Sessions(arrived')
      /\ \A s \in Sessions(arrived') : s.time \in Nat /\ s.id \in Nat
      /\ Sessions(arrived) \subseteq Sessions(arrived')
  <2>1. \A s \in Sessions(Row) : s.time \in Nat /\ s.id \in Nat
    BY SceneTyped DEF Framed
  <2>2. arrived' \subseteq Row
    BY <1>1 DEF Framed, TypeOK
  <2> QED
    BY <1>1, <2>1, <2>2 DEF Open, Sessions, Row
<1>4. CASE stage = "paths"
  <2>1. PICK s \in Sessions(arrived) : f = PathOf(s)
    BY <1>2, <1>4, PathFactsOf
  <2>2. DayOf(s.time) = d
    BY <1>2, <2>1 DEF PathOf, Fact
  <2>3. \E g \in FactsOf("paths", arrived', Open') : g.day = DayOf(s.time)
    BY <1>3, <2>1, DayHasPath
  <2> QED
    BY <1>4, <2>2, <2>3 DEF Current, OnDays
<1>5. CASE stage # "paths"
  <2>1. stage \in PerRow
    BY <1>5 DEF PerRow
  <2>2. FactsOf(stage, arrived, Open) \subseteq FactsOf(stage, arrived', Open')
    BY <1>1, <1>3, <2>1, FactsGrow
  <2> QED
    BY <1>2, <2>2 DEF Current, OnDays
<1> QED
  BY <1>4, <1>5

\* A row that comes makes every signature old, and days with facts keep some.
LEMMA ArriveWritten ==
  ASSUME Framed, Written, NEW r \in Row \ arrived, Arrive(r)
  PROVE  Written'
<1>1. TypeOK /\ Shapes /\ RunWindow /\ LastWindow /\ CopySound /\ DaysHave
  BY DEF Framed, Written
<1>2. /\ arrived' = arrived \cup {r} /\ r \notin arrived
      /\ UNCHANGED <<scene, table, proc, run>>
  BY DEF Arrive
<1>3. hist'.asked = hist.asked
  <2>1. \E x, y : hist' = [hist EXCEPT !.quiet = x, !.owed = y]
    BY Zenon DEF Arrive
  <2> QED
    BY <1>1, <2>1, HistUpdates DEF HistIs
<1>4. \A sig, at : Signs(arrived, sig, at) => ~ NoneSince(arrived', sig)
  BY <1>1, <1>2, SceneTyped, ArrivalShows
<1>5. ~ RunFresh'
  BY <1>1, <1>2, <1>4 DEF RunFresh, RunWindow
<1>6. ~ LastFresh'
  BY <1>1, <1>2, <1>4 DEF LastFresh, LastWindow
<1>7. CopySound'
  <2>1. \A q \in arrived : q \in Closed' <=> q \in Closed
    BY <1>2 DEF Closed, Sessions
  <2>2. hist.asked \subseteq arrived
    BY <1>1 DEF TypeOK
  <2> QED
    BY <1>1, <1>2, <1>3, <1>5, <1>6, <2>1, <2>2 DEF CopySound
<1>8. DaysHave'
  BY <1>1, <1>2, DaysKeepFacts DEF DaysHave
<1> QED
  BY <1>5, <1>6, <1>7, <1>8 DEF Written, LastCurrent, RunCurrent

\* Only a stage changes what the summary is blind on.
LEMMA BlindStays ==
  ASSUME Shapes,
         \/ Tick \/ FiringSkipped \/ UNCHANGED vars \/ (\E id : Trigger(id) \/ Fire(id))
         \/ (\E s, level : Rescore(s, level))
         \/ ConfigFails \/ BrandFails \/ SkipRun \/ (\E sig : StartRun(sig)) \/ PrepareSource
         \/ EndRun \/ WatermarkFails \/ Crash
  PROVE  hist'.blind = hist.blind
<1> DEFINE no == FALSE  yes == TRUE
<1>1. CASE Tick \/ FiringSkipped \/ UNCHANGED vars \/ ConfigFails \/ \E id : Fire(id)
  BY <1>1 DEF Tick, FiringSkipped, vars, ConfigFails, Fire
<1>2. CASE \E id : Trigger(id)
  <2>1. PICK id : hist' = [hist EXCEPT !.wanted[id] = hist.owed]
    BY <1>2 DEF Trigger
  <2> QED
    BY <2>1, FlagUpdates DEF FlagsAre
<1>3. CASE (\E s, level : Rescore(s, level)) \/ Crash
  <2>1. hist' = [hist EXCEPT !.quiet = no]
    BY <1>3 DEF Rescore, Crash
  <2> HIDE DEF no
  <2> QED
    BY <2>1, FlagUpdates DEF FlagsAre
<1>4. CASE BrandFails \/ SkipRun
  <2>1. \/ hist' = [hist EXCEPT !.unlucky = Unlucky(NextId(trig))]
        \/ hist' = [hist EXCEPT !.covered = {r \in hist.owed : DayOf(r.time) >= hist.from}]
    BY <1>4 DEF BrandFails, SkipRun
  <2> QED
    BY <2>1, FlagUpdates DEF FlagsAre
<1>5. CASE \E sig : StartRun(sig)
  <2>1. hist' = [hist EXCEPT !.asked = hist.owed, !.quiet = yes]
    BY <1>5 DEF StartRun
  <2> HIDE DEF yes
  <2> QED
    BY <2>1, FlagUpdates DEF FlagsAre
<1>6. CASE PrepareSource
  <2>1. PICK x : hist' = [hist EXCEPT !.torn = x]
    BY <1>6, Zenon DEF PrepareSource
  <2> QED
    BY <2>1, FlagUpdates DEF FlagsAre
<1>7. CASE EndRun /\ Completed
  <2> DEFINE covered == {r \in hist.asked : DayOf(r.time) >= run.from}
             torn == IF run.clean THEN hist.torn \ run.dates ELSE hist.torn
  <2>1. hist' = [hist EXCEPT !.from = run.from, !.covered = covered, !.torn = torn]
    BY <1>7 DEF EndRun
  <2> HIDE DEF covered, torn
  <2> QED
    BY <2>1, FlagUpdates DEF FlagsAre
<1>8. CASE (EndRun /\ ~ Completed) \/ WatermarkFails
  <2>1. \/ hist' = [hist EXCEPT !.unlucky = Unlucky(RunId)]
        \/ hist' = [hist EXCEPT !.unlucky = Unlucky(RunId), !.quiet = no]
    BY <1>8 DEF EndRun, WatermarkFails
  <2> HIDE DEF no
  <2>2. CASE hist' = [hist EXCEPT !.unlucky = Unlucky(RunId)]
    BY <2>2, FlagUpdates DEF FlagsAre
  <2>3. CASE hist' = [hist EXCEPT !.unlucky = Unlucky(RunId), !.quiet = no]
    BY <2>3, FlagUpdates DEF FlagsAre
  <2> QED
    BY <2>1, <2>2, <2>3
<1> QED
  BY <1>1, <1>2, <1>3, <1>4, <1>5, <1>6, <1>7, <1>8

\* Steps that touch no table and no row, of a run that goes on, ends or is not there.
LEMMA StillWritten ==
  ASSUME Framed, Written, UNCHANGED <<scene, arrived, table>>,
         hist'.asked = hist.asked, hist'.blind = hist.blind,
         proc'.last \in {proc.last, None},
         run' = None \/ run' = run
  PROVE  Written'
<1>1. CopySound /\ DaysHave /\ LastCurrent /\ RunCurrent
  BY DEF Written
<1>2. /\ Closed' = Closed
      /\ \A stage, days : Current(stage, days)' = Current(stage, days)
      /\ \A stage, days : At(stage, days)' = At(stage, days)
      /\ \A stage, days : Seen(stage, days)' = Seen(stage, days)
      /\ \A source, dates : ExactCopy(source, dates)' = ExactCopy(source, dates)
  BY DEF Closed, Current, Open, Row, At, Seen, ExactCopy
<1>3. CopySound'
  BY <1>1, <1>2 DEF CopySound, RunFresh, LastFresh, Closed
<1>4. DaysHave'
  BY <1>1, <1>2 DEF DaysHave
<1>5. LastCurrent'
  BY <1>1, <1>2 DEF LastCurrent, LastFresh
<1>6. RunCurrent'
  BY <1>1, <1>2 DEF RunCurrent, RunFresh
<1> QED
  BY <1>3, <1>4, <1>5, <1>6 DEF Written

\* What is current does not change while no row comes.
LEMMA CurrentStays ==
  ASSUME UNCHANGED <<scene, arrived>>
  PROVE  /\ Closed' = Closed
         /\ \A stage, days : Current(stage, days)' = Current(stage, days)
         /\ \A source, dates : ExactCopy(source, dates)' = ExactCopy(source, dates)
BY DEF Closed, Current, Open, Row, ExactCopy

\* A run that starts has written nothing.
LEMMA StartWritten ==
  ASSUME Framed, Written, NEW sig \in {Signature, None}, StartRun(sig)
  PROVE  Written'
<1>1. DaysHave /\ LastCurrent
  BY DEF Written
<1>2. UNCHANGED <<scene, arrived, table, proc>>
  BY DEF StartRun
<1>3. run'.source = None /\ run'.next = 0
  <2>1. PICK from \in Nat : Started(sig, from)
    BY StartDoes
  <2> QED
    BY <2>1 DEF Started
<1>4. CopySound' /\ RunCurrent'
  BY <1>3 DEF CopySound, RunCurrent
<1>5. DaysHave'
  BY <1>1, <1>2, CurrentStays DEF DaysHave
<1>6. LastCurrent'
  <2>1. hist'.blind = hist.blind
    BY BlindStays DEF Framed
  <2> QED
    BY <1>1, <1>2, <2>1, CurrentStays DEF LastCurrent, LastFresh, At, Seen
<1> QED
  BY <1>4, <1>5, <1>6 DEF Written

\* A copy is exact as it is taken, and has what the run was asked for.
LEMMA PrepareWritten ==
  ASSUME Framed, Written, PrepareSource
  PROVE  Written'
<1>1. TypeOK /\ CopySound /\ DaysHave /\ LastCurrent
  BY DEF Framed, Written
<1>2. /\ run # None /\ HistSame(hist.unlucky)
      /\ UNCHANGED <<scene, arrived, table>>
      /\ proc'.last = proc.last
  BY PrepareDoes
<1> DEFINE copy == On(arrived, run.dates) \ Closed
<1>3. /\ run'.next = 1 /\ run'.dates = run.dates /\ run'.sig = run.sig
      /\ run'.source \in {run.source, copy}
  BY PrepareDoes DEF RunIs
<1>4. hist'.asked = hist.asked /\ hist.asked \subseteq arrived
  BY <1>1, <1>2 DEF HistSame, HistIs, TypeOK
<1>5. CopySound'
  <2>1. CASE run'.source = copy
    <3>1. /\ copy \subseteq arrived
          /\ \A r \in hist.asked \ Closed : DayOf(r.time) \in run.dates => r \in copy
          /\ ExactCopy(copy, run.dates)
      BY <1>4 DEF On, ExactCopy
    <3> HIDE DEF copy
    <3> QED
      BY <1>2, <1>3, <1>4, <2>1, <3>1, CurrentStays DEF CopySound
  <2>2. CASE run'.source = run.source
    BY <1>1, <1>2, <1>3, <1>4, <2>2, CurrentStays DEF CopySound, RunFresh, LastFresh
  <2> QED
    BY <1>3, <2>1, <2>2
<1>6. RunCurrent'
  BY <1>3 DEF RunCurrent
<1>7. DaysHave'
  BY <1>1, <1>2, CurrentStays DEF DaysHave
<1>8. LastCurrent'
  <2>1. hist'.blind = hist.blind
    BY BlindStays DEF Framed
  <2> QED
    BY <1>1, <1>2, <2>1, CurrentStays DEF LastCurrent, LastFresh, At, Seen
<1> QED
  BY <1>5, <1>6, <1>7, <1>8 DEF Written

\* An old fact that the stage computes too, if it is of its days, is left.
LEMMA LeftKeeps ==
  ASSUME NEW T, NEW source, NEW both, Whole(T, source, both) \/ Part(T, source, both),
         Here \in Plain,
         NEW f \in table[Here], f.day \in run.dates => f \in Computed(Here, run.dates, source, both)
  PROVE  f \in T
<1> DEFINE C == Computed(Here, run.dates, source, both)
<1>1. Here # "heatmap" /\ Here \in ToSet(Stages) /\ StageDates(Here, run.dates) = run.dates
  BY DEF Plain, StageDates, ToSet, Stages
<1>2. \A g \in C : g.day \in run.dates
  BY <1>1, ComputedDays
<1>3. f \in Stored(Here, table[Here], C, both) /\ f \in Upserted(Here, table[Here], C, both)
  <2> HIDE DEF C
  <2>1. f.day \in run.dates => f \in C
    BY DEF C
  <2> QED
    BY <1>1, <1>2, <2>1, StoredKeeps
<1>4. CASE Part(T, source, both)
  <2>1. PICK rows, days :
          /\ rows \subseteq C /\ \A h \in rows, g \in C : SameRow(h, g) => g \in rows
          /\ \A h \in C : h.day \in days => h \in rows
          /\ T = Partly(Here, table[Here], rows, days)
    BY <1>4 DEF Part
  <2>2. f.day \in run.dates => f \in C
    OBVIOUS
  <2> HIDE DEF C
  <2>3. f \in rows \/ ~ \E g \in rows : SameRow(f, g)
    BY <1>2, <2>1, <2>2 DEF SameRow
  <2>4. f \in Upserted(Here, table[Here], rows, TRUE)
    BY <2>3 DEF Upserted
  <2>5. ASSUME f.day \in days
        PROVE  f \in rows \/ ~ \E g \in rows : g.day = f.day
    BY <1>2, <2>1, <2>2, <2>5
  <2>6. f.day \in days => f \in Stored(Here, table[Here], rows, TRUE)
    BY <2>4, <2>5 DEF Stored, SameRow
  <2> QED
    BY <2>1, <2>4, <2>6 DEF Partly
<1>5. CASE Whole(T, source, both)
  BY <1>3, <1>5 DEF Whole
<1> QED
  BY <1>4, <1>5

\* Facts of other days than those computed are left as they were.
LEMMA LeftElsewhere ==
  ASSUME NEW T, NEW source, NEW both, Whole(T, source, both) \/ Part(T, source, both),
         NEW f, \A g \in Computed(Here, run.dates, source, both) : g.day # f.day
  PROVE  f \in T <=> f \in table[Here]
<1> DEFINE C == Computed(Here, run.dates, source, both)
<1>1. \A rows : rows \subseteq C =>
        f \notin rows /\ ~ (\E g \in rows : g.day = f.day) /\ ~ (\E g \in rows : SameRow(f, g))
  BY DEF SameRow
<1> HIDE DEF C
<1>2. \A rows, b : rows \subseteq C =>
        /\ f \in Upserted(Here, table[Here], rows, b) <=> f \in table[Here]
        /\ f \in Stored(Here, table[Here], rows, b) <=> f \in table[Here]
  BY <1>1 DEF Stored, Upserted
<1>3. CASE Whole(T, source, both)
  BY <1>2, <1>3 DEF Whole, C
<1>4. CASE Part(T, source, both)
  <2>1. PICK rows, days : rows \subseteq C /\ T = Partly(Here, table[Here], rows, days)
    BY <1>4 DEF Part, C
  <2> QED
    BY <1>2, <2>1 DEF Partly
<1> QED
  BY <1>3, <1>4

\* On days that were current, a stage that computes what is current leaves it so.
LEMMA LeftCurrent ==
  ASSUME NEW T, NEW source, NEW both, Whole(T, source, both) \/ Part(T, source, both),
         Here \in Plain, Computed(Here, run.dates, source, both) = Current(Here, run.dates),
         NEW days, At(Here, days) = Current(Here, days)
  PROVE  OnDays(T, days) = Current(Here, days)
<1>1. ASSUME NEW f \in T, f.day \in days
      PROVE  f \in Current(Here, days)
  <2>1. f \in table[Here] \/ f \in Current(Here, run.dates)
    BY LeftWithin
  <2> QED
    BY <1>1, <2>1 DEF At, Current, OnDays
<1>2. ASSUME NEW f \in Current(Here, days)
      PROVE  f \in T /\ f.day \in days
  <2>1. f \in table[Here] /\ f.day \in days /\ f \in FactsOf(Here, arrived, Open)
    BY <1>2 DEF At, Current, OnDays
  <2>2. f.day \in run.dates => f \in Current(Here, run.dates)
    BY <2>1 DEF Current, OnDays
  <2> QED
    BY <2>1, <2>2, LeftKeeps
<1> QED
  BY <1>1, <1>2 DEF OnDays

\* A whole stage that computes what is current makes its days current.
LEMMA WholeCurrent ==
  ASSUME NEW T, NEW source, NEW both, Whole(T, source, both), DaysHave,
         Here \in Plain, Computed(Here, run.dates, source, both) = Current(Here, run.dates)
  PROVE  OnDays(T, run.dates) = Current(Here, run.dates)
<1> DEFINE C == Current(Here, run.dates)
<1>1. T = C \cup {f \in table[Here] : ~ \E g \in C : g.day = f.day}
  <2>1. Here # "heatmap"
    BY DEF Plain
  <2> QED
    BY <2>1, StoredIs DEF Whole
<1>2. \A f \in C : f.day \in run.dates
  BY DEF Current, OnDays
<1>3. ASSUME NEW f \in table[Here], f.day \in run.dates
      PROVE  \E g \in C : g.day = f.day
  <2>1. PICK g \in Current(Here, {f.day}) : TRUE
    BY DEF DaysHave
  <2>2. g \in FactsOf(Here, arrived, Open) /\ g.day = f.day
    BY <2>1 DEF Current, OnDays
  <2>3. g \in C
    BY <1>3, <2>2 DEF Current, OnDays
  <2> QED
    BY <2>2, <2>3
<1> HIDE DEF C
<1>4. OnDays(T, run.dates) = C
  BY <1>1, <1>2, <1>3 DEF OnDays
<1> QED
  BY <1>4 DEF C

\* A stage leaves every day it replaces with what it computed, and other days alone.
LEMMA StageWritten ==
  ASSUME Framed, Written, Stage \/ OpenUnread \/ LevelsUnread \/ StageRetried \/ StageFails
  PROVE  Written'
<1>1. TypeOK /\ Shapes /\ CopySound /\ DaysHave /\ LastCurrent /\ RunCurrent
  BY DEF Framed, Written
<1>2. /\ run # None /\ run.next \in 1 .. 7 /\ Here \in ToSet(Stages)
      /\ HistSame(hist.unlucky)
      /\ UNCHANGED <<scene, arrived, proc>>
  BY <1>1, StageDoes
<1>3. PICK T, source, both : StageStep(T, source, both)
  BY <1>1, StageDoes
<1>4. /\ table'[Here] = T
      /\ \A stage \in ToSet(Stages) \ {Here} : table'[stage] = table[stage]
  BY <1>1, <1>2, <1>3, StageTables DEF StageStep
<1>5. Whole(T, source, both) \/ Part(T, source, both)
  BY <1>3 DEF StageStep
<1>6. \/ /\ RunIs(run.next + 1, run.source, run.failed) /\ Whole(T, source, both)
         /\ BlindAfter(both)
      \/ (\E next : RunIs(next, run.source, TRUE)) /\ hist'.blind = hist.blind /\ both = TRUE
  BY <1>3 DEF StageStep, Part
<1>7. /\ run'.dates = run.dates /\ run'.sig = run.sig /\ run'.source = run.source
      /\ \/ run'.failed = TRUE
         \/ /\ run'.next = run.next + 1 /\ run'.failed = run.failed
            /\ Whole(T, source, both) /\ BlindAfter(both)
  BY <1>6 DEF RunIs
<1>8. hist'.asked = hist.asked
  BY <1>2 DEF HistSame, HistIs
<1>9. Plain \subseteq ToSet(Stages)
  BY DEF Plain, ToSet, Stages
<1> DEFINE C == Computed(Here, run.dates, source, both)
<1>10. source = None \/ source \subseteq arrived
  BY <1>1, <1>2, <1>3 DEF StageStep, CopySound
<1>11. RunFresh \/ LastFresh => ExactCopy(source, run.dates)
  BY <1>1, <1>2, <1>3 DEF StageStep, CopySound, ExactCopy
<1>12. Here \in Plain /\ (both \/ Here # "summary") /\ (RunFresh \/ LastFresh) =>
         C = Current(Here, run.dates)
  BY <1>11, ComputedCurrent
<1>13. T \subseteq table[Here] \cup C
  BY <1>5, LeftWithin
<1>14. Here \in Plain => C \subseteq Current(Here, run.dates)
  BY <1>10, ComputedPart
<1> HIDE DEF C
<1>15. CopySound'
  BY <1>1, <1>2, <1>7, <1>8, CurrentStays DEF CopySound, RunFresh, LastFresh
<1>16. DaysHave'
  <2>1. ASSUME NEW stage \in Plain, NEW f \in table'[stage]
        PROVE  Current(stage, {f.day}) # {}
    <3>1. CASE f \in table[stage]
      BY <1>1, <3>1 DEF DaysHave
    <3>2. CASE f \notin table[stage]
      <4>1. stage = Here /\ f \in C
        BY <1>4, <1>9, <1>13, <2>1, <3>2
      <4>2. f \in Current(stage, {f.day})
        BY <1>14, <4>1 DEF Current, OnDays
      <4> QED
        BY <4>2
    <3> QED
      BY <3>1, <3>2
  <2> QED
    BY <1>2, <2>1, CurrentStays DEF DaysHave
\* the days that the summary is not blind on afterwards
<1> DEFINE seen(stage, days) == IF stage = "summary" THEN days \ hist'.blind ELSE days
<1>17. /\ \A stage, days : stage # Here \/ Here # "summary" => seen(stage, days) = Seen(stage, days)
       /\ both = TRUE /\ ~ Whole(T, source, both) => \A days : seen(Here, days) = Seen(Here, days)
  BY <1>6 DEF Seen, BlindAfter
<1>18. ASSUME Here = "summary", NEW days, ~ both
       PROVE  seen(Here, days) = Seen(Here, days) \ run.dates
  BY <1>6, <1>18 DEF Seen, BlindAfter
<1>19. ASSUME Here = "summary", NEW days, NEW d \in seen(Here, days), both
       PROVE  d \in Seen(Here, days) \/ (Whole(T, source, both) /\ d \in run.dates)
  BY <1>6, <1>19 DEF Seen, BlindAfter
<1>20. \A g \in C : Here \in Plain => g.day \in run.dates
  BY <1>2, ComputedDays DEF C, Plain, StageDates
\* of days that are current the stage leaves those it is not blind on current
<1>21. ASSUME LastFresh \/ RunFresh, Here \in Plain,
              NEW days, At(Here, Seen(Here, days)) = Current(Here, Seen(Here, days))
       PROVE  OnDays(T, seen(Here, days)) = Current(Here, seen(Here, days))
  <2> DEFINE before == Seen(Here, days)  after == seen(Here, days)
  <2>1. CASE Here = "summary" /\ ~ both
    <3>1. after = before \ run.dates
      BY <1>18, <2>1
    <3>2. \A f : f.day \notin run.dates => (f \in T <=> f \in table[Here])
      BY <1>5, <1>20, <1>21, LeftElsewhere DEF C
    <3> HIDE DEF before, after
    <3>3. OnDays(table[Here], before) = OnDays(FactsOf(Here, arrived, Open), before)
      BY <1>21 DEF At, OnDays, Current, before
    <3>4. OnDays(T, after) = OnDays(FactsOf(Here, arrived, Open), after)
      BY <3>1, <3>2, <3>3 DEF OnDays
    <3> QED
      BY <3>4 DEF Current, after
  <2>2. CASE both \/ Here # "summary"
    <3>1. C = Current(Here, run.dates)
      BY <1>12, <1>21, <2>2
    <3>2. OnDays(T, before) = Current(Here, before)
      BY <1>5, <1>21, <3>1, LeftCurrent DEF C
    <3>3. Whole(T, source, both) => OnDays(T, run.dates) = Current(Here, run.dates)
      BY <1>1, <1>21, <3>1, WholeCurrent DEF C
    <3>4. \A d \in after : d \in before \/ (Whole(T, source, both) /\ d \in run.dates)
      BY <1>17, <1>19, <2>2
    <3> HIDE DEF before, after
    <3>5. ASSUME NEW f, f.day \in after
          PROVE  f \in T <=> f \in FactsOf(Here, arrived, Open)
      BY <3>2, <3>3, <3>4, <3>5 DEF OnDays, Current
    <3>6. OnDays(T, after) = OnDays(FactsOf(Here, arrived, Open), after)
      BY <3>5 DEF OnDays
    <3> QED
      BY <3>6 DEF Current, after
  <2> QED
    BY <2>1, <2>2
<1>22. LastCurrent'
  <2>1. ASSUME LastFresh, NEW stage \in Plain
        PROVE  OnDays(table'[stage], seen(stage, proc.last.dates)) =
                 Current(stage, seen(stage, proc.last.dates))
    <3> HIDE DEF seen
    <3>1. At(stage, Seen(stage, proc.last.dates)) = Current(stage, Seen(stage, proc.last.dates))
      BY <1>1, <2>1 DEF LastCurrent
    <3>2. CASE stage = Here
      BY <1>4, <1>21, <2>1, <3>1, <3>2
    <3>3. CASE stage # Here
      BY <1>4, <1>9, <1>17, <3>1, <3>3 DEF At, OnDays
    <3> QED
      BY <3>2, <3>3
  <2> QED
    BY <1>2, <2>1, CurrentStays DEF LastCurrent, LastFresh, At, OnDays, Seen
\* what a whole stage has written of the run's days, but for those it is blind on
<1>23. ASSUME RunFresh, Here \in Plain, Whole(T, source, both)
       PROVE  OnDays(T, seen(Here, run.dates)) = Current(Here, seen(Here, run.dates))
  <2>1. CASE Here = "summary" /\ ~ both
    <3>1. seen(Here, run.dates) = {}
      BY <1>18, <2>1 DEF Seen
    <3> HIDE DEF seen
    <3> QED
      BY <3>1 DEF OnDays, Current
  <2>2. CASE both \/ Here # "summary"
    <3>1. OnDays(T, run.dates) = Current(Here, run.dates)
      BY <1>1, <1>12, <1>23, <2>2, WholeCurrent DEF C
    <3> DEFINE after == seen(Here, run.dates)
    <3>2. after \subseteq run.dates
      OBVIOUS
    <3> HIDE DEF after
    <3>3. OnDays(T, after) = OnDays(FactsOf(Here, arrived, Open), after)
      BY <3>1, <3>2 DEF OnDays, Current
    <3> QED
      BY <3>3 DEF Current, after
  <2> QED
    BY <2>1, <2>2
<1>24. RunCurrent'
  <2>1. ASSUME RunFresh, ~ run'.failed, NEW n \in 1 .. run'.next - 1, Stages[n] \in Plain
        PROVE  OnDays(table'[Stages[n]], seen(Stages[n], run.dates)) =
                 Current(Stages[n], seen(Stages[n], run.dates))
    <3>1. run'.next = run.next + 1 /\ ~ run.failed /\ Whole(T, source, both)
      BY <1>7, <2>1
    <3>2. n \in 1 .. run.next
      BY <1>2, <2>1, <3>1
    <3>3. CASE n = run.next
      <4>1. Stages[n] = Here
        BY <3>3 DEF Here
      <4> QED
        BY <1>4, <1>23, <2>1, <3>1, <4>1
    <3>4. CASE n # run.next
      <4>1. n \in 1 .. run.next - 1 /\ Stages[n] # Here
        BY <1>2, <3>2, <3>4 DEF Here, Stages
      <4>2. At(Stages[n], Seen(Stages[n], run.dates)) = Current(Stages[n], Seen(Stages[n], run.dates))
        BY <1>1, <2>1, <3>1, <4>1 DEF RunCurrent
      <4> QED
        BY <1>4, <1>9, <1>17, <2>1, <4>1, <4>2 DEF At, OnDays
    <3> QED
      BY <3>3, <3>4
  <2> QED
    BY <1>2, <1>7, <2>1, CurrentStays DEF RunCurrent, RunFresh, At, OnDays, Seen
<1> QED
  BY <1>15, <1>16, <1>22, <1>24 DEF Written

\* A complete run has made its days current, if no row came: that is remembered.
LEMMA CompletedWritten ==
  ASSUME Framed, Written, EndRun, ~ run.failed
  PROVE  Written'
<1>1. DaysHave /\ RunCurrent
  BY DEF Written
<1>2. /\ run # None /\ run.next = 8 /\ run' = None
      /\ proc' = [last |-> Remember(run.sig), refused |-> proc.refused]
      /\ UNCHANGED <<scene, arrived, table>>
  BY CompletedDoes
<1>3. CopySound' /\ RunCurrent'
  BY <1>2 DEF CopySound, RunCurrent, RunFresh
<1>4. DaysHave'
  BY <1>1, <1>2, CurrentStays DEF DaysHave
<1>5. LastCurrent'
  <2>1. proc'.last = Remember(run.sig)
    BY <1>2
  <2>2. CASE run.sig = None
    BY <2>1, <2>2 DEF Remember, LastCurrent, LastFresh
  <2>3. CASE run.sig # None
    <3>1. proc'.last.dates = run.dates /\ proc'.last.sig = run.sig
      BY <2>1, <2>3 DEF Remember
    <3>2. ASSUME RunFresh, ~ run.failed, NEW stage \in Plain
          PROVE  At(stage, Seen(stage, run.dates)) = Current(stage, Seen(stage, run.dates))
      <4>1. PICK n \in 1 .. 7 : stage = Stages[n]
        BY DEF Plain, Stages
      <4>2. n \in 1 .. run.next - 1
        BY <1>2, <4>1
      <4> QED
        BY <1>1, <3>2, <4>1, <4>2 DEF RunCurrent
    <3>3. LastFresh' => RunFresh
      BY <1>2, <2>3, <3>1 DEF LastFresh, RunFresh
    <3>4. hist'.blind = hist.blind
      BY BlindStays DEF Framed
    <3> QED
      BY <1>2, <3>1, <3>2, <3>3, <3>4, CurrentStays DEF LastCurrent, At, Seen
  <2> QED
    BY <2>2, <2>3
<1> QED
  BY <1>3, <1>4, <1>5 DEF Written

-----------------------------------------------------------------------------
(* What is counted, and who is owed what *)

\* A row is counted if each table has its facts.
LEMMA CountedIs ==
  ASSUME NEW r
  PROVE  Counted(r) <=> \A stage \in PerRow : RowFacts(stage, r) \subseteq table[stage]
BY DEF Counted, RowFacts, FactsOf, PerRow, Plain

\* Days later, the window starts no earlier.
LEMMA DueMono ==
  ASSUME NEW m \in Nat, NEW n \in Nat, m <= n, NEW d \in Nat, Due(d, n)
  PROVE  Due(d, m)
<1> DEFINE a == Max({0, m - Overlap})  b == Max({0, n - Overlap})
<1>1. Overlap \in Nat
  BY RollupsAssumption
<1>2. m - Overlap \in Int /\ n - Overlap \in Int /\ 0 \in Int
  BY <1>1
<1>3. /\ a \in {0, m - Overlap} /\ a >= 0 /\ a >= m - Overlap
      /\ b \in {0, n - Overlap} /\ b >= 0 /\ b >= n - Overlap
  BY <1>2, MaxTwo, Zenon
<1> HIDE DEF a, b
<1>4. a \in Nat /\ b \in Nat /\ a <= b
  BY <1>1, <1>2, <1>3
<1>5. DayOf(a) \in Nat /\ DayOf(b) \in Nat /\ DayOf(a) <= DayOf(b)
  BY <1>4, DayMono
<1> QED
  BY <1>5 DEF Due, a, b

\* A row that came within the overlap of now is due in any window so far.
LEMMA DueSince ==
  ASSUME TypeOK, NEW r \in Row,
         DayOf(r.time) >= DayOf(Max({0, clock - Overlap})), NEW m \in Nat, m <= clock
  PROVE  Due(DayOf(r.time), m)
<1>1. clock \in Nat /\ r.time \in Nat
  BY SceneTyped
<1>2. DayOf(r.time) \in Nat
  BY <1>1, DayMono
<1>3. DayOf(Max({0, clock - Overlap})) \in Nat
  <2>1. Overlap \in Nat
    BY RollupsAssumption
  <2>2. clock - Overlap \in Int /\ 0 \in Int
    BY <1>1, <2>1
  <2>3. Max({0, clock - Overlap}) \in {0, clock - Overlap} /\ Max({0, clock - Overlap}) >= 0
    BY <2>2, MaxTwo, Zenon
  <2>4. Max({0, clock - Overlap}) \in Nat
    BY <2>2, <2>3
  <2> QED
    BY <2>4, DayMono
<1>4. Due(DayOf(r.time), clock)
  BY <1>2, <1>3 DEF Due
<1> QED
  BY <1>1, <1>2, <1>4, DueMono

\* Steps that count nothing new, promise nothing and answer nobody.
LEMMA StillServed ==
  ASSUME Framed, Served, UNCHANGED <<scene, arrived, table, watermark>>,
         clock' >= clock, clock' \in Nat,
         HistSame(hist'.unlucky), hist.unlucky \subseteq hist'.unlucky,
         \A id \in scene.ids : trig'.told[id] = trig.told[id]
           \/ /\ ~ (run # None /\ run.id # None /\ id = run.id /\ run' # None)
              /\ trig'.told[id] # "completed" \/ id \in hist'.unlucky,
         run' = None \/ /\ run # None
                        /\ run'.now = run.now /\ run'.from = run.from
                        /\ run'.dates = run.dates /\ run'.id = run.id
                        /\ run' = run \/ run'.next = 1
  PROVE  Served'
<1>1. TypeOK /\ NothingMissed /\ RunCounted /\ OwedDue /\ RunOwed /\ Answers
  BY DEF Framed, Served
<1>2. /\ hist'.from = hist.from /\ hist'.owed = hist.owed /\ hist'.asked = hist.asked
      /\ hist'.covered = hist.covered /\ hist'.wanted = hist.wanted
  BY DEF HistSame, HistIs
<1>3. NothingMissed'
  BY <1>1, <1>2 DEF NothingMissed, Counted
<1>4. RunCounted'
  <2>1. CASE run' = run
    BY <1>1, <1>2, <2>1 DEF RunCounted
  <2>2. CASE run' # None /\ run'.next = 1
    BY <2>2 DEF RunCounted
  <2>3. CASE run' = None
    BY <2>3 DEF RunCounted
  <2> QED
    BY <2>1, <2>2, <2>3
<1>5. OwedDue'
  <2>1. \A r \in arrived : r.time <= clock'
    BY <1>1, SceneTyped DEF OwedDue
  <2> QED
    BY <1>1, <1>2, <2>1 DEF OwedDue
<1>6. RunOwed'
  BY <1>1, <1>2 DEF RunOwed
<1>7. Answers'
  BY <1>1, <1>2 DEF Answers
<1> QED
  BY <1>3, <1>4, <1>5, <1>6, <1>7 DEF Served

\* A row that comes in time is in the next window, whenever that is.
LEMMA ArriveServed ==
  ASSUME Framed, Served, NEW r \in Row \ arrived, Arrive(r)
  PROVE  Served'
<1>1. TypeOK /\ Shapes /\ RunWindow /\ NothingMissed /\ RunCounted /\ OwedDue /\ RunOwed /\ Answers
  BY DEF Framed, Served
<1>2. /\ r.time <= clock /\ arrived' = arrived \cup {r}
      /\ UNCHANGED <<clock, scene, watermark, table, run, trig>>
  BY DEF Arrive
<1> DEFINE due == DayOf(r.time) >= DayOf(Max({0, clock - Overlap}))
           owed == IF due THEN hist.owed \cup {r} ELSE hist.owed
<1>3. /\ hist'.from = hist.from /\ hist'.owed = owed /\ hist'.asked = hist.asked
      /\ hist'.covered = hist.covered /\ hist'.wanted = hist.wanted /\ hist'.unlucky = hist.unlucky
  <2>1. hist' = [hist EXCEPT !.quiet = FALSE, !.owed = owed]
    BY DEF Arrive
  <2> HIDE DEF owed
  <2>2. HistIs(hist.from, owed, hist.asked, hist.covered, hist.wanted, hist.unlucky)
    BY <1>1, <2>1, HistUpdates
  <2> QED
    BY <2>2 DEF HistIs
<1>4. \A q \in owed : q \in hist.owed \/ (q = r /\ due)
  OBVIOUS
<1>5. hist.owed \subseteq owed
  OBVIOUS
<1>6. ASSUME due, NEW m \in Nat, m <= clock
      PROVE  Due(DayOf(r.time), m)
  BY <1>1, <1>6, DueSince
<1> HIDE DEF due, owed
<1>7. NothingMissed'
  BY <1>1, <1>2, <1>3 DEF NothingMissed, Counted
<1>8. RunCounted'
  BY <1>1, <1>2, <1>3 DEF RunCounted
<1>9. OwedDue'
  <2>1. watermark = None \/ (watermark \in Nat /\ watermark <= clock)
    BY <1>1, SceneTyped DEF TypeOK
  <2>2. due => watermark = None \/ Due(DayOf(r.time), watermark)
    BY <1>6, <2>1
  <2> QED
    BY <1>1, <1>2, <1>3, <1>4, <2>2 DEF OwedDue
<1>10. RunOwed'
  <2>1. run # None /\ due => Due(DayOf(r.time), run.now)
    BY <1>1, <1>6 DEF RunWindow, TypeOK
  <2> QED
    BY <1>1, <1>2, <1>3, <1>4, <2>1 DEF RunOwed
<1>11. Answers'
  BY <1>1, <1>2, <1>3, <1>5 DEF Answers
<1> QED
  BY <1>7, <1>8, <1>9, <1>10, <1>11 DEF Served

\* A request wants what is owed as it is sent, and is not answered yet.
LEMMA TriggerServed ==
  ASSUME Framed, Served, NEW id \in scene.ids, Trigger(id)
  PROVE  Served'
<1>1. TypeOK /\ Shapes /\ NothingMissed /\ RunCounted /\ OwedDue /\ RunOwed /\ Answers
  BY DEF Framed, Served
<1> DEFINE w == [hist.wanted EXCEPT ![id] = hist.owed]
           told == [trig.told EXCEPT ![id] = "queued"]
<1>2. /\ trig.told[id] = "unknown" /\ trig'.told = told
      /\ UNCHANGED <<clock, scene, arrived, watermark, table, run>>
  <2>1. trig = [queue |-> trig.queue, due |-> trig.due, asking |-> trig.asking, told |-> trig.told]
    BY <1>1 DEF Shapes
  <2> QED
    BY <2>1 DEF Trigger
<1>3. /\ hist'.from = hist.from /\ hist'.owed = hist.owed /\ hist'.asked = hist.asked
      /\ hist'.covered = hist.covered /\ hist'.wanted = w /\ hist'.unlucky = hist.unlucky
  <2>1. HistIs(hist.from, hist.owed, hist.asked, hist.covered, w, hist.unlucky)
    BY <1>1, HistUpdates DEF Trigger
  <2> QED
    BY <2>1 DEF HistIs
<1>4. /\ \A i \in scene.ids : w[i] = IF i = id THEN hist.owed ELSE hist.wanted[i]
      /\ \A i \in scene.ids : told[i] = IF i = id THEN "queued" ELSE trig.told[i]
  BY <1>1 DEF Shapes
<1> HIDE DEF w, told
<1>5. NothingMissed'
  BY <1>1, <1>2, <1>3 DEF NothingMissed, Counted
<1>6. RunCounted'
  BY <1>1, <1>2, <1>3 DEF RunCounted
<1>7. OwedDue'
  BY <1>1, <1>2, <1>3 DEF OwedDue
<1>8. RunOwed'
  BY <1>1, <1>2, <1>3 DEF RunOwed
<1>9. Answers'
  <2>1. \A i \in scene.ids : w[i] \subseteq hist.owed
    BY <1>1, <1>4 DEF Answers
  <2>2. run # None /\ run.id # None =>
          /\ run.id \in scene.ids /\ told[run.id] = "running" /\ w[run.id] \subseteq hist.asked
    BY <1>1, <1>2, <1>4 DEF Answers
  <2>3. ASSUME NEW i \in scene.ids, told[i] = "completed", i \notin hist.unlucky
        PROVE  \A r \in w[i] : r \in hist.covered \/ DayOf(r.time) < hist.from
    <3>1. i # id /\ trig.told[i] = "completed" /\ w[i] = hist.wanted[i]
      BY <1>4, <2>3
    <3> QED
      BY <1>1, <2>3, <3>1 DEF Answers
  <2> QED
    BY <1>2, <1>3, <2>1, <2>2, <2>3 DEF Answers
<1> QED
  BY <1>5, <1>6, <1>7, <1>8, <1>9 DEF Served

\* What is owed as a run is skipped is counted: the last complete run was asked for it.
LEMMA SkippedCounted ==
  ASSUME Framed, Owing, Served, SkipRun, NEW r \in hist.owed, DayOf(r.time) >= hist.from
  PROVE  Counted(r)
<1>1. TypeOK /\ Shapes /\ NothingMissed
  BY DEF Framed, Served
<1>2. r \in hist.covered \/ DayOf(r.time) < hist.from
  BY SkipAtWatermark DEF Owing
<1>3. r \in Row
  BY <1>1 DEF TypeOK
<1>4. DayOf(r.time) \in Nat /\ hist.from \in Nat
  BY <1>1, <1>3, SceneTyped, DayMono DEF Shapes
<1> QED
  BY <1>1, <1>2, <1>4 DEF NothingMissed

\* A skipped run counts what is owed: it is there already.
LEMMA SkipServed ==
  ASSUME Framed, Owing, Served, SkipRun
  PROVE  Served'
<1>1. TypeOK /\ Shapes /\ QueuedOnce /\ NothingMissed /\ RunCounted /\ OwedDue /\ RunOwed /\ Answers
  BY DEF Framed, Served
<1>2. /\ run = None /\ UNCHANGED <<clock, scene, arrived, table, run>>
      /\ watermark' = watermark
  BY SkipAtWatermark DEF SkipRun, MayBegin
<1> DEFINE covered == {r \in hist.owed : DayOf(r.time) >= hist.from}
<1>3. /\ hist'.from = hist.from /\ hist'.owed = hist.owed /\ hist'.asked = hist.asked
      /\ hist'.covered = covered /\ hist'.wanted = hist.wanted /\ hist'.unlucky = hist.unlucky
  <2>1. HistIs(hist.from, hist.owed, hist.asked, covered, hist.wanted, hist.unlucky)
    BY <1>1, HistUpdates DEF SkipRun
  <2> QED
    BY <2>1 DEF HistIs
<1>4. \A r \in hist.owed : r \in covered \/ DayOf(r.time) < hist.from
  <2>1. hist.from \in Nat
    BY <1>1 DEF Shapes
  <2>2. ASSUME NEW r \in hist.owed
        PROVE  DayOf(r.time) \in Nat
    <3>1. r \in Row
      BY <1>1 DEF TypeOK
    <3>2. r.time \in Nat
      BY <1>1, <3>1, SceneTyped
    <3> QED
      BY <3>2, DayMono
  <2> QED
    BY <2>1, <2>2
<1>5. \A r \in covered : Counted(r)
  BY SkippedCounted
<1> HIDE DEF covered
<1>6. NothingMissed'
  BY <1>2, <1>3, <1>5 DEF NothingMissed, Counted
<1>7. RunCounted' /\ RunOwed'
  BY <1>2 DEF RunCounted, RunOwed
<1>8. OwedDue'
  BY <1>1, <1>2, <1>3, <1>4 DEF OwedDue
<1>9. Answers'
  <2>1. \A id \in scene.ids : \A r \in hist.wanted[id] : r \in covered \/ DayOf(r.time) < hist.from
    BY <1>1, <1>4 DEF Answers
  <2> QED
    BY <1>1, <1>2, <1>3, <2>1 DEF Answers
<1> QED
  BY <1>6, <1>7, <1>8, <1>9 DEF Served

\* A run that starts is asked for what is owed, and its window has what is not counted.
LEMMA StartServed ==
  ASSUME Framed, Served, NEW sig \in {Signature, None}, StartRun(sig)
  PROVE  Served'
<1>1. TypeOK /\ Shapes /\ QueuedOnce /\ NothingMissed /\ OwedDue /\ Answers
  BY DEF Framed, Served
<1>2. run = None /\ UNCHANGED <<clock, scene, arrived, watermark, table>>
  BY DEF StartRun, MayBegin
<1>3. PICK from \in Nat :
        /\ Started(sig, from) /\ hist.from <= from
        /\ \A r \in arrived :
             r.time <= clock /\ (watermark = None \/ Due(DayOf(r.time), watermark)) =>
               DayOf(r.time) \in Days(WindowStart(clock), clock) \/ DayOf(r.time) < from
  BY StartDoes
<1>4. /\ run'.next = 0 /\ run'.now = clock /\ run'.dates = Days(WindowStart(clock), clock)
      /\ run'.id = NextId(trig) /\ run'.from = from
  BY <1>3 DEF Started
<1>5. /\ hist'.from = hist.from /\ hist'.owed = hist.owed /\ hist'.asked = hist.owed
      /\ hist'.covered = hist.covered /\ hist'.wanted = hist.wanted /\ hist'.unlucky = hist.unlucky
  <2>1. HistIs(hist.from, hist.owed, hist.owed, hist.covered, hist.wanted, hist.unlucky)
    BY <1>1, HistUpdates DEF StartRun
  <2> QED
    BY <2>1 DEF HistIs
<1> DEFINE told == ToldNow(NextId(trig), "running")
<1>6. trig'.told = told
  <2>1. trig' = [queue |-> IF trig.queue = <<>> THEN <<>> ELSE Tail(trig.queue), due |-> FALSE,
                 asking |-> trig.asking, told |-> told]
    BY <1>1, AnsweredIs DEF StartRun
  <2> HIDE DEF told
  <2> QED
    BY <2>1
<1>7. NextId(trig) # None => NextId(trig) \in scene.ids
  BY <1>1, TakeId
<1>8. \A id \in scene.ids : told[id] = IF id = NextId(trig) /\ id # None THEN "running" ELSE trig.told[id]
  BY DEF ToldNow
<1> HIDE DEF told
<1>9. NothingMissed'
  BY <1>1, <1>2, <1>5 DEF NothingMissed, Counted
<1>10. RunCounted'
  BY <1>4 DEF RunCounted
<1>11. OwedDue'
  BY <1>1, <1>2, <1>5 DEF OwedDue
<1>12. RunOwed'
  <2>1. hist.covered \subseteq hist.owed /\ hist.owed \subseteq arrived
    BY <1>1 DEF TypeOK
  <2>2. ASSUME NEW r \in hist.owed
        PROVE  \/ DayOf(r.time) \in Days(WindowStart(clock), clock)
               \/ r \in hist.covered \/ DayOf(r.time) < from
    <3>1. r \in arrived /\ r.time <= clock
      BY <1>1, <2>1 DEF OwedDue
    <3>2. CASE DayOf(r.time) < hist.from
      <4>1. r \in Row
        BY <1>1, <2>1 DEF TypeOK
      <4>2. r.time \in Nat
        BY <1>1, <4>1, SceneTyped
      <4>3. DayOf(r.time) \in Nat /\ hist.from \in Nat
        BY <1>1, <4>2, DayMono DEF Shapes
      <4> QED
        BY <1>3, <3>2, <4>3
    <3> QED
      BY <1>1, <1>3, <3>1, <3>2 DEF OwedDue
  <2> QED
    BY <1>4, <1>5, <2>1, <2>2 DEF RunOwed
<1>13. Answers'
  <2>1. \A id \in scene.ids : told[id] = "completed" => trig.told[id] = "completed"
    BY <1>8
  <2>2. NextId(trig) # None => told[NextId(trig)] = "running"
    BY <1>7, <1>8
  <2> QED
    BY <1>1, <1>2, <1>4, <1>5, <1>6, <1>7, <2>1, <2>2 DEF Answers
<1> QED
  BY <1>9, <1>10, <1>11, <1>12, <1>13 DEF Served

\* A stage counts what the run was asked for and loses nothing that was counted.
LEMMA StageServed ==
  ASSUME Framed, Written, Served, Stage \/ OpenUnread \/ LevelsUnread \/ StageRetried \/ StageFails
  PROVE  Served'
<1>1. TypeOK /\ Shapes /\ NothingMissed /\ RunCounted /\ OwedDue /\ RunOwed /\ Answers /\ CopySound
  BY DEF Framed, Written, Served
<1>2. /\ run # None /\ run.next \in 1 .. 7 /\ Here \in ToSet(Stages)
      /\ HistSame(hist.unlucky)
      /\ UNCHANGED <<clock, scene, arrived, watermark, trig>>
  BY <1>1, StageDoes
<1>3. PICK T, source, both : StageStep(T, source, both)
  BY <1>1, StageDoes
<1>4. /\ table'[Here] = T
      /\ \A stage \in ToSet(Stages) \ {Here} : table'[stage] = table[stage]
  BY <1>1, <1>2, <1>3, StageTables DEF StageStep
<1>5. /\ Whole(T, source, both) \/ Part(T, source, both)
      /\ source = None \/ source = run.source
      /\ \/ RunIs(run.next + 1, run.source, run.failed) /\ Whole(T, source, both)
         \/ \E next : RunIs(next, run.source, TRUE)
  BY <1>3 DEF StageStep
<1>6. /\ run'.now = run.now /\ run'.dates = run.dates /\ run'.id = run.id /\ run'.from = run.from
      /\ \/ run'.failed = TRUE
         \/ run'.next = run.next + 1 /\ run'.failed = run.failed /\ Whole(T, source, both)
  BY <1>5 DEF RunIs
<1>7. /\ hist'.from = hist.from /\ hist'.owed = hist.owed /\ hist'.asked = hist.asked
      /\ hist'.covered = hist.covered /\ hist'.wanted = hist.wanted /\ hist'.unlucky = hist.unlucky
  BY <1>2 DEF HistSame, HistIs
<1>8. PerRow \subseteq ToSet(Stages) /\ PerRow \subseteq Plain
  BY DEF PerRow, Plain, ToSet, Stages
<1> DEFINE C == Computed(Here, run.dates, source, both)
<1>9. ASSUME NEW r \in hist.asked, DayOf(r.time) \in run.dates, Here \in PerRow
      PROVE  RowFacts(Here, r) \subseteq C
  <2>1. r \in arrived
    BY <1>1, <1>9 DEF TypeOK
  <2>2. source = None \/ r \in Closed \/ r \in source
    BY <1>1, <1>2, <1>5, <1>9 DEF CopySound
  <2> QED
    BY <1>9, <2>1, <2>2, RowComputed
<1>10. ASSUME NEW r \in hist.asked, NEW stage \in PerRow, RowFacts(stage, r) \subseteq table[stage]
       PROVE  RowFacts(stage, r) \subseteq table'[stage]
  <2>1. CASE stage # Here
    BY <1>4, <1>8, <1>10, <2>1
  <2>2. CASE stage = Here
    <3>1. ASSUME NEW f \in RowFacts(Here, r)
          PROVE  f \in T
      <4>1. f.day = DayOf(r.time)
        BY <1>10, <2>2, <3>1, FactDay
      <4>2. f \in table[Here] /\ Here \in Plain /\ (f.day \in run.dates => f \in C)
        BY <1>8, <1>9, <1>10, <2>2, <3>1, <4>1
      <4> QED
        BY <1>5, <4>2, LeftKeeps
    <3> QED
      BY <1>4, <2>2, <3>1
  <2> QED
    BY <2>1, <2>2
<1>11. Whole(T, source, both) /\ Here # "heatmap" => C \subseteq T
  BY StoredWithin DEF Whole
<1> HIDE DEF C
<1>12. NothingMissed'
  <2>1. ASSUME NEW r \in hist.covered, NEW stage \in PerRow
        PROVE  RowFacts(stage, r) \subseteq table'[stage]
    <3>1. r \in hist.asked /\ RowFacts(stage, r) \subseteq table[stage]
      BY <1>1, <1>2, CountedIs DEF RunOwed, NothingMissed
    <3> QED
      BY <1>10, <3>1
  <2>2. \A r : Counted(r)' <=> \A stage \in PerRow : RowFacts(stage, r) \subseteq table'[stage]
    BY DEF Counted, RowFacts, FactsOf, PerRow, Plain
  <2> QED
    BY <1>7, <2>1, <2>2 DEF NothingMissed
<1>13. RunCounted'
  <2>1. ASSUME ~ run'.failed, NEW r \in hist.asked, DayOf(r.time) \in run.dates,
               NEW n \in 1 .. run'.next - 1, Stages[n] \in PerRow
        PROVE  RowFacts(Stages[n], r) \subseteq table'[Stages[n]]
    <3>1. run'.next = run.next + 1 /\ ~ run.failed /\ Whole(T, source, both)
      BY <1>6, <2>1
    <3>2. n \in 1 .. run.next
      BY <1>2, <2>1, <3>1
    <3>3. CASE n = run.next
      <4>1. Stages[n] = Here
        BY <3>3 DEF Here
      <4>2. Here # "heatmap" /\ Here \in PerRow
        BY <2>1, <4>1 DEF PerRow, Plain
      <4> QED
        BY <1>4, <1>9, <1>11, <2>1, <3>1, <4>1, <4>2
    <3>4. CASE n # run.next
      <4>1. n \in 1 .. run.next - 1
        BY <1>2, <3>2, <3>4
      <4>2. RowFacts(Stages[n], r) \subseteq table[Stages[n]]
        BY <1>1, <1>2, <2>1, <3>1, <4>1 DEF RunCounted
      <4> QED
        BY <1>10, <2>1, <4>2
    <3> QED
      BY <3>3, <3>4
  <2> QED
    BY <1>6, <1>7, <2>1 DEF RunCounted
<1>14. OwedDue'
  BY <1>1, <1>2, <1>7 DEF OwedDue
<1>15. RunOwed'
  BY <1>1, <1>2, <1>6, <1>7 DEF RunOwed
<1>16. Answers'
  BY <1>1, <1>2, <1>6, <1>7 DEF Answers
<1> QED
  BY <1>12, <1>13, <1>14, <1>15, <1>16 DEF Served

\* A complete run has counted what it was asked for; what came since is in the next window.
LEMMA CompletedServed ==
  ASSUME Framed, Served, EndRun, ~ run.failed
  PROVE  Served'
<1>1. TypeOK /\ Shapes /\ RunWindow /\ NothingMissed /\ RunCounted /\ OwedDue /\ RunOwed /\ Answers
  BY DEF Framed, Served
<1> DEFINE covered == {r \in hist.asked : DayOf(r.time) >= run.from}
           told == ToldNow(run.id, "completed")
<1>2. /\ run # None /\ run.next = 8 /\ run' = None /\ watermark' = run.now
      /\ HistIs(run.from, hist.owed, hist.asked, covered, hist.wanted, hist.unlucky)
      /\ UNCHANGED <<clock, scene, arrived, table>>
  BY CompletedDoes
<1>3. TrigIs(trig.queue, told)
  BY <1>1, EndDoes
<1>4. run.from \in Nat /\ hist.from \in Nat /\ hist.from <= run.from
  BY <1>1, <1>2 DEF RunWindow, Shapes
<1>5. \A r \in hist.asked : DayOf(r.time) \in Nat
  <2>1. ASSUME NEW r \in hist.asked
        PROVE  DayOf(r.time) \in Nat
    <3>1. r \in Row
      BY <1>1 DEF TypeOK
    <3>2. r.time \in Nat
      BY <1>1, <3>1, SceneTyped
    <3> QED
      BY <3>2, DayMono
  <2> QED
    BY <2>1
<1>6. \A r \in hist.asked : r \in covered \/ DayOf(r.time) < run.from
  BY <1>4, <1>5
<1>7. ASSUME NEW r \in covered
      PROVE  Counted(r)
  <2>1. r \in hist.asked /\ ~ (DayOf(r.time) < run.from)
    BY <1>4, <1>5
  <2>2. CASE r \in hist.covered
    BY <1>1, <2>2 DEF NothingMissed
  <2>3. CASE DayOf(r.time) \in run.dates
    <3>1. \A n \in 1 .. 7 : Stages[n] \in PerRow => RowFacts(Stages[n], r) \subseteq table[Stages[n]]
      BY <1>1, <1>2, <2>1, <2>3 DEF RunCounted
    <3>2. \A stage \in PerRow : \E n \in 1 .. 7 : stage = Stages[n]
      BY DEF PerRow, Plain, Stages
    <3> QED
      BY <3>1, <3>2, CountedIs
  <2> QED
    BY <1>1, <1>2, <2>1, <2>2, <2>3 DEF RunOwed
<1>8. \A id \in scene.ids : told[id] = IF id = run.id /\ id # None THEN "completed" ELSE trig.told[id]
  BY DEF ToldNow
<1> HIDE DEF covered, told
<1>9. /\ hist'.from = run.from /\ hist'.owed = hist.owed /\ hist'.asked = hist.asked
      /\ hist'.covered = covered /\ hist'.wanted = hist.wanted /\ hist'.unlucky = hist.unlucky
  BY <1>2 DEF HistIs
<1>10. trig'.told = told
  BY <1>3 DEF TrigIs
<1>11. NothingMissed'
  BY <1>2, <1>7, <1>9 DEF NothingMissed, Counted
<1>12. RunCounted' /\ RunOwed'
  BY <1>2 DEF RunCounted, RunOwed
<1>13. OwedDue'
  <2>1. \A r \in hist.owed : r \in covered \/ DayOf(r.time) < run.from \/ Due(DayOf(r.time), run.now)
    BY <1>1, <1>2, <1>6 DEF RunOwed
  <2> QED
    BY <1>1, <1>2, <1>9, <2>1 DEF OwedDue
<1>14. Answers'
  <2>1. ASSUME NEW id \in scene.ids, told[id] = "completed", id \notin hist.unlucky,
               NEW r \in hist.wanted[id]
        PROVE  r \in covered \/ DayOf(r.time) < run.from
    <3>1. CASE id = run.id /\ id # None
      BY <1>1, <1>2, <1>6, <3>1 DEF Answers
    <3>2. CASE ~ (id = run.id /\ id # None)
      <4>1. r \in hist.covered \/ DayOf(r.time) < hist.from
        BY <1>1, <1>8, <2>1, <3>2 DEF Answers
      <4>2. CASE r \in hist.covered
        BY <1>1, <1>2, <1>6, <4>2 DEF RunOwed
      <4>3. CASE DayOf(r.time) < hist.from
        <5>1. DayOf(r.time) \in Nat
          <6>1. r \in Row
            BY <1>1 DEF Answers, TypeOK
          <6>2. r.time \in Nat
            BY <1>1, <6>1, SceneTyped
          <6> QED
            BY <6>2, DayMono
        <5> QED
          BY <1>4, <4>3, <5>1
      <4> QED
        BY <4>1, <4>2, <4>3
    <3> QED
      BY <3>1, <3>2
  <2> QED
    BY <1>1, <1>2, <1>9, <1>10, <2>1 DEF Answers
<1> QED
  BY <1>11, <1>12, <1>13, <1>14 DEF Served

-----------------------------------------------------------------------------
(* The other steps, and the whole *)

\* Steps outside runs: time, a score, a firing, or one that fails or is dropped.
LEMMA AsideKept ==
  ASSUME Framed, Written, Served,
         \/ Tick \/ FiringSkipped \/ (\E id \in scene.ids : Fire(id))
         \/ \E s \in Closed, level \in scene.levels : Rescore(s, level)
  PROVE  Written' /\ Served'
<1>1. TypeOK /\ Shapes
  BY DEF Framed
<1>2. UNCHANGED <<scene, arrived, watermark, table, proc, run>>
  BY DEF Tick, Rescore, FiringSkipped, Fire
<1>3. clock' \in Nat /\ clock' >= clock
  <2>1. clock' = clock \/ clock' = clock + 1
    BY DEF Tick, Rescore, FiringSkipped, Fire
  <2> QED
    BY <1>1, <2>1, SceneTyped
<1>4. HistSame(hist.unlucky)
  <2> DEFINE no == FALSE
  <2>1. hist' = hist \/ hist' = [hist EXCEPT !.quiet = no]
    BY DEF Tick, Rescore, FiringSkipped, Fire
  <2> HIDE DEF no
  <2> QED
    BY <1>1, <2>1, HistUpdates
<1>5. hist'.asked = hist.asked /\ hist'.unlucky = hist.unlucky
  BY <1>4 DEF HistSame, HistIs
<1>6. trig'.told = trig.told
  <2>1. \/ trig' = trig
        \/ \E a : trig' = [trig EXCEPT !.asking = a]
        \/ \E b : trig' = [trig EXCEPT !.due = b]
        \/ \E a, b : trig' = [trig EXCEPT !.asking = a, !.due = b]
    BY Zenon DEF Tick, Rescore, FiringSkipped, Fire
  <2>2. trig = [queue |-> trig.queue, due |-> trig.due, asking |-> trig.asking, told |-> trig.told]
    BY <1>1 DEF Shapes
  <2> QED
    BY <2>1, <2>2
<1>7. Written'
  <2>1. hist'.blind = hist.blind
    BY <1>1, BlindStays
  <2> QED
    BY <1>2, <1>5, <2>1, StillWritten
<1>8. Served'
  BY <1>2, <1>3, <1>4, <1>5, <1>6, StillServed
<1> QED
  BY <1>7, <1>8

\* A run that fails before it begins: nothing is counted, and who asked for it is
\* told of a failure or is unlucky.
LEMMA FailsKept ==
  ASSUME Framed, Written, Served, ConfigFails \/ BrandFails
  PROVE  Written' /\ Served'
<1>1. TypeOK /\ Shapes /\ QueuedOnce
  BY DEF Framed
<1>2. run = None /\ UNCHANGED <<clock, scene, arrived, watermark, table, proc, run>>
  BY DEF ConfigFails, BrandFails, MayBegin
<1>3. clock' \in Nat /\ clock' >= clock
  BY <1>1, <1>2, SceneTyped
<1>4. /\ HistSame(hist'.unlucky) /\ hist.unlucky \subseteq hist'.unlucky
      /\ ConfigFails \/ (BrandFails /\ hist'.unlucky = Unlucky(NextId(trig)))
  <2>1. CASE ConfigFails
    <3>1. HistSame(hist.unlucky)
      BY <1>1, <2>1, HistUpdates DEF ConfigFails
    <3>2. hist'.unlucky = hist.unlucky
      BY <3>1 DEF HistSame, HistIs
    <3> QED
      BY <2>1, <3>1, <3>2
  <2>2. CASE BrandFails
    <3>1. HistSame(Unlucky(NextId(trig)))
      BY <1>1, <2>2, HistUpdates DEF BrandFails
    <3>2. hist'.unlucky = Unlucky(NextId(trig))
      BY <3>1 DEF HistSame, HistIs
    <3> QED
      BY <2>2, <3>1, <3>2 DEF Unlucky
  <2> QED
    BY <2>1, <2>2
<1>5. hist'.asked = hist.asked
  BY <1>4 DEF HistSame, HistIs
<1>6. \A id \in scene.ids :
        \/ trig'.told[id] = trig.told[id]
        \/ trig'.told[id] # "completed" \/ id \in hist'.unlucky
  <2>1. PICK status \in {"failed", "completed"} :
          /\ trig' = Answered(Begun(trig), NextId(trig), status)
          /\ status = "completed" => hist'.unlucky = Unlucky(NextId(trig))
    BY <1>4 DEF ConfigFails, BrandFails
  <2> DEFINE told == ToldNow(NextId(trig), status)
  <2>2. trig'.told = told
    <3>1. trig' = [queue |-> IF trig.queue = <<>> THEN <<>> ELSE Tail(trig.queue), due |-> FALSE,
                   asking |-> trig.asking, told |-> told]
      BY <1>1, <2>1, AnsweredIs
    <3> HIDE DEF told
    <3> QED
      BY <3>1
  <2>3. \A id \in scene.ids : told[id] = IF id = NextId(trig) /\ id # None THEN status ELSE trig.told[id]
    BY DEF ToldNow
  <2> HIDE DEF told
  <2> QED
    BY <2>1, <2>2, <2>3 DEF Unlucky
<1>7. Written'
  <2>1. hist'.blind = hist.blind
    BY <1>1, BlindStays
  <2> QED
    BY <1>2, <1>5, <2>1, StillWritten
<1>8. Served'
  BY <1>2, <1>3, <1>4, <1>6, StillServed
<1> QED
  BY <1>7, <1>8

\* A run that has its copy, or none.
LEMMA PrepareServed ==
  ASSUME Framed, Served, PrepareSource
  PROVE  Served'
<1>1. TypeOK /\ Shapes
  BY DEF Framed
<1>2. /\ run # None
      /\ \E source : RunIs(1, source, run.failed)
      /\ HistSame(hist.unlucky)
      /\ UNCHANGED <<clock, scene, arrived, watermark, table, trig>>
  BY PrepareDoes
<1>3. /\ run'.next = 1 /\ run'.now = run.now /\ run'.from = run.from
      /\ run'.dates = run.dates /\ run'.id = run.id
  BY <1>2 DEF RunIs
<1>4. hist'.unlucky = hist.unlucky
  BY <1>2 DEF HistSame, HistIs
<1>5. clock' \in Nat /\ clock' >= clock
  BY <1>1, <1>2, SceneTyped
<1> QED
  BY <1>2, <1>3, <1>4, <1>5, StillServed

\* A run that ends without having done everything, and a container that restarts.
LEMMA BrokenOffKept ==
  ASSUME Framed, Written, Served, (EndRun /\ run.failed) \/ WatermarkFails \/ Crash
  PROVE  Written' /\ Served'
<1>1. TypeOK /\ Shapes /\ Answers
  BY DEF Framed, Served
<1>2. /\ run' = None
      /\ \E refused : proc' \in {proc, [last |-> None, refused |-> refused]}
      /\ HistSame(hist'.unlucky)
      /\ UNCHANGED <<clock, scene, arrived, watermark, table>>
  BY BrokenOffDoes
<1>3. hist'.asked = hist.asked
  BY <1>2 DEF HistSame, HistIs
<1>4. proc'.last \in {proc.last, None}
  BY <1>2
<1>5. /\ clock' \in Nat /\ clock' >= clock
      /\ hist'.blind = hist.blind
  BY <1>1, <1>2, SceneTyped, BlindStays
<1>6. CASE (EndRun /\ run.failed) \/ WatermarkFails
  <2>1. TrigIs(trig.queue, ToldNow(run.id, "completed")) /\ run # None
    BY <1>1, <1>6, EndDoes
  <2> DEFINE told == ToldNow(run.id, "completed")
  <2>2. \A id \in scene.ids : told[id] = IF id = run.id /\ id # None THEN "completed" ELSE trig.told[id]
    BY DEF ToldNow
  <2> HIDE DEF told
  <2>3. trig'.told = told
    BY <2>1 DEF TrigIs, told
  <2>4. hist'.unlucky = Unlucky(run.id)
    <3>1. HistSame(Unlucky(run.id))
      BY <1>1, <1>6, HistUpdates DEF EndRun, WatermarkFails, Completed, RunId
    <3> QED
      BY <3>1 DEF HistSame, HistIs
  <2>5. \A id \in scene.ids : trig'.told[id] = trig.told[id] \/ id \in hist'.unlucky
    BY <2>2, <2>3, <2>4 DEF Unlucky
  <2> QED
    <3>1. hist.unlucky \subseteq hist'.unlucky
      BY <2>4 DEF Unlucky
    <3>2. Written'
      BY <1>2, <1>3, <1>4, <1>5, StillWritten
    <3>3. Served'
      BY <1>2, <1>5, <2>5, <3>1, StillServed
    <3> QED
      BY <3>2, <3>3
<1>7. CASE Crash
  <2>1. trig'.told = trig.told
    <3>1. trig' = [trig EXCEPT !.queue = <<>>, !.due = FALSE, !.asking = {}]
      BY <1>7 DEF Crash
    <3> DEFINE no == FALSE
    <3>2. trig' = [trig EXCEPT !.queue = <<>>, !.due = no, !.asking = {}]
      BY <3>1
    <3>3. trig = [queue |-> trig.queue, due |-> trig.due, asking |-> trig.asking, told |-> trig.told]
      BY <1>1 DEF Shapes
    <3> HIDE DEF no
    <3> QED
      BY <3>2, <3>3
  <2>2. hist'.unlucky = hist.unlucky
    <3>1. HistSame(hist.unlucky)
      BY <1>1, <1>7, HistUpdates DEF Crash
    <3> QED
      BY <3>1 DEF HistSame, HistIs
  <2>3. Written'
    BY <1>2, <1>3, <1>4, <1>5, StillWritten
  <2>4. Served'
    BY <1>2, <1>5, <2>1, <2>2, StillServed
  <2> QED
    BY <2>3, <2>4
<1> QED
  BY <1>6, <1>7

\* Steps that neither owe nor count anything, of a run that goes on, ends or is not there.
LEMMA StillOwing ==
  ASSUME Owing, arrived' = arrived,
         /\ hist'.from = hist.from /\ hist'.owed = hist.owed
         /\ hist'.asked = hist.asked /\ hist'.covered = hist.covered,
         proc'.last \in {proc.last, None},
         run' = None \/ (run # None /\ run'.sig = run.sig)
  PROVE  Owing'
BY DEF Owing, RunFresh, LastFresh

\* What is owed changes only with a row that comes, which every signature shows.
LEMMA OwingKept ==
  ASSUME Framed, Owing, [Next]_vars
  PROVE  Owing'
<1>1. TypeOK /\ Shapes /\ RunWindow /\ LastWindow
  BY DEF Framed
<1> DEFINE no == FALSE  yes == TRUE
<1>2. CASE \E r \in Row \ arrived : Arrive(r)
  <2>1. PICK r \in Row \ arrived : Arrive(r)
    BY <1>2
  <2>2. arrived' = arrived \cup {r} /\ UNCHANGED <<scene, proc, run>>
    BY <2>1 DEF Arrive
  <2>3. \A sig, at : Signs(arrived, sig, at) => ~ NoneSince(arrived', sig)
    BY <1>1, <2>2, SceneTyped, ArrivalShows
  <2> QED
    BY <1>1, <2>2, <2>3 DEF Owing, RunFresh, LastFresh, RunWindow, LastWindow
<1>3. CASE Tick \/ FiringSkipped \/ ConfigFails \/ UNCHANGED vars \/ \E id \in scene.ids : Fire(id)
  BY <1>3, StillOwing DEF Tick, FiringSkipped, ConfigFails, Fire, vars
<1>4. CASE \E id \in scene.ids : Trigger(id)
  <2>1. PICK id : hist' = [hist EXCEPT !.wanted[id] = hist.owed]
    BY <1>4 DEF Trigger
  <2>2. HistIs(hist.from, hist.owed, hist.asked, hist.covered, [hist.wanted EXCEPT ![id] = hist.owed],
               hist.unlucky)
    BY <1>1, <2>1, HistUpdates
  <2>3. UNCHANGED <<arrived, proc, run>>
    BY <1>4 DEF Trigger
  <2> QED
    BY <2>2, <2>3, StillOwing DEF HistIs
<1>5. CASE \E s \in Closed, level \in scene.levels : Rescore(s, level)
  <2>1. hist' = [hist EXCEPT !.quiet = no] /\ UNCHANGED <<arrived, proc, run>>
    BY <1>5 DEF Rescore
  <2> HIDE DEF no
  <2>2. HistSame(hist.unlucky)
    BY <1>1, <2>1, HistUpdates
  <2> QED
    BY <2>1, <2>2, StillOwing DEF HistSame, HistIs
<1>6. CASE BrandFails
  <2>1. hist' = [hist EXCEPT !.unlucky = Unlucky(NextId(trig))] /\ UNCHANGED <<arrived, proc, run>>
    BY <1>6 DEF BrandFails
  <2>2. HistSame(Unlucky(NextId(trig)))
    BY <1>1, <2>1, HistUpdates
  <2> QED
    BY <2>1, <2>2, StillOwing DEF HistSame, HistIs
<1>7. CASE SkipRun
  <2> DEFINE covered == {r \in hist.owed : DayOf(r.time) >= hist.from}
  <2>1. hist' = [hist EXCEPT !.covered = covered] /\ run = None /\ UNCHANGED <<arrived, proc, run>>
    BY <1>7 DEF SkipRun, MayBegin
  <2>2. ASSUME NEW r \in hist.owed
        PROVE  r \in covered \/ DayOf(r.time) < hist.from
    <3>1. r \in Row
      BY <1>1 DEF TypeOK
    <3>2. DayOf(r.time) \in Nat /\ hist.from \in Nat
      BY <1>1, <3>1, SceneTyped, DayMono DEF Shapes
    <3> QED
      BY <3>2
  <2> HIDE DEF covered
  <2>3. HistIs(hist.from, hist.owed, hist.asked, covered, hist.wanted, hist.unlucky)
    BY <1>1, <2>1, HistUpdates
  <2> QED
    BY <2>1, <2>2, <2>3 DEF Owing, RunFresh, LastFresh, HistIs
<1>8. CASE \E sig \in {Signature, None} : StartRun(sig)
  <2>1. hist' = [hist EXCEPT !.asked = hist.owed, !.quiet = yes] /\ UNCHANGED <<arrived, proc>>
    BY <1>8 DEF StartRun
  <2> HIDE DEF yes
  <2>2. HistIs(hist.from, hist.owed, hist.owed, hist.covered, hist.wanted, hist.unlucky)
    BY <1>1, <2>1, HistUpdates
  <2> QED
    BY <2>1, <2>2 DEF Owing, LastFresh, HistIs
<1>9. CASE PrepareSource
  <2>1. /\ run # None /\ run'.sig = run.sig /\ arrived' = arrived
        /\ proc'.last = proc.last /\ HistSame(hist.unlucky)
    BY <1>9, PrepareDoes DEF RunIs
  <2> QED
    BY <2>1, StillOwing DEF HistSame, HistIs
<1>10. CASE Stage \/ OpenUnread \/ LevelsUnread \/ StageRetried \/ StageFails
  <2>1. run # None /\ arrived' = arrived /\ proc' = proc /\ HistSame(hist.unlucky)
    BY <1>1, <1>10, StageDoes
  <2>2. run'.sig = run.sig
    <3>1. PICK T, source, both : StageStep(T, source, both)
      BY <1>1, <1>10, StageDoes
    <3> QED
      BY <3>1 DEF StageStep, RunIs
  <2> QED
    BY <2>1, <2>2, StillOwing DEF HistSame, HistIs
<1>11. CASE EndRun /\ ~ run.failed
  <2> DEFINE covered == {r \in hist.asked : DayOf(r.time) >= run.from}
  <2>1. /\ run # None /\ run' = None /\ arrived' = arrived
        /\ proc'.last = Remember(run.sig)
        /\ HistIs(run.from, hist.owed, hist.asked, covered, hist.wanted, hist.unlucky)
    BY <1>11, CompletedDoes
  <2>2. ASSUME NEW r \in hist.asked
        PROVE  r \in covered \/ DayOf(r.time) < run.from
    <3>1. r \in Row
      BY <1>1 DEF TypeOK
    <3>2. DayOf(r.time) \in Nat /\ run.from \in Nat
      BY <1>1, <2>1, <3>1, SceneTyped, DayMono DEF RunWindow
    <3> QED
      BY <3>2
  <2> HIDE DEF covered
  <2>3. LastFresh' => RunFresh
    <3>1. proc'.last # None => run.sig # None /\ proc'.last.sig = run.sig
      BY <2>1 DEF Remember
    <3> QED
      BY <2>1, <3>1 DEF LastFresh, RunFresh
  <2> QED
    BY <2>1, <2>2, <2>3 DEF Owing, RunFresh, HistIs
<1>12. CASE (EndRun /\ run.failed) \/ WatermarkFails \/ Crash
  <2>1. /\ run' = None /\ arrived' = arrived /\ HistSame(hist'.unlucky)
        /\ proc'.last \in {proc.last, None}
    BY <1>12, BrokenOffDoes
  <2> QED
    BY <2>1, StillOwing DEF HistSame, HistIs
<1> QED
  BY <1>2, <1>3, <1>4, <1>5, <1>6, <1>7, <1>8, <1>9, <1>10, <1>11, <1>12 DEF Next

\* Every step keeps the invariant.
LEMMA StepKept ==
  ASSUME RollupInv, [Next]_vars
  PROVE  RollupInv'
<1>1. Framed /\ Written /\ Owing /\ Served /\ Answers
  BY DEF RollupInv, Served
<1>2. Owing'
  BY <1>1, OwingKept
<1>3. CASE Tick
  BY <1>1, <1>2, <1>3, TickFramed, AsideKept DEF RollupInv
<1>4. CASE \E r \in Row \ arrived : Arrive(r)
  BY <1>1, <1>2, <1>4, ArriveFramed, ArriveWritten, ArriveServed DEF RollupInv
<1>5. CASE \E s \in Closed, level \in scene.levels : Rescore(s, level)
  BY <1>1, <1>2, <1>5, RescoreFramed, AsideKept DEF RollupInv
<1>6. CASE \E id \in scene.ids : Trigger(id)
  <2>1. PICK id \in scene.ids : Trigger(id)
    BY <1>6
  <2>2. Written'
    <3>1. Shapes
      BY <1>1 DEF Framed
    <3>2. UNCHANGED <<scene, arrived, table, proc, run>>
      BY <2>1 DEF Trigger
    <3>3. hist'.asked = hist.asked
      <4>1. HistIs(hist.from, hist.owed, hist.asked, hist.covered, [hist.wanted EXCEPT ![id] = hist.owed],
                   hist.unlucky)
        BY <2>1, <3>1, HistUpdates DEF Trigger
      <4> QED
        BY <4>1 DEF HistIs
    <3>4. hist'.blind = hist.blind
      BY <2>1, <3>1, BlindStays
    <3> QED
      BY <1>1, <3>2, <3>3, <3>4, StillWritten
  <2> QED
    BY <1>1, <1>2, <2>1, <2>2, TriggerFramed, TriggerServed DEF RollupInv
<1>7. CASE FiringSkipped \/ \E id \in scene.ids : Fire(id)
  BY <1>1, <1>2, <1>7, FiringFramed, AsideKept DEF RollupInv
<1>8. CASE ConfigFails \/ BrandFails
  BY <1>1, <1>2, <1>8, BeginFramed, FailsKept DEF RollupInv
<1>9. CASE SkipRun
  <2>1. Written'
    <3>1. Shapes
      BY <1>1 DEF Framed
    <3>2. UNCHANGED <<scene, arrived, table, proc, run>>
      BY <1>9 DEF SkipRun
    <3>3. hist'.asked = hist.asked
      <4>1. \E covered : HistIs(hist.from, hist.owed, hist.asked, covered, hist.wanted, hist.unlucky)
        BY <1>9, <3>1, HistUpdates DEF SkipRun
      <4> QED
        BY <4>1 DEF HistIs
    <3>4. hist'.blind = hist.blind
      BY <1>9, <3>1, BlindStays
    <3> QED
      BY <1>1, <3>2, <3>3, <3>4, StillWritten
  <2> QED
    BY <1>1, <1>2, <1>9, <2>1, SkipFramed, SkipServed DEF RollupInv
<1>10. CASE \E sig \in {Signature, None} : StartRun(sig)
  BY <1>1, <1>2, <1>10, StartFramed, StartWritten, StartServed DEF RollupInv
<1>11. CASE PrepareSource
  BY <1>1, <1>2, <1>11, PrepareFramed, PrepareWritten, PrepareServed DEF RollupInv
<1>12. CASE Stage \/ OpenUnread \/ LevelsUnread \/ StageRetried \/ StageFails
  BY <1>1, <1>2, <1>12, StageFramed, StageWritten, StageServed DEF RollupInv
<1>13. CASE EndRun /\ ~ run.failed
  BY <1>1, <1>2, <1>13, EndFramed, CompletedWritten, CompletedServed DEF RollupInv
<1>14. CASE (EndRun /\ run.failed) \/ WatermarkFails \/ Crash
  BY <1>1, <1>2, <1>14, EndFramed, BrokenOffKept DEF RollupInv
<1>15. CASE UNCHANGED vars
  <2>1. Framed'
    BY <1>1, <1>15 DEF vars, Framed, TypeOK, Shapes, QueuedOnce, RunWindow, LastWindow, Window, Row, Signs
  <2>2. Written'
    BY <1>1, <1>15, StillWritten DEF vars
  <2>3. Served'
    BY <1>1, <1>15 DEF vars, Served, NothingMissed, Counted, RunCounted, OwedDue, RunOwed, Answers
  <2> QED
    BY <1>2, <2>1, <2>2, <2>3 DEF RollupInv
<1> QED
  BY <1>3, <1>4, <1>5, <1>6, <1>7, <1>8, <1>9, <1>10, <1>11, <1>12, <1>13, <1>14, <1>15 DEF Next

\* It holds at the start: nothing has come.
LEMMA InitInv == Init => RollupInv
<1> SUFFICES ASSUME Init
             PROVE  RollupInv
  OBVIOUS
<1>1. /\ clock = 0 /\ faults = 0 /\ scene \in ToSet(Scenes) /\ arrived = {} /\ watermark = None
      /\ run = None
  BY DEF Init
<1>2. /\ table = [stage \in ToSet(Stages) |-> {}]
      /\ proc.last = None /\ proc = [last |-> None, refused |-> proc.refused]
      /\ trig.queue = <<>> /\ trig.told = [id \in scene.ids |-> "unknown"]
      /\ trig = [queue |-> <<>>, due |-> trig.due, asking |-> trig.asking, told |-> trig.told]
      /\ hist.from = 0 /\ hist.owed = {} /\ hist.asked = {} /\ hist.covered = {}
      /\ hist.wanted = [id \in scene.ids |-> {}]
  BY DEF Init
<1>3. hist = [from |-> 0, owed |-> {}, asked |-> {}, covered |-> {}, quiet |-> hist.quiet,
              torn |-> hist.torn, blind |-> hist.blind, wanted |-> hist.wanted, unlucky |-> hist.unlucky]
  BY DEF Init
<1>4. Plain \subseteq ToSet(Stages) /\ "summary" \in ToSet(Stages)
  BY DEF Plain, ToSet, Stages
<1>5. Framed
  <2>1. TypeOK
    <3>1. scene.until \in Nat /\ MaxFaults \in Nat
      BY <1>1, ScenesAssumption, RollupsAssumption
    <3>2. \A stage \in ToSet(Stages) : table[stage] = {}
      BY <1>2
    <3>3. ToSet(trig.queue) = {}
      BY <1>2 DEF ToSet
    <3> QED
      BY <1>1, <1>2, <3>1, <3>2, <3>3 DEF TypeOK
  <2>2. Shapes
    <3>1. table = [stage \in ToSet(Stages) |-> table[stage]]
      BY <1>2
    <3>2. hist.wanted = [id \in scene.ids |-> hist.wanted[id]]
      BY <1>2
    <3>3. trig.told = [id \in scene.ids |-> trig.told[id]]
      BY <1>2
    <3> QED
      BY <1>1, <1>2, <1>3, <3>1, <3>2, <3>3 DEF Shapes
  <2>3. QueuedOnce
    BY <1>2, EmptySeq DEF QueuedOnce
  <2> QED
    BY <1>1, <1>2, <2>1, <2>2, <2>3 DEF Framed, RunWindow, LastWindow
<1>6. Written
  <2>1. \A stage \in Plain : table[stage] = {}
    BY <1>2, <1>4
  <2> QED
    BY <1>1, <1>2, <2>1 DEF Written, CopySound, DaysHave, LastCurrent, RunCurrent, RunFresh, LastFresh
<1>7. Served
  <2>1. \A id \in scene.ids : hist.wanted[id] = {} /\ trig.told[id] = "unknown"
    BY <1>2
  <2> QED
    BY <1>1, <1>2, <2>1 DEF Served, NothingMissed, RunCounted, OwedDue, RunOwed, Answers
<1>8. Owing
  BY <1>1, <1>2 DEF Owing, RunFresh, LastFresh
<1> QED
  BY <1>5, <1>6, <1>7, <1>8 DEF RollupInv

-----------------------------------------------------------------------------
(* The theorems *)

\* The invariant holds in every state a container can reach, whatever the rows,
\* the requests, the lookbacks and the failures.
THEOREM RollupInvariant == Spec => []RollupInv
<1>1. Init => RollupInv
  BY InitInv
<1>2. RollupInv /\ [Next]_vars => RollupInv'
  BY StepKept
<1> QED
  BY <1>1, <1>2, PTL DEF Spec

\* Every variable stays in its domain; in particular stored rows are of days that
\* have come, and the queue holds only ids whose run has not begun.
THEOREM RollupsTyped == Spec => []TypeOK
<1>1. RollupInv => TypeOK
  BY DEF RollupInv, Framed
<1> QED
  BY <1>1, RollupInvariant, PTL

\* What came within the overlap before a run that set the watermark is in the
\* rollups for good, whatever run_rollups_for_brand failed at, skipped or was
\* restarted from since.
THEOREM NothingIsMissed == Spec => []NothingMissed
<1>1. RollupInv => NothingMissed
  BY DEF RollupInv, Served
<1> QED
  BY <1>1, RollupInvariant, PTL

\* What _last_run remembers is true: while no row has come since its signature,
\* the rollups of its days are what a run would compute, levels aside, and days
\* counted without their open sessions, so skipping a run loses nothing else.
THEOREM RememberedIsRight == Spec => []RememberedIsCurrent
<1>1. RollupInv => RememberedIsCurrent
  <2> SUFFICES ASSUME RollupInv, proc.last # None, Front(proc.last.sig) = Front(Signature),
                      NEW stage \in ToSet(Stages) \ Levelled,
                      NEW days, days = Seen(stage, proc.last.dates)
               PROVE  At(stage, days) = Computed(stage, days, None, TRUE)
    BY DEF RememberedIsCurrent
  <2>1. TypeOK /\ LastWindow /\ LastCurrent
    BY DEF RollupInv, Framed, Written
  <2>2. stage \in Plain
    BY DEF ToSet, Stages, Levelled, Plain
  <2>3. IsFiniteSet(arrived)
    BY <2>1, SceneTyped
  <2>4. Signs(arrived, proc.last.sig, watermark)
    BY <2>1 DEF LastWindow
  <2>5. NoneSince(arrived, proc.last.sig)
    BY <2>3, <2>4, SignatureSigns
  <2>6. At(stage, days) = Current(stage, days)
    BY <2>1, <2>2, <2>5 DEF LastCurrent, LastFresh
  <2>7. Computed(stage, days, None, TRUE) = Current(stage, days)
    BY <2>2, ComputedCurrent DEF ExactCopy
  <2> QED
    BY <2>6, <2>7
<1> QED
  BY <1>1, RollupInvariant, PTL

\* A trigger answered "completed" had a run that began after it, so that what was
\* there when it was sent is counted, unless the rollups failed: an id taken from
\* MANUAL_TRIGGER_QUEUE is never told of a run that began before it was queued.
THEOREM AnsweredIsFresh == Spec => []TriggerFresh
<1>1. RollupInv => TriggerFresh
  <2> SUFFICES ASSUME RollupInv, NEW id \in scene.ids, trig.told[id] = "completed", id \notin hist.unlucky,
                      NEW r \in hist.wanted[id], DayOf(r.time) >= hist.from
               PROVE  Counted(r)
    BY DEF TriggerFresh
  <2>1. TypeOK /\ Shapes /\ NothingMissed /\ Answers
    BY DEF RollupInv, Framed, Served
  <2>2. r \in hist.covered \/ DayOf(r.time) < hist.from
    BY <2>1 DEF Answers
  <2>3. r \in Row
    BY <2>1 DEF Answers, TypeOK
  <2>4. r.time \in Nat
    BY <2>1, <2>3, SceneTyped
  <2>5. DayOf(r.time) \in Nat /\ hist.from \in Nat
    BY <2>1, <2>4, DayMono DEF Shapes
  <2>6. ~ (DayOf(r.time) < hist.from)
    BY <2>5
  <2> QED
    BY <2>1, <2>2, <2>6 DEF NothingMissed
<1> QED
  BY <1>1, RollupInvariant, PTL

-----------------------------------------------------------------------------
(* Levels *)

\* The product a fact at a level is of.
ProductOf(g) == [day |-> g.day, key |-> g.key[3], of |-> g.of]

\* On that day each product fact is at one level per basis, and nothing else is at one.
Matches(products, intent, day) ==
  /\ \A f \in products, basis \in {"behavior", "score"} : f.day = day =>
       \E g : {h \in intent : h.day = f.day /\ h.of = f.of /\ h.key[1] = basis /\ h.key[3] = f.key} = {g}
  /\ \A g \in intent : g.day = day => ProductOf(g) \in products
Matched(day) == Matches(table["products"], table["intent"], day)

\* The rows have something for product_behavior_daily, or the heatmap, to count on that day.
HasProduct(rows, day) == \E e \in Events(rows) : ProductsOf(e) # {} /\ DayOf(e.time) = day
HasView(rows, day) ==
  \E e \in Events(rows) : e.name = "page_viewed" /\ e.path # <<>> /\ DayOf(e.time) = day

\* The levels are those of now: of the window, and of what the heatmap looks back on.
IntentSettled(dates) == At("intent", dates) = IntentFacts(On(arrived, dates), Closed, score)
HeatmapSettled(dates) ==
  LET days == Extended(dates, HeatmapLookback)
  IN  At("heatmap", days) = HeatmapFacts(On(arrived, days), Closed, score, TRUE)

\* A day with facts keeps having some, levels included.
Supported ==
  /\ \A stage \in {"products", "intent"} : \A f \in table[stage] : HasProduct(arrived, f.day)
  /\ \A f \in table["heatmap"] : HasView(arrived, f.day)

\* A run's copy is of its days, exact while all is quiet, and has what the tables had.
CopyOfWindow ==
  run # None /\ run.source # None =>
    /\ \A r \in run.source : r \in arrived /\ DayOf(r.time) \in run.dates
    /\ hist.quiet => ExactCopy(run.source, run.dates)
    /\ run.clean => \A stage \in {"products", "intent"} : \A f \in table[stage] :
                      f.day \in run.dates => HasProduct(run.source, f.day)

\* The days a run writes products and levels of are torn until it is complete.
TornWindow ==
  run # None /\ run.next >= 1 =>
    /\ run.dates \subseteq hist.torn
    /\ run.source = None => ~ run.clean /\ Extended(run.dates, IntentLookback) \subseteq hist.torn

\* A clean run has products and then levels from its copy.
RunMatched ==
  run # None /\ run.clean /\ ~ run.failed =>
    /\ run.next > 4 => At("products", run.dates) = OnDays(ProductFacts(run.source), run.dates)
    /\ run.next > 5 => \A day \in run.dates : Matched(day)

\* Days that are not torn are matched.
SoundMatched == \A day \in Nat \ hist.torn : Matched(day)

\* While all is quiet, the levels a run has written are those of now, and so they are
\* after it.
RunSettled ==
  run # None /\ hist.quiet /\ ~ run.failed =>
    /\ run.next > 5 => IntentSettled(run.dates)
    /\ run.next > 7 => HeatmapSettled(run.dates)
LastSettled ==
  run = None /\ proc.last # None /\ hist.quiet =>
    IntentSettled(proc.last.dates) /\ HeatmapSettled(proc.last.dates)

LevelInv ==
  /\ Supported /\ CopyOfWindow /\ TornWindow
  /\ RunMatched /\ SoundMatched
  /\ RunSettled /\ LastSettled
  /\ run \in {None} \cup Runs

-----------------------------------------------------------------------------
(* What the levels are computed from *)

\* More rows support more days.
LEMMA SupportGrows ==
  ASSUME NEW R, NEW S, R \subseteq S, NEW day
  PROVE  /\ HasProduct(R, day) => HasProduct(S, day)
         /\ HasView(R, day) => HasView(S, day)
BY DEF HasProduct, HasView, Events

\* Product facts, one for each product of an event.
LEMMA ProductFactsAre ==
  ASSUME NEW rows, NEW f
  PROVE  f \in ProductFacts(rows) <=> \E e \in Events(rows) : \E p \in ProductsOf(e) : f = Fact(e, p, e.row)
<1>1. ASSUME NEW e \in Events(rows), NEW p \in ProductsOf(e)
      PROVE  Fact(e, p, e.row) \in ProductFacts(rows)
  <2>1. Fact(e, p, e.row) \in {Fact(e, q, e.row) : q \in ProductsOf(e)}
    OBVIOUS
  <2> QED
    BY <2>1 DEF ProductFacts
<1>2. ASSUME f \in ProductFacts(rows)
      PROVE  \E e \in Events(rows) : \E p \in ProductsOf(e) : f = Fact(e, p, e.row)
  <2>1. PICK e \in Events(rows) : f \in {Fact(e, q, e.row) : q \in ProductsOf(e)}
    BY <1>2 DEF ProductFacts
  <2> QED
    BY <2>1
<1> QED
  BY <1>1, <1>2

\* The level of an event's session, by a basis.
LevelOf(e, basis, S, sc) ==
  LET mine == {s \in S : s.row = e.session}
  IN  IF mine = {} THEN "unclassified"
      ELSE LET s == CHOOSE t \in mine : TRUE
           IN  IF basis = "behavior" THEN BehaviorLevel(s, sc[s.row]) ELSE ScoreLevel(sc[s.row])

\* Facts at levels: one for each of those and each basis.
LevelFact(e, basis, p, S, sc) == Fact(e, <<basis, LevelOf(e, basis, S, sc), p>>, e.row)

LEMMA IntentFactsAre ==
  ASSUME NEW rows, NEW S, NEW sc, NEW f
  PROVE  f \in IntentFacts(rows, S, sc) <=>
           \E e \in Events(rows) : \E basis \in {"behavior", "score"}, p \in ProductsOf(e) :
             f = LevelFact(e, basis, p, S, sc)
<1> DEFINE at(e) == {LevelFact(e, basis, p, S, sc) : basis \in {"behavior", "score"}, p \in ProductsOf(e)}
<1>1. IntentFacts(rows, S, sc) = UNION {at(e) : e \in Events(rows)}
  BY DEF IntentFacts, LevelFact, LevelOf
<1>2. \A e : f \in at(e) <=>
        \E basis \in {"behavior", "score"}, p \in ProductsOf(e) : f = LevelFact(e, basis, p, S, sc)
  OBVIOUS
<1> HIDE DEF at
<1> QED
  BY <1>1, <1>2

\* The days of the facts of products, of levels and of the heatmap.
LEMMA ProductDays ==
  ASSUME NEW rows, NEW day
  PROVE  /\ (\E f \in ProductFacts(rows) : f.day = day) <=> HasProduct(rows, day)
         /\ \A S, sc : (\E f \in IntentFacts(rows, S, sc) : f.day = day) <=> HasProduct(rows, day)
         /\ \A S, sc, both : (\E f \in HeatmapFacts(rows, S, sc, both) : f.day = day) <=> HasView(rows, day)
<1>1. \A e, key, of : Fact(e, key, of).day = DayOf(e.time)
  BY DEF Fact
<1>2. (\E f \in ProductFacts(rows) : f.day = day) <=> HasProduct(rows, day)
  BY <1>1, ProductFactsAre DEF HasProduct
<1>3. ASSUME NEW S, NEW sc
      PROVE  (\E f \in IntentFacts(rows, S, sc) : f.day = day) <=> HasProduct(rows, day)
  <2>1. \A e, basis, p : LevelFact(e, basis, p, S, sc).day = DayOf(e.time)
    BY <1>1 DEF LevelFact
  <2> QED
    BY <2>1, IntentFactsAre DEF HasProduct
<1>4. ASSUME NEW S, NEW sc, NEW both
      PROVE  (\E f \in HeatmapFacts(rows, S, sc, both) : f.day = day) <=> HasView(rows, day)
  <2> DEFINE views == {e \in Events(rows) : e.name = "page_viewed" /\ e.path # <<>>}
             page(e) == <<NormalPath(e.path), e.device>>
             level(e) == {BehaviorLevel(s, sc[s.row]) : s \in {t \in S : t.row = e.session}}
             at(e) == {Fact(e, page(e), <<e.session, l>>) : l \in level(e) \ {"unclassified"}}
             seen == {Fact(e, page(e), <<e.row, "view">>) : e \in views}
             more == IF both THEN UNION {at(e) : e \in views} ELSE {}
  <2>1. HeatmapFacts(rows, S, sc, both) = seen \cup more
    BY DEF HeatmapFacts
  <2> HIDE DEF level, page
  <2>2. \A e : \A f \in at(e) : f.day = DayOf(e.time)
    BY <1>1
  <2>3. \A f \in seen : \E e \in views : f.day = DayOf(e.time)
    BY <1>1
  <2>4. \A e \in views : \E f \in seen : f.day = DayOf(e.time)
    BY <1>1
  <2>5. \A e \in Events(rows) : e \in views <=> e.name = "page_viewed" /\ e.path # <<>>
    OBVIOUS
  <2>6. views \subseteq Events(rows)
    OBVIOUS
  <2> HIDE DEF at, seen, views
  <2>7. \A f \in more : \E e \in views : f.day = DayOf(e.time)
    BY <2>2
  <2> HIDE DEF more
  <2> QED
    BY <2>1, <2>3, <2>4, <2>5, <2>6, <2>7 DEF HasView
<1> QED
  BY <1>2, <1>3, <1>4

\* Levels computed from the same rows as the products match them.
LEMMA LevelsMatch ==
  ASSUME NEW R, \A r, q \in R : r.row = q.row => r = q, NEW S, NEW sc,
         NEW days, NEW products, NEW intent,
         OnDays(products, days) = OnDays(ProductFacts(R), days),
         OnDays(intent, days) = OnDays(IntentFacts(R, S, sc), days),
         NEW day \in days
  PROVE  Matches(products, intent, day)
<1>1. \A e, key, of : /\ Fact(e, key, of).day = DayOf(e.time)
                      /\ Fact(e, key, of).key = key /\ Fact(e, key, of).of = of
  BY DEF Fact
<1>2. \A e, basis, p : /\ LevelFact(e, basis, p, S, sc).day = DayOf(e.time)
                       /\ LevelFact(e, basis, p, S, sc).of = e.row
                       /\ LevelFact(e, basis, p, S, sc).key[1] = basis
                       /\ LevelFact(e, basis, p, S, sc).key[3] = p
  BY <1>1 DEF LevelFact
<1>3. \A f : f \in products /\ f.day = day <=> f \in ProductFacts(R) /\ f.day = day
  BY DEF OnDays
<1>4. \A g : g \in intent /\ g.day = day <=> g \in IntentFacts(R, S, sc) /\ g.day = day
  BY DEF OnDays
<1>5. ASSUME NEW f \in products, NEW basis \in {"behavior", "score"}, f.day = day
      PROVE  \E g : {h \in intent : h.day = f.day /\ h.of = f.of /\ h.key[1] = basis /\ h.key[3] = f.key} = {g}
  <2>1. PICK e \in Events(R) : \E p \in ProductsOf(e) : f = Fact(e, p, e.row)
    BY <1>3, <1>5, ProductFactsAre
  <2>2. PICK p \in ProductsOf(e) : f = Fact(e, p, e.row)
    BY <2>1
  <2> DEFINE g == LevelFact(e, basis, p, S, sc)
  <2>3. f.of = e.row /\ f.key = p /\ DayOf(e.time) = day
    BY <1>1, <1>5, <2>2
  <2>4. g \in IntentFacts(R, S, sc) /\ g.day = day /\ g.of = f.of /\ g.key[1] = basis /\ g.key[3] = f.key
    BY <1>2, <2>3, IntentFactsAre
  <2>5. ASSUME NEW h \in intent, h.day = f.day, h.of = f.of, h.key[1] = basis, h.key[3] = f.key
        PROVE  h = g
    <3>1. h \in IntentFacts(R, S, sc)
      BY <1>4, <1>5, <2>5
    <3>2. PICK i \in Events(R) : \E b \in {"behavior", "score"}, q \in ProductsOf(i) : h = LevelFact(i, b, q, S, sc)
      BY <3>1, IntentFactsAre
    <3>3. PICK b \in {"behavior", "score"}, q \in ProductsOf(i) : h = LevelFact(i, b, q, S, sc)
      BY <3>2
    <3>4. i.row = e.row /\ b = basis /\ q = p
      BY <1>2, <2>3, <2>5, <3>3
    <3>5. i = e
      BY <3>4 DEF Events
    <3> QED
      BY <3>3, <3>4, <3>5
  <2> HIDE DEF g
  <2>6. g \in intent
    BY <1>4, <2>4
  <2>7. {h \in intent : h.day = f.day /\ h.of = f.of /\ h.key[1] = basis /\ h.key[3] = f.key} = {g}
    BY <1>5, <2>4, <2>5, <2>6
  <2> QED
    BY <2>7
<1>6. ASSUME NEW g \in intent, g.day = day
      PROVE  ProductOf(g) \in products
  <2>1. PICK e \in Events(R) : \E b \in {"behavior", "score"}, p \in ProductsOf(e) : g = LevelFact(e, b, p, S, sc)
    BY <1>4, <1>6, IntentFactsAre
  <2>2. PICK b \in {"behavior", "score"}, p \in ProductsOf(e) : g = LevelFact(e, b, p, S, sc)
    BY <2>1
  <2>3. ProductOf(g) = Fact(e, p, e.row)
    BY <1>2, <2>2 DEF ProductOf, Fact
  <2>4. Fact(e, p, e.row) \in ProductFacts(R) /\ Fact(e, p, e.row).day = day
    BY <1>1, <1>2, <1>6, <2>2, ProductFactsAre
  <2> QED
    BY <1>3, <2>3, <2>4
<1> QED
  BY <1>5, <1>6 DEF Matches

-----------------------------------------------------------------------------
(* What is left in the tables *)

\* Each old fact of some days has a new one of its day.
Renewed(old, new, days) == \A f \in old : f.day \in days => \E g \in new : g.day = f.day

\* The new facts of those days are what is there.
Replaced(stage, old, new, both, days) ==
  OnDays(Stored(stage, old, new, both), days) = OnDays(new, days)

\* Days whose old facts are all computed again have the computed ones.
LEMMA StoredReplaces ==
  ASSUME NEW stage, NEW old, NEW new, NEW both, stage # "heatmap" \/ both = TRUE, NEW days,
         Renewed(old, new, days)
  PROVE  Replaced(stage, old, new, both, days)
<1>1. \A f, g : SameRow(f, g) => f.day = g.day
  BY DEF SameRow
<1>2. \A f : SameRow(f, f)
  BY DEF SameRow
<1>3. ASSUME NEW f \in Stored(stage, old, new, both), f.day \in days
      PROVE  f \in new
  <2>1. /\ f \in Upserted(stage, old, new, both)
        /\ (\E g \in new : SameRow(f, g)) \/ ~ \E g \in new : g.day = f.day
    BY <1>3 DEF Stored
  <2> QED
    BY <1>1, <1>3, <2>1 DEF Upserted, Renewed
<1>4. ASSUME NEW f \in new
      PROVE  f \in Stored(stage, old, new, both)
  BY <1>2, <1>4 DEF Stored, Upserted
<1> QED
  BY <1>3, <1>4 DEF OnDays, Replaced

\* What a stage computes products, levels and the heatmap from.
LEMMA StageComputes ==
  ASSUME NEW dates, NEW source, NEW both
  PROVE  /\ Computed("products", dates, source, both) =
              ProductFacts(On(ReadFrom("products", source), dates))
         /\ Computed("intent", dates, source, both) =
              IntentFacts(On(ReadFrom("intent", source), Extended(dates, IntentLookback)), Closed, score)
         /\ Computed("heatmap", dates, source, both) =
              HeatmapFacts(On(arrived, Extended(dates, HeatmapLookback)), Closed, score, both)
BY DEF Computed, StageDates, ReadFrom, ReadsCopy

\* The window is part of what the levels look back on.
LEMMA ExtendedHas ==
  ASSUME NEW w \in Nat, NEW now \in Nat, w <= now, NEW lookback \in Nat
  PROVE  Days(w, now) \subseteq Extended(Days(w, now), lookback)
<1> DEFINE from == DayOf(w)  to == DayOf(now)
<1>1. from \in Nat /\ to \in Nat /\ from <= to
  BY DayMono
<1>2. Days(w, now) = from .. to
  BY DEF Days
<1> HIDE DEF from, to
<1> DEFINE low == Max({0, to - lookback + 1})
           all == (from .. to) \cup {low}
<1>3. to - lookback + 1 \in Int
  BY <1>1
<1>4. low \in Nat
  <2>1. low \in {0, to - lookback + 1} /\ low >= 0
    BY <1>3, MaxTwo, 0 \in Int, Zenon
  <2> QED
    BY <1>3, <2>1
<1> HIDE DEF low
<1>5. \E x \in all : \A y \in all : x =< y
  <2>1. CASE low <= from
    BY <1>1, <1>4, <2>1
  <2>2. CASE from <= low
    BY <1>1, <1>4, <2>2
  <2> QED
    BY <1>1, <1>4, <2>1, <2>2
<1>6. Min(all) \in all /\ \A y \in all : Min(all) =< y
  BY <1>5 DEF Min
<1>7. Max(from .. to) = to
  BY <1>1, IntervalEnds
<1>8. Extended(from .. to, lookback) = Min(all) .. to
  BY <1>7 DEF Extended, low
<1>9. Min(all) \in Nat /\ Min(all) <= from
  BY <1>1, <1>4, <1>6
<1> QED
  BY <1>1, <1>2, <1>8, <1>9

\* A copy of the window's rows, read for more days than the window, is still those rows.
LEMMA CopyRead ==
  ASSUME NEW source, NEW dates, \A r \in source : DayOf(r.time) \in dates,
         NEW days, dates \subseteq days
  PROVE  On(source, days) = source
BY DEF On

-----------------------------------------------------------------------------
(* The steps *)

\* Steps that write no table, and begin or prepare no run.
LEMMA StillLevels ==
  ASSUME LevelInv, UNCHANGED <<scene, table>>, arrived \subseteq arrived',
         hist.torn \subseteq hist'.torn,
         run' = None \/ run' = run,
         \/ ~ hist'.quiet
         \/ /\ hist.quiet /\ UNCHANGED <<arrived, score>>
            /\ proc'.last = None \/ (proc'.last = proc.last /\ run' = run)
  PROVE  LevelInv'
<1>1. /\ Supported /\ CopyOfWindow /\ TornWindow /\ RunMatched /\ SoundMatched
      /\ RunSettled /\ LastSettled /\ run \in {None} \cup Runs
  BY DEF LevelInv
<1>2. Supported'
  BY <1>1, SupportGrows DEF Supported
<1>3. hist'.quiet => hist.quiet /\ UNCHANGED <<arrived, score>>
  OBVIOUS
<1>4. \A source, dates : hist'.quiet => ExactCopy(source, dates)' = ExactCopy(source, dates)
  BY <1>3, CurrentStays
<1>5. CopyOfWindow'
  <2> SUFFICES ASSUME run' # None, run'.source # None
               PROVE  /\ \A r \in run.source : r \in arrived' /\ DayOf(r.time) \in run.dates
                      /\ hist'.quiet => ExactCopy(run.source, run.dates)'
                      /\ run.clean => \A stage \in {"products", "intent"} : \A f \in table[stage] :
                                        f.day \in run.dates => HasProduct(run.source, f.day)
    BY DEF CopyOfWindow
  <2>1. run' = run /\ run # None /\ run.source # None
    OBVIOUS
  <2> QED
    BY <1>1, <1>3, <1>4, <2>1 DEF CopyOfWindow
<1>6. TornWindow'
  BY <1>1 DEF TornWindow
<1>7. \A day : Matched(day)' <=> Matched(day)
  BY DEF Matched
<1>8. RunMatched' /\ SoundMatched'
  BY <1>1, <1>7 DEF RunMatched, SoundMatched, At
<1>9. ASSUME hist'.quiet, NEW dates
      PROVE  IntentSettled(dates)' = IntentSettled(dates) /\ HeatmapSettled(dates)' = HeatmapSettled(dates)
  BY <1>3, <1>9 DEF IntentSettled, HeatmapSettled, At, Closed
<1>10. RunSettled' /\ LastSettled'
  BY <1>1, <1>3, <1>9 DEF RunSettled, LastSettled
<1> QED
  BY <1>1, <1>2, <1>5, <1>6, <1>8, <1>10 DEF LevelInv

\* A run that starts has written nothing yet.
LEMMA StartLevels ==
  ASSUME Framed, LevelInv, NEW sig \in {Signature, None}, StartRun(sig)
  PROVE  LevelInv'
<1>1. /\ Supported /\ SoundMatched /\ TypeOK /\ Shapes /\ QueuedOnce
  BY DEF LevelInv, Framed
<1>2. UNCHANGED <<clock, scene, arrived, score, watermark, table, proc>>
  BY DEF StartRun
<1>3. PICK from \in Nat : Started(sig, from)
  BY StartDoes
<1>4. run'.next = 0 /\ run'.source = None
  BY <1>3 DEF Started
<1>5. hist'.torn = hist.torn
  <2> DEFINE yes == TRUE
  <2>1. hist' = [hist EXCEPT !.asked = hist.owed, !.quiet = yes]
    BY DEF StartRun
  <2> HIDE DEF yes
  <2> QED
    BY <1>1, <2>1, FlagUpdates DEF FlagsAre
<1>6. run' \in Runs
  <2>1. clock \in Nat /\ watermark \in {None} \cup 0 .. clock /\ IsFiniteSet(arrived)
    BY <1>1, SceneTyped DEF TypeOK
  <2>2. Days(WindowStart(clock), clock) \in SUBSET Nat
    <3>1. DayOf(WindowStart(clock)) \in Nat /\ DayOf(clock) \in Nat
      BY <2>1, WindowStartIs, DayMono
    <3> QED
      BY <3>1 DEF Days
  <2>3. Signature \in Nat \X Nat \X Nat \X Nat
    BY <2>1, CountsTyped DEF Signature, Closed
  <2>4. NextId(trig) \in {None} \cup UNION {sc.ids : sc \in ToSet(Scenes)}
    <3>1. NextId(trig) # None => NextId(trig) \in scene.ids
      BY <1>1, TakeId
    <3>2. scene \in ToSet(Scenes)
      BY <1>1 DEF TypeOK
    <3> QED
      BY <3>1, <3>2
  <2> QED
    BY <1>3, <2>1, <2>2, <2>3, <2>4 DEF Started, Runs
<1>7. run' # None
  BY <1>6, NoneAssumption
<1>8. Supported' /\ SoundMatched'
  BY <1>1, <1>2, <1>5 DEF Supported, SoundMatched, Matched
<1>9. CopyOfWindow' /\ TornWindow' /\ RunMatched' /\ RunSettled' /\ LastSettled'
  BY <1>4, <1>7 DEF CopyOfWindow, TornWindow, RunMatched, RunSettled, LastSettled
<1> QED
  BY <1>6, <1>8, <1>9 DEF LevelInv

\* A run's copy has every product of its days, or the days it will write are torn.
LEMMA PrepareLevels ==
  ASSUME Framed, LevelInv, PrepareSource
  PROVE  LevelInv'
<1>1. /\ Supported /\ CopyOfWindow /\ SoundMatched /\ TypeOK /\ Shapes /\ RunWindow
      /\ run \in {None} \cup Runs
  BY DEF LevelInv, Framed
<1>2. /\ run # None /\ run.next = 0
      /\ UNCHANGED <<clock, scene, arrived, score, watermark, table, trig>>
  BY DEF PrepareSource
<1>3. PICK w \in 0 .. run.now : run.dates = Days(w, run.now) /\ run.now \in Nat
  BY <1>1, <1>2 DEF RunWindow, Window
<1>4. run.dates \subseteq Extended(run.dates, IntentLookback)
  BY <1>3, ExtendedHas, RollupsAssumption
<1> DEFINE copy == On(arrived, run.dates) \ Closed
           no == FALSE
<1>5. \/ /\ run' = [run EXCEPT !.next = 1, !.source = copy]
         /\ hist' = [hist EXCEPT !.torn = hist.torn \cup run.dates]
      \/ /\ run' = [run EXCEPT !.next = 1, !.clean = no]
         /\ hist' = [hist EXCEPT !.torn = hist.torn \cup Extended(run.dates, IntentLookback)]
  BY DEF PrepareSource
<1> HIDE DEF copy, no
<1> DEFINE whole == hist.torn \cup run.dates
           wide == hist.torn \cup Extended(run.dates, IntentLookback)
<1>6. \/ /\ RunIs(1, copy, run.failed) /\ run'.clean = run.clean
         /\ hist'.quiet = hist.quiet /\ hist'.torn = whole
      \/ /\ RunIs(1, run.source, run.failed) /\ run'.clean = no
         /\ hist'.quiet = hist.quiet /\ hist'.torn = wide
  <2> HIDE DEF whole, wide
  <2>1. CASE run' = [run EXCEPT !.next = 1, !.source = copy] /\ hist' = [hist EXCEPT !.torn = whole]
    <3>1. RunIs(1, copy, run.failed)
      BY <1>1, <1>2, <2>1, RunUpdates
    <3>2. run'.clean = run.clean
      BY <1>1, <1>2, <2>1, FlagUpdates DEF FlagsAre
    <3>3. hist'.quiet = hist.quiet /\ hist'.torn = whole
      BY <1>1, <2>1, FlagUpdates DEF FlagsAre
    <3> QED
      BY <3>1, <3>2, <3>3
  <2>2. CASE run' = [run EXCEPT !.next = 1, !.clean = no] /\ hist' = [hist EXCEPT !.torn = wide]
    <3>1. RunIs(1, run.source, run.failed)
      BY <1>1, <1>2, <2>2, RunUpdates
    <3>2. run'.clean = no
      BY <1>1, <1>2, <2>2, FlagUpdates DEF FlagsAre
    <3>3. hist'.quiet = hist.quiet /\ hist'.torn = wide
      BY <1>1, <2>2, FlagUpdates DEF FlagsAre
    <3> QED
      BY <3>1, <3>2, <3>3
  <2> QED
    BY <1>5, <2>1, <2>2 DEF whole, wide
<1>7. /\ run'.next = 1 /\ run'.dates = run.dates /\ hist'.quiet = hist.quiet
      /\ hist.torn \subseteq hist'.torn /\ run.dates \subseteq hist'.torn
      /\ \/ run'.source = copy /\ run'.clean = run.clean
         \/ /\ run'.source = run.source /\ ~ run'.clean
            /\ Extended(run.dates, IntentLookback) \subseteq hist'.torn
  BY <1>4, <1>6 DEF RunIs, no
<1>8. run' \in Runs
  <2>1. run \in Runs
    BY <1>1, <1>2
  <2>2. copy \in SUBSET UNION {sc.rows : sc \in ToSet(Scenes)}
    BY <1>1 DEF copy, On, TypeOK, Row
  <2>3. run'.clean \in BOOLEAN
    BY <1>6, <2>1 DEF no, Runs
  <2>4. RunIs(1, copy, run.failed) \/ RunIs(1, run.source, run.failed)
    BY <1>6
  <2> QED
    BY <2>1, <2>2, <2>3, <2>4 DEF Runs, RunIs
<1>9. run' # None
  BY <1>8, NoneAssumption
<1>10. copy \subseteq arrived /\ copy # None
  <2>1. scene \in ToSet(Scenes) /\ copy \subseteq arrived /\ arrived \subseteq scene.rows
    BY <1>1 DEF copy, On, TypeOK, Row
  <2> QED
    BY <2>1, NoneAssumption
<1>11. Supported' /\ SoundMatched'
  BY <1>1, <1>2, <1>7 DEF Supported, SoundMatched, Matched
<1>12. TornWindow'
  BY <1>7, <1>10 DEF TornWindow
<1>13. RunMatched' /\ RunSettled' /\ LastSettled'
  BY <1>7, <1>9 DEF RunMatched, RunSettled, LastSettled
<1>14. CopyOfWindow'
  <2>1. ExactCopy(copy, run.dates)
    BY DEF ExactCopy, copy
  <2>2. ASSUME NEW day \in run.dates, HasProduct(arrived, day)
        PROVE  HasProduct(copy, day)
    <3>1. PICK e \in Events(arrived) : ProductsOf(e) # {} /\ DayOf(e.time) = day
      BY <2>2 DEF HasProduct
    <3>2. e \in Events(copy)
      BY <2>2, <3>1 DEF copy, Events, On, Closed, Sessions
    <3> QED
      BY <3>1, <3>2 DEF HasProduct
  <2>3. \A r \in copy : r \in arrived /\ DayOf(r.time) \in run.dates
    BY DEF copy, On
  <2>4. \A source, dates : ExactCopy(source, dates)' = ExactCopy(source, dates)
    BY <1>2, CurrentStays
  <2>5. CASE run'.source = copy /\ run'.clean = run.clean
    <3>1. \A stage \in {"products", "intent"} : \A f \in table[stage] :
            f.day \in run.dates => HasProduct(copy, f.day)
      BY <1>1, <2>2 DEF Supported
    <3> HIDE DEF copy
    <3> QED
      BY <1>2, <1>7, <2>1, <2>3, <2>4, <2>5, <3>1 DEF CopyOfWindow
  <2>6. CASE run'.source = run.source /\ ~ run'.clean
    BY <1>1, <1>2, <1>7, <2>4, <2>6 DEF CopyOfWindow
  <2> QED
    BY <1>7, <2>5, <2>6
<1> QED
  BY <1>8, <1>11, <1>12, <1>13, <1>14 DEF LevelInv

\* A day is matched by its own facts.
LEMMA MatchesByDay ==
  ASSUME NEW P, NEW Q, NEW products, NEW intent, NEW day, Matches(products, intent, day),
         \A f : f.day = day => (f \in P <=> f \in products) /\ (f \in Q <=> f \in intent)
  PROVE  Matches(P, Q, day)
<1>1. ASSUME NEW f \in P, NEW basis \in {"behavior", "score"}, f.day = day
      PROVE  \E g : {h \in Q : h.day = f.day /\ h.of = f.of /\ h.key[1] = basis /\ h.key[3] = f.key} = {g}
  <2>1. f \in products
    BY <1>1
  <2>2. PICK g : {h \in intent : h.day = f.day /\ h.of = f.of /\ h.key[1] = basis /\ h.key[3] = f.key} = {g}
    BY <1>1, <2>1 DEF Matches
  <2>3. \A h : h.day = day => (h \in Q <=> h \in intent)
    OBVIOUS
  <2>4. {h \in Q : h.day = f.day /\ h.of = f.of /\ h.key[1] = basis /\ h.key[3] = f.key}
          = {h \in intent : h.day = f.day /\ h.of = f.of /\ h.key[1] = basis /\ h.key[3] = f.key}
    BY <1>1, <2>3
  <2> QED
    BY <2>2, <2>4
<1>2. ASSUME NEW g \in Q, g.day = day
      PROVE  ProductOf(g) \in P
  <2>1. g \in intent
    BY <1>2
  <2>2. ProductOf(g) \in products
    BY <1>2, <2>1 DEF Matches
  <2>3. ProductOf(g).day = day
    BY <1>2 DEF ProductOf
  <2> QED
    BY <2>2, <2>3
<1> QED
  BY <1>1, <1>2 DEF Matches

\* The levels of some days are those of the events of those days.
LEMMA LevelsOn ==
  ASSUME NEW R, NEW Q, NEW S, NEW sc, NEW days,
         \A e : e \in Events(Q) <=> e \in Events(R) /\ DayOf(e.time) \in days
  PROVE  OnDays(IntentFacts(R, S, sc), days) = IntentFacts(Q, S, sc)
<1>1. \A e, basis, p : LevelFact(e, basis, p, S, sc).day = DayOf(e.time)
  BY DEF LevelFact, Fact
<1>2. ASSUME NEW f
      PROVE  f \in IntentFacts(R, S, sc) /\ f.day \in days <=> f \in IntentFacts(Q, S, sc)
  BY <1>1, IntentFactsAre
<1> QED
  BY <1>2 DEF OnDays

\* A stage's run is a run still.
LEMMA StageRun ==
  ASSUME Framed, run \in Runs, Stage \/ OpenUnread \/ LevelsUnread \/ StageRetried \/ StageFails
  PROVE  run' \in Runs
<1>1. run.next \in Nat /\ Len(Stages) = 7
  BY DEF Runs, Stages
<1> DEFINE yes == TRUE  no == FALSE
<1>2. \/ run' = [run EXCEPT !.next = run.next + 1]
      \/ run' = [run EXCEPT !.next = run.next + 1, !.clean = no]
      \/ \E next \in {run.next + 1, Len(Stages) + 1} : run' = [run EXCEPT !.next = next, !.failed = yes, !.clean = no]
  <2>1. CASE Stage \/ OpenUnread \/ LevelsUnread
    BY <2>1, Zenon DEF Stage, OpenUnread, LevelsUnread
  <2>2. CASE StageRetried
    BY <2>2, Zenon DEF StageRetried
  <2>3. CASE StageFails
    BY <2>3, Zenon DEF StageFails
  <2> QED
    BY <2>1, <2>2, <2>3
<1>3. run.next + 1 \in Nat /\ Len(Stages) + 1 \in Nat /\ yes \in BOOLEAN /\ no \in BOOLEAN
  BY <1>1
<1> HIDE DEF yes, no
<1>4. \A next \in Nat, flag, failed \in BOOLEAN :
        /\ [run EXCEPT !.next = next] \in Runs
        /\ [run EXCEPT !.next = next, !.clean = flag] \in Runs
        /\ [run EXCEPT !.next = next, !.failed = failed, !.clean = flag] \in Runs
  BY DEF Runs
<1> QED
  BY <1>2, <1>3, <1>4

\* A stage computes products and levels from the run's copy or, on torn days, from
\* the tables; the days it leaves alone are matched as before.
LEMMA StageLevels ==
  ASSUME Framed, LevelInv, Stage \/ OpenUnread \/ LevelsUnread \/ StageRetried \/ StageFails
  PROVE  LevelInv'
<1>1. /\ Supported /\ CopyOfWindow /\ TornWindow /\ RunMatched /\ SoundMatched
      /\ RunSettled /\ LastSettled /\ run \in {None} \cup Runs
      /\ TypeOK /\ Shapes /\ RunWindow
  BY DEF LevelInv, Framed
<1>2. /\ run # None /\ run.next \in 1 .. 7 /\ Here \in ToSet(Stages)
      /\ UNCHANGED <<clock, scene, arrived, watermark, proc, trig>>
  BY <1>1, StageDoes
<1>3. UNCHANGED score
  BY DEF Stage, OpenUnread, LevelsUnread, StageRetried, StageFails
<1>4. PICK T, source, both : StageStep(T, source, both)
  BY <1>1, StageDoes
<1>5. /\ source \in {run.source, None}
      /\ run'.clean => run.clean /\ source = run.source
      /\ hist.torn \subseteq hist'.torn
      /\ source # run.source => StageDates(Here, run.dates) \subseteq hist'.torn
      /\ hist'.quiet => hist.quiet /\ (Here = "heatmap" => both)
  BY <1>4 DEF StageStep, StageMarks
<1>6. /\ table'[Here] = T
      /\ \A stage \in ToSet(Stages) \ {Here} : table'[stage] = table[stage]
  BY <1>1, <1>2, <1>4, StageTables DEF StageStep
<1>7. Whole(T, source, both) \/ Part(T, source, both)
  BY <1>4 DEF StageStep
<1>8. /\ run'.dates = run.dates /\ run'.source = run.source
      /\ \/ run'.failed /\ run'.next >= 1
         \/ run'.next = run.next + 1 /\ run'.failed = run.failed /\ Whole(T, source, both)
  <2>1. \/ RunIs(run.next + 1, run.source, run.failed) /\ Whole(T, source, both)
        \/ \E next \in {run.next + 1, Len(Stages) + 1} : RunIs(next, run.source, TRUE)
    BY <1>4 DEF StageStep
  <2>2. CASE RunIs(run.next + 1, run.source, run.failed) /\ Whole(T, source, both)
    BY <2>2 DEF RunIs
  <2>3. CASE \E next \in {run.next + 1, Len(Stages) + 1} : RunIs(next, run.source, TRUE)
    <3>1. Len(Stages) = 7
      BY DEF Stages
    <3>2. PICK next \in {run.next + 1, Len(Stages) + 1} : RunIs(next, run.source, TRUE)
      BY <2>3
    <3> QED
      BY <1>2, <3>1, <3>2 DEF RunIs
  <2> QED
    BY <2>1, <2>2, <2>3
<1>9. run' \in Runs /\ run' # None
  BY <1>1, <1>2, StageRun, NoneAssumption
<1>10. {"products", "intent", "heatmap"} \subseteq ToSet(Stages)
  BY DEF ToSet, Stages
<1>11. /\ Here = "products" <=> run.next = 4
       /\ Here = "intent" <=> run.next = 5
       /\ Here = "heatmap" <=> run.next = 7
  BY <1>2 DEF Here, Stages
<1>12. PICK w \in 0 .. run.now : run.dates = Days(w, run.now) /\ run.now \in Nat
  BY <1>1, <1>2 DEF RunWindow, Window
<1>13. run.dates \subseteq Extended(run.dates, IntentLookback)
  BY <1>12, ExtendedHas, RollupsAssumption
<1> DEFINE C == Computed(Here, run.dates, source, both)
<1>14. T \subseteq table[Here] \cup C
  BY <1>7, LeftWithin
<1>15. \A stage : ReadFrom(stage, source) \subseteq arrived
  BY <1>1, <1>2, <1>5 DEF ReadFrom, CopyOfWindow
<1>16. /\ Here = "products" => C = ProductFacts(On(ReadFrom("products", source), run.dates))
       /\ Here = "intent" =>
            C = IntentFacts(On(ReadFrom("intent", source), Extended(run.dates, IntentLookback)), Closed, score)
       /\ Here = "heatmap" =>
            C = HeatmapFacts(On(arrived, Extended(run.dates, HeatmapLookback)), Closed, score, both)
  BY StageComputes
<1>17. \A g \in C : g.day \in StageDates(Here, run.dates)
  BY <1>2, ComputedDays
<1>18. Closed' = Closed /\ \A src, dates : ExactCopy(src, dates)' = ExactCopy(src, dates)
  BY <1>2, CurrentStays
<1> HIDE DEF C
\* products and levels come from events of their day among the rows read
<1>19. \A g \in C :
         /\ Here \in {"products", "intent"} => HasProduct(ReadFrom(Here, source), g.day)
         /\ Here = "heatmap" => HasView(arrived, g.day)
  <2>1. \A rows, days : On(rows, days) \subseteq rows
    BY DEF On
  <2>2. ASSUME NEW g \in C, Here = "products"
        PROVE  HasProduct(ReadFrom("products", source), g.day)
    <3>1. HasProduct(On(ReadFrom("products", source), run.dates), g.day)
      BY <1>16, <2>2, ProductDays
    <3> QED
      BY <2>1, <3>1, SupportGrows
  <2>3. ASSUME NEW g \in C, Here = "intent"
        PROVE  HasProduct(ReadFrom("intent", source), g.day)
    <3>1. HasProduct(On(ReadFrom("intent", source), Extended(run.dates, IntentLookback)), g.day)
      BY <1>16, <2>3, ProductDays
    <3> QED
      BY <2>1, <3>1, SupportGrows
  <2>4. ASSUME NEW g \in C, Here = "heatmap"
        PROVE  HasView(arrived, g.day)
    <3>1. HasView(On(arrived, Extended(run.dates, HeatmapLookback)), g.day)
      BY <1>16, <2>4, ProductDays
    <3> QED
      BY <2>1, <3>1, SupportGrows
  <2> QED
    BY <2>2, <2>3, <2>4
<1>20. Supported'
  <2>1. ASSUME NEW stage \in {"products", "intent"}, NEW f \in table'[stage]
        PROVE  HasProduct(arrived, f.day)
    <3>1. CASE f \in table[stage]
      BY <1>1, <3>1 DEF Supported
    <3>2. CASE f \notin table[stage]
      <4>1. stage = Here /\ f \in C
        BY <1>6, <1>10, <1>14, <2>1, <3>2
      <4>2. HasProduct(ReadFrom(Here, source), f.day)
        BY <1>19, <4>1
      <4> QED
        BY <1>15, <4>2, SupportGrows
    <3> QED
      BY <3>1, <3>2
  <2>2. ASSUME NEW f \in table'["heatmap"]
        PROVE  HasView(arrived, f.day)
    <3>1. CASE f \in table["heatmap"]
      BY <1>1, <3>1 DEF Supported
    <3>2. CASE f \notin table["heatmap"]
      <4>1. Here = "heatmap" /\ f \in C
        BY <1>6, <1>10, <1>14, <2>2, <3>2
      <4> QED
        BY <1>19, <4>1
    <3> QED
      BY <3>1, <3>2
  <2> QED
    BY <1>2, <2>1, <2>2 DEF Supported
<1>21. CopyOfWindow'
  <2>1. ASSUME run.source # None, run'.clean,
               NEW stage \in {"products", "intent"}, NEW f \in table'[stage], f.day \in run.dates
        PROVE  HasProduct(run.source, f.day)
    <3>1. run.clean /\ source = run.source
      BY <1>5, <2>1
    <3>2. CASE f \in table[stage]
      BY <1>1, <1>2, <2>1, <3>1, <3>2 DEF CopyOfWindow
    <3>3. CASE f \notin table[stage]
      <4>1. stage = Here /\ f \in C
        BY <1>6, <1>10, <1>14, <2>1, <3>3
      <4>2. ReadFrom(Here, source) = run.source
        BY <2>1, <3>1, <4>1 DEF ReadFrom, ReadsCopy
      <4> QED
        BY <1>19, <2>1, <4>1, <4>2
    <3> QED
      BY <3>2, <3>3
  <2>2. run.source # None =>
          /\ \A r \in run.source : r \in arrived /\ DayOf(r.time) \in run.dates
          /\ hist.quiet => ExactCopy(run.source, run.dates)
    BY <1>1, <1>2 DEF CopyOfWindow
  <2> QED
    BY <1>2, <1>5, <1>8, <1>18, <2>1, <2>2 DEF CopyOfWindow
<1>22. TornWindow'
  BY <1>1, <1>2, <1>5, <1>8 DEF TornWindow
\* on days that are not torn products and levels are left as they were
<1>23. SoundMatched'
  <2>1. ASSUME Here \in {"products", "intent"}, NEW g \in C
        PROVE  g.day \in hist'.torn
    <3>1. g.day \in StageDates(Here, run.dates)
      BY <1>17
    <3>2. CASE source # run.source
      BY <1>5, <3>1, <3>2
    <3>3. CASE source = run.source /\ run.source = None
      <4>1. StageDates(Here, run.dates) \subseteq Extended(run.dates, IntentLookback)
        BY <1>13, <2>1 DEF StageDates
      <4>2. Extended(run.dates, IntentLookback) \subseteq hist.torn
        BY <1>1, <1>2, <3>3 DEF TornWindow
      <4> QED
        BY <1>5, <3>1, <4>1, <4>2
    <3>4. CASE source = run.source /\ run.source # None
      <4>1. HasProduct(run.source, g.day)
        <5>1. ReadFrom(Here, source) = run.source
          BY <2>1, <3>4 DEF ReadFrom, ReadsCopy
        <5> QED
          BY <1>19, <2>1, <5>1
      <4>2. g.day \in run.dates
        BY <1>1, <1>2, <3>4, <4>1 DEF CopyOfWindow, HasProduct, Events
      <4>3. run.dates \subseteq hist.torn
        BY <1>1, <1>2 DEF TornWindow
      <4> QED
        BY <1>5, <4>2, <4>3
    <3> QED
      BY <3>2, <3>3, <3>4
  <2>2. ASSUME NEW stage \in {"products", "intent"}, NEW f, f.day \notin hist'.torn
        PROVE  f \in table'[stage] <=> f \in table[stage]
    <3>1. CASE stage # Here
      BY <1>6, <1>10, <3>1
    <3>2. CASE stage = Here
      <4>1. \A g \in C : g.day # f.day
        BY <2>1, <2>2, <3>2
      <4>2. f \in T <=> f \in table[Here]
        BY <1>7, <4>1, LeftElsewhere DEF C
      <4> QED
        BY <1>6, <3>2, <4>2
    <3> QED
      BY <3>1, <3>2
  <2>3. ASSUME NEW day \in Nat \ hist'.torn
        PROVE  Matches(table'["products"], table'["intent"], day)
    <3>1. Matches(table["products"], table["intent"], day)
      BY <1>1, <1>5 DEF SoundMatched, Matched
    <3> DEFINE P == table'["products"]  Q == table'["intent"]
               products == table["products"]  intent == table["intent"]
    <3>2. ASSUME NEW f, f.day = day
          PROVE  (f \in P <=> f \in products) /\ (f \in Q <=> f \in intent)
      BY <2>2, <2>3, <3>2
    <3>3. Matches(products, intent, day)
      BY <3>1
    <3> HIDE DEF P, Q, products, intent
    <3>4. Matches(P, Q, day)
      BY <3>2, <3>3, MatchesByDay
    <3> QED
      BY <3>4 DEF P, Q
  <2> QED
    BY <2>3 DEF SoundMatched, Matched
\* a clean run has read its copy
<1>24. ASSUME run'.clean, ~ run'.failed
       PROVE  /\ run.clean /\ ~ run.failed /\ run'.next = run.next + 1
              /\ source = run.source /\ run.source # None /\ Whole(T, source, both)
              /\ \A r \in source : DayOf(r.time) \in run.dates
              /\ Here = "products" => C = ProductFacts(source)
              /\ Here = "intent" => C = IntentFacts(source, Closed, score)
              /\ Here \in {"products", "intent"} => OnDays(T, run.dates) = OnDays(C, run.dates)
  <2>1. /\ run.clean /\ ~ run.failed /\ run'.next = run.next + 1
        /\ source = run.source /\ Whole(T, source, both)
    BY <1>5, <1>8, <1>24
  <2>2. run.source # None
    BY <1>1, <1>2, <2>1 DEF TornWindow
  <2>3. \A r \in source : DayOf(r.time) \in run.dates
    BY <1>1, <1>2, <2>1, <2>2 DEF CopyOfWindow
  <2>4. \A days : run.dates \subseteq days => On(source, days) = source
    BY <2>3, CopyRead
  <2>5. /\ ReadFrom("products", source) = source /\ ReadFrom("intent", source) = source
    BY <2>1, <2>2 DEF ReadFrom, ReadsCopy
  <2>6. /\ Here = "products" => C = ProductFacts(source)
        /\ Here = "intent" => C = IntentFacts(source, Closed, score)
    BY <1>13, <1>16, <2>4, <2>5
  <2>7. ASSUME Here \in {"products", "intent"}
        PROVE  OnDays(T, run.dates) = OnDays(C, run.dates)
    <3>1. \A f \in table[Here] : f.day \in run.dates => HasProduct(source, f.day)
      BY <1>1, <1>2, <2>1, <2>2, <2>7 DEF CopyOfWindow
    <3>2. \A day : HasProduct(source, day) => \E g \in C : g.day = day
      BY <2>6, <2>7, ProductDays
    <3>3. T = Stored(Here, table[Here], C, both)
      BY <2>1 DEF Whole, C
    <3> DEFINE stage == Here  old == table[Here]
    <3>4. Renewed(old, C, run.dates) /\ stage # "heatmap"
      BY <2>7, <3>1, <3>2 DEF Renewed
    <3> HIDE DEF stage, old
    <3>5. Replaced(stage, old, C, both, run.dates)
      BY <3>4, StoredReplaces
    <3> QED
      BY <3>3, <3>5 DEF Replaced, stage, old
  <2> QED
    BY <2>1, <2>2, <2>3, <2>6, <2>7
<1>25. ASSUME run'.clean, ~ run'.failed, run'.next > 4
       PROVE  OnDays(table'["products"], run.dates) = OnDays(ProductFacts(run.source), run.dates)
  <2>1. CASE run.next = 4
    BY <1>6, <1>11, <1>24, <1>25, <2>1
  <2>2. CASE run.next # 4
    <3>1. run.next > 4
      BY <1>2, <1>24, <1>25, <2>2
    <3>2. At("products", run.dates) = OnDays(ProductFacts(run.source), run.dates)
      BY <1>1, <1>2, <1>24, <1>25, <3>1 DEF RunMatched
    <3> QED
      BY <1>6, <1>10, <1>11, <2>2, <3>2 DEF At, OnDays
  <2> QED
    BY <2>1, <2>2
<1>26. ASSUME run'.clean, ~ run'.failed, run'.next > 5, NEW day \in run.dates
       PROVE  Matches(table'["products"], table'["intent"], day)
  <2>1. CASE run.next = 5
    <3>1. OnDays(table'["products"], run.dates) = OnDays(ProductFacts(run.source), run.dates)
      BY <1>2, <1>24, <1>25, <1>26
    <3>2. OnDays(table'["intent"], run.dates) = OnDays(IntentFacts(run.source, Closed, score), run.dates)
      BY <1>6, <1>11, <1>24, <1>26, <2>1
    <3>3. \A r, q \in run.source : r.row = q.row => r = q
      <4>1. run.source \subseteq Row
        BY <1>1, <1>2, <1>24, <1>26 DEF CopyOfWindow, TypeOK
      <4> QED
        BY <1>1, <4>1, ScenesAssumption DEF TypeOK, Row
    <3> QED
      BY <1>26, <3>1, <3>2, <3>3, LevelsMatch
  <2>2. CASE run.next # 5
    <3>1. run.next > 5
      BY <1>2, <1>24, <1>26, <2>2
    <3>2. Matched(day)
      BY <1>1, <1>2, <1>24, <1>26, <3>1 DEF RunMatched
    <3> QED
      BY <1>6, <1>10, <1>11, <2>2, <3>1, <3>2 DEF Matched
  <2> QED
    BY <2>1, <2>2
<1>27. RunMatched'
  BY <1>8, <1>25, <1>26 DEF RunMatched, Matched, At, OnDays
\* a run all was quiet for has read what is there now
<1>28. ASSUME hist'.quiet, ~ run'.failed
       PROVE  /\ hist.quiet /\ (Here = "heatmap" => both)
              /\ ~ run.failed /\ run'.next = run.next + 1
              /\ Whole(T, source, both) /\ ExactCopy(source, run.dates)
  <2>1. /\ hist.quiet /\ (Here = "heatmap" => both)
        /\ ~ run.failed /\ run'.next = run.next + 1 /\ Whole(T, source, both)
    BY <1>5, <1>8, <1>28
  <2>2. ExactCopy(source, run.dates)
    BY <1>1, <1>2, <1>5, <2>1 DEF CopyOfWindow, ExactCopy
  <2> QED
    BY <2>1, <2>2
<1>29. ASSUME hist'.quiet, ~ run'.failed, run.next = 5
       PROVE  OnDays(T, run.dates) = IntentFacts(On(arrived, run.dates), Closed, score)
  <2> DEFINE from == On(ReadFrom("intent", source), Extended(run.dates, IntentLookback))
             now == On(arrived, run.dates)
  <2>1. \A e : e \in Events(now) <=> e \in Events(from) /\ DayOf(e.time) \in run.dates
    <3>1. CASE source = None
      BY <1>13, <3>1 DEF ReadFrom, On, Events
    <3>2. CASE source # None
      <4>1. ReadFrom("intent", source) = On(arrived, run.dates) \ Closed
        BY <1>28, <1>29, <3>2 DEF ReadFrom, ReadsCopy, ExactCopy
      <4> QED
        BY <1>13, <4>1 DEF On, Events, Closed, Sessions
    <3> QED
      BY <3>1, <3>2
  <2>2. Here = "intent" /\ C = IntentFacts(from, Closed, score)
    BY <1>11, <1>16, <1>29
  <2>3. ASSUME NEW f \in table["intent"], f.day \in run.dates
        PROVE  HasProduct(from, f.day)
    <3>1. HasProduct(arrived, f.day)
      BY <1>1 DEF Supported
    <3>2. PICK e \in Events(arrived) : ProductsOf(e) # {} /\ DayOf(e.time) = f.day
      BY <3>1 DEF HasProduct
    <3>3. e \in Events(now)
      BY <2>3, <3>2 DEF Events, On
    <3> QED
      BY <2>1, <3>2, <3>3 DEF HasProduct
  <2> HIDE DEF from, now
  <2>4. Renewed(table["intent"], C, run.dates)
    BY <2>2, <2>3, ProductDays DEF Renewed
  <2>5. T = Stored("intent", table["intent"], C, both)
    BY <1>28, <1>29, <2>2 DEF Whole, C
  <2>6. OnDays(T, run.dates) = OnDays(C, run.dates)
    <3> DEFINE stage == "intent"  old == table["intent"]
    <3>1. Renewed(old, C, run.dates) /\ stage # "heatmap"
      BY <2>4
    <3> HIDE DEF stage, old
    <3>2. Replaced(stage, old, C, both, run.dates)
      BY <3>1, StoredReplaces
    <3> QED
      BY <2>5, <3>2 DEF Replaced, stage, old
  <2>7. OnDays(IntentFacts(from, Closed, score), run.dates) = IntentFacts(now, Closed, score)
    BY <2>1, LevelsOn
  <2> QED
    BY <2>2, <2>6, <2>7 DEF now
<1>30. ASSUME hist'.quiet, ~ run'.failed, run.next = 7
       PROVE  OnDays(T, Extended(run.dates, HeatmapLookback)) =
                HeatmapFacts(On(arrived, Extended(run.dates, HeatmapLookback)), Closed, score, TRUE)
  <2> DEFINE days == Extended(run.dates, HeatmapLookback)
             now == On(arrived, days)
  <2>1. both /\ Here = "heatmap" /\ C = HeatmapFacts(now, Closed, score, both)
    BY <1>11, <1>16, <1>28, <1>30
  <2> DEFINE yes == TRUE
  <2>2. C = HeatmapFacts(now, Closed, score, yes)
    BY <2>1 DEF HeatmapFacts
  <2>3. ASSUME NEW f \in table["heatmap"], f.day \in days
        PROVE  HasView(now, f.day)
    <3>1. HasView(arrived, f.day)
      BY <1>1 DEF Supported
    <3>2. PICK e \in Events(arrived) : e.name = "page_viewed" /\ e.path # <<>> /\ DayOf(e.time) = f.day
      BY <3>1 DEF HasView
    <3>3. e \in Events(now)
      BY <2>3, <3>2 DEF Events, On
    <3> QED
      BY <3>2, <3>3 DEF HasView
  <2>4. \A g \in C : g.day \in days
    BY <1>17, <2>1 DEF StageDates
  <2>5. T = Stored("heatmap", table["heatmap"], C, yes)
    <3>1. T = Stored("heatmap", table["heatmap"], C, both)
      BY <1>28, <1>30, <2>1 DEF Whole, C
    <3> QED
      BY <2>1, <3>1 DEF Stored, Upserted
  <2>6. yes = TRUE
    OBVIOUS
  <2> HIDE DEF days, now, yes
  <2>7. OnDays(T, days) = OnDays(C, days)
    <3> DEFINE stage == "heatmap"  old == table["heatmap"]
    <3>1. Renewed(old, C, days)
      BY <2>2, <2>3, ProductDays DEF Renewed
    <3> HIDE DEF stage, old
    <3>2. Replaced(stage, old, C, yes, days)
      BY <2>6, <3>1, StoredReplaces
    <3> QED
      BY <2>5, <3>2 DEF Replaced, stage, old
  <2>8. OnDays(C, days) = C
    BY <2>4 DEF OnDays
  <2> QED
    BY <2>2, <2>7, <2>8 DEF days, now, yes
<1>31. RunSettled'
  <2>1. ASSUME hist'.quiet, ~ run'.failed, run'.next > 5
        PROVE  OnDays(table'["intent"], run.dates) = IntentFacts(On(arrived, run.dates), Closed, score)
    <3>1. CASE run.next = 5
      BY <1>6, <1>11, <1>29, <2>1, <3>1
    <3>2. CASE run.next # 5
      <4>1. run.next > 5 /\ hist.quiet /\ ~ run.failed
        BY <1>2, <1>28, <2>1, <3>2
      <4>2. IntentSettled(run.dates)
        BY <1>1, <1>2, <4>1 DEF RunSettled
      <4> QED
        BY <1>6, <1>10, <1>11, <3>2, <4>2 DEF IntentSettled, At, OnDays
    <3> QED
      BY <3>1, <3>2
  <2>2. ASSUME hist'.quiet, ~ run'.failed, run'.next > 7
        PROVE  OnDays(table'["heatmap"], Extended(run.dates, HeatmapLookback)) =
                 HeatmapFacts(On(arrived, Extended(run.dates, HeatmapLookback)), Closed, score, TRUE)
    <3>1. run.next = 7
      BY <1>2, <1>28, <2>2
    <3> QED
      BY <1>6, <1>11, <1>30, <2>2, <3>1
  <2> QED
    BY <1>2, <1>3, <1>8, <1>18, <2>1, <2>2 DEF RunSettled, IntentSettled, HeatmapSettled, At, OnDays
<1>32. LastSettled'
  BY <1>9 DEF LastSettled
<1> QED
  BY <1>9, <1>20, <1>21, <1>22, <1>23, <1>27, <1>31, <1>32 DEF LevelInv

\* A run that is complete, if it was clean, has matched its days; what it remembers is
\* settled, if all was quiet.
LEMMA CompletedLevels ==
  ASSUME Framed, LevelInv, EndRun, ~ run.failed
  PROVE  LevelInv'
<1>1. Supported /\ RunMatched /\ SoundMatched /\ RunSettled /\ Shapes
  BY DEF LevelInv, Framed
<1>2. /\ run # None /\ run.next = 8 /\ run' = None
      /\ proc' = [last |-> Remember(run.sig), refused |-> proc.refused]
      /\ UNCHANGED <<scene, arrived, table>>
  BY CompletedDoes
<1>3. UNCHANGED score
  BY DEF EndRun
<1> DEFINE torn == IF run.clean THEN hist.torn \ run.dates ELSE hist.torn
<1>4. hist'.quiet = hist.quiet /\ hist'.torn = torn
  <2> DEFINE covered == {r \in hist.asked : DayOf(r.time) >= run.from}
  <2>1. hist' = [hist EXCEPT !.from = run.from, !.covered = covered, !.torn = torn]
    BY DEF EndRun, Completed
  <2>2. hist = [from |-> hist.from, owed |-> hist.owed, asked |-> hist.asked,
                covered |-> hist.covered, quiet |-> hist.quiet, torn |-> hist.torn, blind |-> hist.blind,
                wanted |-> hist.wanted, unlucky |-> hist.unlucky]
    BY <1>1 DEF Shapes
  <2> HIDE DEF covered, torn
  <2> QED
    BY <2>1, <2>2
<1>5. Supported'
  BY <1>1, <1>2 DEF Supported
<1>6. SoundMatched'
  <2>1. \A day \in run.dates : run.clean => Matched(day)
    BY <1>1, <1>2 DEF RunMatched
  <2>2. \A day : Matched(day)' <=> Matched(day)
    BY <1>2 DEF Matched
  <2> QED
    BY <1>1, <1>4, <2>1, <2>2 DEF SoundMatched
<1>7. LastSettled'
  <2>1. proc'.last = Remember(run.sig)
    BY <1>2
  <2>2. proc'.last # None => proc'.last.dates = run.dates
    BY <2>1 DEF Remember
  <2>3. hist.quiet => IntentSettled(run.dates) /\ HeatmapSettled(run.dates)
    BY <1>1, <1>2 DEF RunSettled
  <2>4. \A dates : /\ IntentSettled(dates)' <=> IntentSettled(dates)
                   /\ HeatmapSettled(dates)' <=> HeatmapSettled(dates)
    BY <1>2, <1>3 DEF IntentSettled, HeatmapSettled, At, Closed
  <2> QED
    BY <1>4, <2>2, <2>3, <2>4 DEF LastSettled
<1>8. CopyOfWindow' /\ TornWindow' /\ RunMatched' /\ RunSettled' /\ run' \in {None} \cup Runs
  BY <1>2 DEF CopyOfWindow, TornWindow, RunMatched, RunSettled
<1> QED
  BY <1>5, <1>6, <1>7, <1>8 DEF LevelInv

\* Every other step leaves the tables alone, and all is quiet only if it changes nothing.
LEMMA OtherLevels ==
  ASSUME Framed, LevelInv,
         \/ Tick \/ FiringSkipped \/ UNCHANGED vars
         \/ \E r \in Row \ arrived : Arrive(r)
         \/ \E s \in Closed, level \in scene.levels : Rescore(s, level)
         \/ \E id \in scene.ids : Trigger(id) \/ Fire(id)
         \/ ConfigFails \/ BrandFails \/ SkipRun
         \/ (EndRun /\ run.failed) \/ WatermarkFails \/ Crash
  PROVE  LevelInv'
<1>1. Shapes
  BY DEF Framed
<1>2. UNCHANGED <<scene, table>> /\ arrived \subseteq arrived' /\ (run' = None \/ run' = run)
  BY DEF Tick, FiringSkipped, vars, Arrive, Rescore, Trigger, Fire, ConfigFails, BrandFails, SkipRun, EndRun,
         Completed, WatermarkFails, Crash
<1> DEFINE no == FALSE
<1>3. CASE \/ Tick \/ FiringSkipped \/ UNCHANGED vars \/ ConfigFails
           \/ \E id \in scene.ids : Trigger(id) \/ Fire(id)
  <2>1. UNCHANGED <<arrived, score, proc, run>>
    BY <1>3 DEF Tick, FiringSkipped, vars, Trigger, Fire, ConfigFails
  <2>2. hist'.torn = hist.torn /\ hist'.quiet = hist.quiet
    <3>1. hist' = hist \/ \E id \in scene.ids : hist' = [hist EXCEPT !.wanted[id] = hist.owed]
      BY <1>3 DEF Tick, FiringSkipped, vars, Trigger, Fire, ConfigFails
    <3> QED
      BY <1>1, <3>1, FlagUpdates DEF FlagsAre
  <2> QED
    BY <1>2, <2>1, <2>2, StillLevels
<1>4. CASE BrandFails \/ SkipRun
  <2>1. UNCHANGED <<arrived, score, proc, run>>
    BY <1>4 DEF BrandFails, SkipRun
  <2>2. hist'.torn = hist.torn /\ hist'.quiet = hist.quiet
    <3>1. \/ hist' = [hist EXCEPT !.unlucky = Unlucky(NextId(trig))]
          \/ hist' = [hist EXCEPT !.covered = {r \in hist.owed : DayOf(r.time) >= hist.from}]
      BY <1>4 DEF BrandFails, SkipRun
    <3> QED
      BY <1>1, <3>1, FlagUpdates DEF FlagsAre
  <2> QED
    BY <1>2, <2>1, <2>2, StillLevels
<1>5. CASE EndRun /\ run.failed
  <2>1. UNCHANGED <<arrived, score>> /\ run' = None
    BY <1>5 DEF EndRun
  <2>2. hist'.torn = hist.torn /\ hist'.quiet = hist.quiet
    <3>1. hist' = [hist EXCEPT !.unlucky = Unlucky(RunId)]
      BY <1>5 DEF EndRun, Completed
    <3> QED
      BY <1>1, <3>1, FlagUpdates DEF FlagsAre
  <2>3. proc'.last = None
    <3>1. proc' = [proc EXCEPT !.last = None]
      BY <1>5 DEF EndRun, Completed
    <3> QED
      BY <1>1, <3>1, ProcUpdates
  <2> QED
    BY <1>2, <2>1, <2>2, <2>3, StillLevels
<1>6. CASE \/ \E r \in Row \ arrived : Arrive(r)
           \/ \E s \in Closed, level \in scene.levels : Rescore(s, level)
           \/ WatermarkFails \/ Crash
  <2>1. \/ hist' = [hist EXCEPT !.quiet = no]
        \/ \E owed : hist' = [hist EXCEPT !.quiet = no, !.owed = owed]
        \/ \E unlucky : hist' = [hist EXCEPT !.unlucky = unlucky, !.quiet = no]
    BY <1>6 DEF Arrive, Rescore, WatermarkFails, Crash
  <2> HIDE DEF no
  <2>2. hist'.torn = hist.torn /\ hist'.quiet = no
    <3>1. CASE hist' = [hist EXCEPT !.quiet = no]
      BY <1>1, <3>1, FlagUpdates DEF FlagsAre
    <3>2. CASE \E owed : hist' = [hist EXCEPT !.quiet = no, !.owed = owed]
      <4>1. PICK owed : hist' = [hist EXCEPT !.quiet = no, !.owed = owed]
        BY <3>2
      <4> QED
        BY <1>1, <4>1, FlagUpdates DEF FlagsAre
    <3>3. CASE \E unlucky : hist' = [hist EXCEPT !.unlucky = unlucky, !.quiet = no]
      <4>1. PICK unlucky : hist' = [hist EXCEPT !.unlucky = unlucky, !.quiet = no]
        BY <3>3
      <4> QED
        BY <1>1, <4>1, FlagUpdates DEF FlagsAre
    <3> QED
      BY <2>1, <3>1, <3>2, <3>3
  <2>3. ~ hist'.quiet
    BY <2>2 DEF no
  <2> QED
    BY <1>2, <2>2, <2>3, StillLevels
<1> QED
  BY <1>3, <1>4, <1>5, <1>6

\* Every step keeps the levels matched.
LEMMA LevelStep ==
  ASSUME RollupInv, LevelInv, [Next]_vars
  PROVE  LevelInv'
<1>1. Framed
  BY DEF RollupInv
<1>2. CASE \E sig \in {Signature, None} : StartRun(sig)
  BY <1>1, <1>2, StartLevels
<1>3. CASE PrepareSource
  BY <1>1, <1>3, PrepareLevels
<1>4. CASE Stage \/ OpenUnread \/ LevelsUnread \/ StageRetried \/ StageFails
  BY <1>1, <1>4, StageLevels
<1>5. CASE EndRun /\ ~ run.failed
  BY <1>1, <1>5, CompletedLevels
<1>6. CASE \/ Tick \/ FiringSkipped \/ UNCHANGED vars
           \/ \E r \in Row \ arrived : Arrive(r)
           \/ \E s \in Closed, level \in scene.levels : Rescore(s, level)
           \/ \E id \in scene.ids : Trigger(id) \/ Fire(id)
           \/ ConfigFails \/ BrandFails \/ SkipRun
           \/ (EndRun /\ run.failed) \/ WatermarkFails \/ Crash
  BY <1>1, <1>6, OtherLevels
<1> QED
  BY <1>2, <1>3, <1>4, <1>5, <1>6 DEF Next

\* It holds at the start: the tables are empty.
LEMMA InitLevels == Init => LevelInv
<1> SUFFICES ASSUME Init
             PROVE  LevelInv
  OBVIOUS
<1>1. run = None /\ table = [stage \in ToSet(Stages) |-> {}] /\ proc.last = None
  BY DEF Init
<1>2. {"products", "intent", "heatmap"} \subseteq ToSet(Stages)
  BY DEF ToSet, Stages
<1>3. table["products"] = {} /\ table["intent"] = {} /\ table["heatmap"] = {}
  BY <1>1, <1>2
<1>4. Supported /\ SoundMatched
  BY <1>3 DEF Supported, SoundMatched, Matched, Matches
<1>5. CopyOfWindow /\ TornWindow /\ RunMatched /\ RunSettled /\ LastSettled
  BY <1>1 DEF CopyOfWindow, TornWindow, RunMatched, RunSettled, LastSettled
<1> QED
  BY <1>1, <1>4, <1>5 DEF LevelInv

\* The invariant of the levels, on top of the others.
THEOREM LevelInvariant == Spec => []LevelInv
<1>1. Init => LevelInv
  BY InitLevels
<1>2. RollupInv /\ LevelInv /\ [Next]_vars => LevelInv'
  BY LevelStep
<1> QED
  BY <1>1, <1>2, RollupInvariant, PTL DEF Spec

\* "The levels of a product always add up to its product_behavior_daily row": on
\* days last written by a clean run on a copy, whatever arrives, fails or restarts
\* between the two stages that write them.
THEOREM LevelsAlwaysAddUp == Spec => []LevelsAddUp
<1>1. RollupInv /\ LevelInv => LevelsAddUp
  <2> SUFFICES ASSUME RollupInv, LevelInv
               PROVE  LevelsAddUp
    OBVIOUS
  <2>1. SoundMatched /\ TypeOK
    BY DEF RollupInv, Framed, LevelInv
  <2>2. ASSUME NEW stage \in {"products", "intent"}, NEW f \in table[stage], f.day \notin hist.torn
        PROVE  Matches(table["products"], table["intent"], f.day)
    <3>1. stage \in ToSet(Stages)
      BY DEF ToSet, Stages
    <3>2. f.day \in Days(0, clock)
      BY <2>1, <2>2, <3>1 DEF TypeOK
    <3>3. f.day \in Nat
      BY <2>1, <3>2, SceneTyped, DayMono, DayZero DEF Days
    <3> QED
      BY <2>1, <2>2, <3>3 DEF SoundMatched, Matched
  <2> DEFINE at(f, basis) == {g \in table["intent"] : g.day = f.day /\ g.of = f.of
                                                        /\ g.key[1] = basis /\ g.key[3] = f.key}
  <2>3. ASSUME NEW f \in table["products"], f.day \notin hist.torn, NEW basis \in {"behavior", "score"}
        PROVE  Cardinality(at(f, basis)) = 1
    <3>1. Matches(table["products"], table["intent"], f.day)
      BY <2>2, <2>3
    <3>2. PICK g : at(f, basis) = {g}
      BY <2>3, <3>1 DEF Matches
    <3> HIDE DEF at
    <3> QED
      BY <3>2, FS_Singleton
  <2>4. ASSUME NEW g \in table["intent"], g.day \notin hist.torn
        PROVE  ProductOf(g) \in {f \in table["products"] : f.day \notin hist.torn}
    <3>1. ProductOf(g) \in table["products"]
      BY <2>2, <2>4 DEF Matches
    <3> QED
      BY <2>4, <3>1 DEF ProductOf
  <2> QED
    BY <2>3, <2>4 DEF LevelsAddUp, ProductOf
<1> QED
  BY <1>1, RollupInvariant, LevelInvariant, PTL

\* After a complete run with nothing new since it began, the levels of its window,
\* and the heatmap's of its lookback, are those a run would compute now.
THEOREM LevelsAlwaysSettle == Spec => []LevelsSettle
<1>1. LevelInv => LevelsSettle
  <2> SUFFICES ASSUME LevelInv, run = None, proc.last # None, hist.quiet,
                      NEW dates, dates = proc.last.dates,
                      NEW days, days = StageDates("heatmap", dates) \cup Extended(dates, HeatmapLookback)
               PROVE  /\ At("heatmap", days) = HeatmapFacts(On(arrived, days), Closed, score, TRUE)
                      /\ At("intent", dates) = IntentFacts(On(arrived, dates), Closed, score)
    BY DEF LevelsSettle
  <2>1. IntentSettled(dates) /\ HeatmapSettled(dates)
    BY DEF LevelInv, LastSettled
  <2>2. days = Extended(dates, HeatmapLookback)
    BY DEF StageDates
  <2> QED
    BY <2>1, <2>2 DEF IntentSettled, HeatmapSettled
<1> QED
  BY <1>1, LevelInvariant, PTL

=============================================================================
