----------------------------- MODULE ScoreFormulas -----------------------------
(***************************************************************************)
(* The arithmetic of intent_engine: from what a closed session holds to its *)
(* score and its two buckets, and from a day's scores to that day's         *)
(* thresholds.  Scores are integers in 10^-5 points before they are stored  *)
(* and in hundredths (DECIMAL(5, 2)) afterwards; no visit is meant to fall  *)
(* on a tie, which Python rounds by the binary value.  A visit is           *)
(* a member of Visit: its page types in the order seen, the agents of page  *)
(* events and clicks, counts, and its duration in ms, a multiple of 40.     *)
(***************************************************************************)
EXTENDS Integers, Sequences, FiniteSets, FiniteSetsExt

CONSTANTS
  MinCalibrated,  \* MIN_SESSIONS_FOR_PERCENTILE_CALIBRATION, 500 in the code
  None            \* NULL

Visit ==
  [pages : Seq({"checkout", "pdp", "collection", "home", "other"}),
   pageUA : {"human", "bot", None}, clickUA : {"human", "bot", None},
   events : Nat, clicks : Nat, dead : Nat, useful : Nat, products : Nat, views : Nat,
   scrolls : Nat, carts : Nat, checkouts : Nat, ms : Nat, actor : STRING, start : Nat]

ASSUME FormulasAssumption ==
  /\ MinCalibrated \in Nat \ {0}
  /\ None \notin Int
  /\ None \notin {"low", "medium", "high"}

P35Fallback == 2500
P72Fallback == 5500

\* PAGE_TYPE_INTENT_RANK with PAGE_TYPE_MODIFIERS, in percent.
PageRank == <<"checkout", "pdp", "collection", "home", "other">>
Modifier == [checkout |-> 115, pdp |-> 105, collection |-> 95, home |-> 85, other |-> 70]

RoundHalfEven(a, b) ==
  LET q == a \div b
      r == a % b
  IN  IF 2 * r > b \/ (2 * r = b /\ q % 2 = 1) THEN q + 1 ELSE q

-----------------------------------------------------------------------------
(* What a session shows: _build_enrichment, traffic_quality. *)

EntryPage(v) == IF v.pages = <<>> THEN "other" ELSE Head(v.pages)

\* The page events' agent, or the clicks' when no page event carries one.
UserAgent(v) == IF v.pages # <<>> /\ v.pageUA # None THEN v.pageUA ELSE v.clickUA

Bot(v) == UserAgent(v) = "bot"

ZeroSignal(v) == v.events <= 1 /\ v.ms < 1000 /\ v.clicks = 0 /\ v.scrolls = 0

HighestPage(v) ==
  LET seen == { n \in DOMAIN PageRank : \E m \in DOMAIN v.pages : v.pages[m] = PageRank[n] }
  IN  IF seen = {} THEN "other" ELSE PageRank[Min(seen)]

-----------------------------------------------------------------------------
(* The score. *)

\* Capped weighted sum, in thousandths.
RawScore(v) ==
  Min({v.products, 4}) * 11000 + Min({v.useful, 12}) * 2200 + (Min({v.ms, 360000}) * 3) \div 40
    + Min({v.scrolls, 8}) * 1800 + Min({v.views, 6}) * 1500

\* Struggle: more dead clicks than the day's p90 (ten-thousandths, or None).
StrugglePenalty(v, p90) ==
  IF v.clicks >= 10 /\ p90 # None /\ v.dead * 10000 > p90 * v.clicks THEN -12000 ELSE 0

BouncePenalty(v) == IF v.events <= 2 \/ v.ms < 5000 THEN -20000 ELSE 0

PredictiveScore(v, p90) ==
  LET score == (RawScore(v) + StrugglePenalty(v, p90) + BouncePenalty(v))
                 * Modifier[HighestPage(v)]
  IN  Max({0, Min({score, 10000000})})

\* assign_bucket, for a score and cuts in one unit.
AssignBucket(score, p35, p72) ==
  IF score <= 0 \/ score < p35 THEN "low" ELSE IF score < p72 THEN "medium" ELSE "high"

\* apply_hard_overrides.
Override(v, bucket) ==
  IF EntryPage(v) = "checkout" \/ v.checkouts > 0 \/ v.carts > 0 THEN "high" ELSE bucket

-----------------------------------------------------------------------------
(* Thresholds: a day maps to [p35, p72 (hundredths), p90] or to None. *)

FallbackThresholds == [p35 |-> P35Fallback, p72 |-> P72Fallback, p90 |-> None]

\* Mutant: only earlier days count.
EarlierThresholds(thr, day) ==
  LET known == { d \in DOMAIN thr : d < day /\ thr[d] # None }
  IN  IF known = {} THEN FallbackThresholds ELSE thr[Max(known)]

\* get_effective_thresholds: the day's own, else the latest earlier, else fixed.
EffectiveThresholds(thr, day) ==
  LET known == { d \in DOMAIN thr : d <= day /\ thr[d] # None }
  IN  IF known = {} THEN FallbackThresholds ELSE thr[Max(known)]

\* score_sessions for one session: the columns it writes.
ScoreRow(v, t) ==
  LET score == PredictiveScore(v, t.p90)
      bucket == AssignBucket(score, 1000 * t.p35, 1000 * t.p72)
  IN  IF Bot(v) \/ ZeroSignal(v)
      THEN [status |-> "excluded", score |-> None, bucket |-> None, oper |-> None]
      ELSE [status |-> "scored", score |-> RoundHalfEven(score, 1000),
            bucket |-> bucket, oper |-> Override(v, bucket)]

\* Nearest rank among the values of a function, which may repeat.
Percentile(value, pct) ==
  LET rank == RoundHalfEven(pct * (Cardinality(DOMAIN value) - 1), 100)
      below(v) == { x \in DOMAIN value : value[x] < v }
      upTo(v) == { x \in DOMAIN value : value[x] <= v }
  IN  CHOOSE v \in { value[x] : x \in DOMAIN value } :
        Cardinality(below(v)) <= rank /\ rank < Cardinality(upTo(v))

\* compute_dead_click_p90 over the day's visits, as the DECIMAL(6, 4) it is
\* stored in (rounding keeps the order, so it may come first).
DeadClickP90(visit) ==
  LET busy == { x \in DOMAIN visit : visit[x].clicks >= 10 }
      rate(v) == (2 * v.dead * 10000 + v.clicks) \div (2 * v.clicks)
  IN  IF busy = {} THEN None ELSE Percentile([x \in busy |-> rate(visit[x])], 90)

\* calibrate_date_for_brand: thresholds from the day's stored scores.
Calibrated(score, visit) ==
  LET engaged == { x \in DOMAIN score : score[x] > 0 }
      scores == [x \in engaged |-> score[x]]
      p90 == DeadClickP90(visit)
  IN  IF Cardinality(engaged) >= MinCalibrated
      THEN [p35 |-> Percentile(scores, 35), p72 |-> Percentile(scores, 72), p90 |-> p90]
      ELSE [FallbackThresholds EXCEPT !.p90 = p90]
=============================================================================
