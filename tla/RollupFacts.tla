------------------------------ MODULE RollupFacts ------------------------------
(***************************************************************************)
(* What each rollup of pipeline/rollups.py counts.  A rollup is a GROUP BY: *)
(* here it is the set of facts [day, key, of] it is computed from, a row of *)
(* the rollup table for each day and key, its counts the facts that share   *)
(* them.  Raw rows are records, told apart by their "row":                  *)
(*   events   [kind, row, time, session, name, path, device, products, cut] *)
(*   clicks   [kind, row, time, path, tag, href, value]                     *)
(*   sessions [kind, row, id, time (of the start), opener (its first event  *)
(*             or click), trail, ms, clicks, scrolls, carts, checkouts]     *)
(***************************************************************************)
EXTENDS Integers, Sequences, FiniteSets, FiniteSetsExt, SequencesExt

CONSTANTS
  DayLen,          \* ticks per day
  MaxSteps,        \* SEQUENCE_MAX_STEPS
  MaxPerDate,      \* ROLLUP_MAX_SESSIONS_PER_DATE
  Ids              \* path segments that are numbers, UUIDs or hex strings

DayOf(t) == t \div DayLen

Fact(r, key, of) == [day |-> DayOf(r.time), key |-> key, of |-> of]

-----------------------------------------------------------------------------
(* Normalisation *)

\* _normalize_page_path: a path is its segments; a trailing slash is an empty
\* one.  Numeric, UUID and hex segments become ":id".
NormalPath(path) ==
  LET whole == IF path # <<>> /\ Last(path) = "" THEN Front(path) ELSE path
  IN  [n \in DOMAIN whole |-> IF whole[n] \in Ids THEN ":id" ELSE whole[n]]

\* _normalize_click_target: what a visitor types is not part of the target.
ClickTarget(c) ==
  <<c.tag, NormalPath(c.href), IF c.tag \in {"input", "textarea", "select"} THEN "" ELSE c.value>>

\* A single product, or _parse_cart_products: each product of the list once, but
\* not the last of a list that the column cut short.
ProductsOf(e) == ToSet(IF e.cut THEN Front(e.products) ELSE e.products)

\* _compute_sequence_path: repeats collapsed, then cut.
CollapsedPath(trail) ==
  LET kept == { n \in DOMAIN trail : n = 1 \/ trail[n] # trail[n - 1] }
      at(m) == CHOOSE n \in kept : Cardinality({ k \in kept : k <= n }) = m
  IN  [m \in 1 .. Min({Cardinality(kept), MaxSteps}) |-> trail[at(m)]]

\* _BEHAVIOR_LEVEL_EXPR and _SCORE_LEVEL_EXPR, for a closed session and what
\* scoring has written for it.
BehaviorLevel(s, score) ==
  CASE score = "bot" -> "unclassified"
    [] s.ms < 5000 \/ (s.clicks = 0 /\ s.scrolls = 0) -> "low"
    [] s.clicks > 0 /\ (s.carts > 0 \/ s.checkouts > 0) -> "high"
    [] OTHER -> "medium"

ScoreLevel(score) == IF score \in {"low", "medium", "high"} THEN score ELSE "unclassified"

-----------------------------------------------------------------------------
(* The stages, over the events, clicks and closed sessions they read. *)

Events(rows) == { r \in rows : r.kind = "events" }
Clicks(rows) == { r \in rows : r.kind = "clicks" }
Sessions(rows) == { r \in rows : r.kind = "sessions" }

\* intent_daily_summary: closed sessions by the day they began, and among those
\* that began the open ones.
SummaryFacts(rows, open) ==
  { Fact(s, "closed", s.row) : s \in Sessions(rows) }
    \cup { Fact(s, "started", s.row) : s \in Sessions(rows) \cup open }

\* page_behavior_daily: events without a url are left out, clicks never are.
PageFacts(rows) ==
  { Fact(r, NormalPath(r.path), r.row) : r \in { e \in Events(rows) : e.path # <<>> } \cup Clicks(rows) }

ClickFacts(rows) == { Fact(c, <<NormalPath(c.path), ClickTarget(c)>>, c.row) : c \in Clicks(rows) }

ProductFacts(rows) ==
  UNION { { Fact(e, p, e.row) : p \in ProductsOf(e) } : e \in Events(rows) }

\* product_intent_daily joins each event with the row of its session, if any.
IntentFacts(rows, sessions, score) ==
  LET mine(e) == { s \in sessions : s.row = e.session }
      level(e, basis) ==
        IF mine(e) = {} THEN "unclassified"
        ELSE LET s == CHOOSE t \in mine(e) : TRUE
             IN  IF basis = "behavior" THEN BehaviorLevel(s, score[s.row]) ELSE ScoreLevel(score[s.row])
  IN  UNION { { Fact(e, <<basis, level(e, basis), p>>, e.row) :
                  basis \in {"behavior", "score"}, p \in ProductsOf(e) } : e \in Events(rows) }

\* behavioral_path_daily reads the sessions of a day by (start, id) up to a cap.
PathFacts(rows) ==
  LET before(s) == { t \in Sessions(rows) : /\ DayOf(t.time) = DayOf(s.time)
                                            /\ t.time < s.time \/ (t.time = s.time /\ t.id < s.id) }
  IN  { Fact(s, CollapsedPath(s.trail), s.row) :
          s \in { t \in Sessions(rows) : Cardinality(before(t)) < MaxPerDate } }

\* heatmap_page_daily: page views by page and device and, unless that read
\* fails, the sessions behind them by level.
HeatmapFacts(rows, sessions, score, levels) ==
  LET views == { e \in Events(rows) : e.name = "page_viewed" /\ e.path # <<>> }
      page(e) == <<NormalPath(e.path), e.device>>
      level(e) == { BehaviorLevel(s, score[s.row]) : s \in { t \in sessions : t.row = e.session } }
  IN  { Fact(e, page(e), <<e.row, "view">>) : e \in views }
        \cup IF levels
             THEN UNION { { Fact(e, page(e), <<e.session, l>>) : l \in level(e) \ {"unclassified"} } : e \in views }
             ELSE {}
=============================================================================
