---------------------------- MODULE MC_IntentScoring ----------------------------
(* Visitor histories for TLC. *)
EXTENDS IntentScoring, TLC

Plain == [pages |-> <<"home">>, pageUA |-> "human", clickUA |-> None, events |-> 6, clicks |-> 0,
          dead |-> 0, useful |-> 0, products |-> 0, views |-> 1, scrolls |-> 2, carts |-> 0,
          checkouts |-> 0, ms |-> 40000, actor |-> "a", start |-> 0]

\* 36.22815 points, in the medium bucket of the fixed thresholds, stored as 36.23:
\* once that is a percentile of its day, above its own score.
Busy == [Plain EXCEPT !.pages = <<"collection", "pdp">>, !.products = 1, !.views = 3, !.useful = 4,
                      !.scrolls = 4, !.clicks = 12, !.dead = 3, !.ms = 40040]
\* 47.7813 points, in the medium bucket until its day is calibrated.
Keen == [Busy EXCEPT !.products = 2, !.clicks = 4, !.carts = 1, !.ms = 40080]
Crawler == [Plain EXCEPT !.pageUA = None, !.clickUA = "bot", !.clicks = 1]
Glance == [Plain EXCEPT !.pages = <<>>, !.events = 1, !.ms = 0, !.scrolls = 0]

Of(v, actor, start) == [v EXCEPT !.actor = actor, !.start = start]

SameContainers == Permutations(Containers)

MCVisits ==
  << <<Of(Busy, "a", 0), Of(Keen, "a", 0)>>,
     <<Of(Crawler, "b", 0)>>, <<Of(Glance, "b", 1)>> >>
=============================================================================
