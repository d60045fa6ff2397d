------------------------------ MODULE MC_Rollups ------------------------------
(* Scenes for TLC: the rows that may come, each at any time from its own on. *)
EXTENDS Rollups

View == [kind |-> "events", row |-> "e1", time |-> 0, session |-> "s1", name |-> "page_viewed",
         path |-> <<"products", "7", "">>, device |-> "mobile", products |-> <<"p1">>, cut |-> FALSE]
Cart == [View EXCEPT !.row = "e2", !.name = "checkout_started", !.path = <<>>,
                     !.products = <<"p1", "p2", "p3">>, !.cut = TRUE]
Click == [kind |-> "clicks", row |-> "c1", time |-> 1, path |-> <<"products", "9">>, tag |-> "input",
          href |-> <<>>, value |-> "typed"]
Visit == [kind |-> "sessions", row |-> "s1", id |-> 1, time |-> 0, opener |-> "e1", trail |-> <<"view", "view", "cart">>,
          ms |-> 9000, clicks |-> 1, scrolls |-> 1, carts |-> 1, checkouts |-> 1]

Scene(rows, levels, until) ==
  [rows |-> rows, ids |-> {}, selfRun |-> TRUE, levels |-> levels, until |-> until]

MCScenes ==
  << Scene({View, Click}, {}, 4),
     Scene({[View EXCEPT !.time = 1], [Cart EXCEPT !.time = 2], [Visit EXCEPT !.time = 1]}, {"bot"}, 2),
     Scene({View, Visit, [Click EXCEPT !.time = 0],
            [Visit EXCEPT !.row = "s2", !.id = 2, !.opener = "c1", !.scrolls = 0, !.clicks = 0]},
           {"high"}, 0),
     [Scene({View}, {}, 0) EXCEPT !.ids = {"m1", "m2"}],
     [Scene({View}, {}, 1) EXCEPT !.ids = {"m1", "m2"}, !.selfRun = FALSE] >>
=============================================================================
