--------------------------- MODULE MC_SessionWriter ---------------------------
(* The logs the writer is run on.                                           *)
EXTENDS SessionWriter

\* n different messages: the i-th has event id i.
Different(n, actors, products, times) ==
  {[i \in 1 .. n |-> [id |-> i, actor |-> f[i][1], product |-> f[i][2], at |-> f[i][3]]] :
     f \in [1 .. n -> actors \X products \X times]}

\* Or n - 1, one of which the producer's retry has published twice.
WithRetry(n, actors, products, times) ==
  Different(n, actors, products, times) \cup
    UNION {{Append(l, l[k]) : k \in 1 .. n - 1} : l \in Different(n - 1, actors, products, times)}

\* No two add-to-carts of one actor.
OneAtc(l) ==
  \A i, j \in 1 .. Len(l) :
    /\ l[i].product # NoProduct
    /\ l[j].product # NoProduct
    /\ l[i].actor = l[j].actor
    => l[i].id = l[j].id

\* One session or several, and a message that is published twice.
RetriedLogs ==
  {l \in WithRetry(4, {"ann"}, {NoProduct, "shoe"}, {0, 1, 3}) : OneAtc(l) /\ l[1].at # 3}
    \cup {l \in WithRetry(3, {"ann", NoActor}, {NoProduct, "shoe"}, {0, 3}) : OneAtc(l)}

\* Several add-to-carts of one product, and too late messages among them.
LateLogs ==
  {[i \in 1 .. 4 |-> [id |-> i, actor |-> "ann", product |-> p[i], at |-> t[i]]] :
     p \in {<<"shoe", NoProduct, "shoe", "shoe">>},
     t \in {u \in [1 .. 4 -> {0, 2, 5}] : ~(\A i \in 1 .. 3 : u[i] <= u[i + 1])}}

\* Events of two actors, 5 and 6 of them add-to-carts; MySQL refuses 6 alone,
\* the cursor of whoever saw 8, the closed session of whoever saw 7.
RejectedLogs ==
  {[i \in 1 .. 4 |-> [id |-> n[i], actor |-> a[i], at |-> t[i],
                      product |-> IF n[i] \in {5, 6} THEN "shoe" ELSE NoProduct]] :
     n \in {<<1, 6, 8, 5>>, <<1, 7, 6, 5>>, <<8, 1, 7, 5>>},
     a \in [1 .. 4 -> {"ann", "bob"}] \cup {<<"ann", NoActor, "bob", "ann">>},
     t \in {<<0, 1, 2, 3>>, <<0, 1, 4, 7>>, <<0, 3, 2, 6>>}}

\* An add-to-cart, the same one again a second later, and another event.
DiscardedAtcLogs ==
  {<<[id |-> 1, actor |-> "ann", product |-> "shoe", at |-> 0],
     [id |-> 2, actor |-> "ann", product |-> "shoe", at |-> 1],
     [id |-> 3, actor |-> "ann", product |-> NoProduct, at |-> 3]>>}
=============================================================================
