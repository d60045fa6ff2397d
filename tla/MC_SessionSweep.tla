--------------------------- MODULE MC_SessionSweep ----------------------------
(* The logs the writer and the sweep are run on.                            *)
EXTENDS SessionSweep, MC_SessionWriter

\* Visitors who come back or not, around the time a sweep would close them; one
\* of them with a time in the future.
SweptLogs ==
  {[i \in 1 .. 4 |-> [id |-> i, actor |-> a[i], product |-> NoProduct, at |-> t[i]]] :
     a \in {<<"ann", "bob", "cyd", "ann">>, <<"ann", "bob", "ann", "cyd">>},
     t \in {u \in [1 .. 4 -> {0, 2, 3, 6}] :
              u[1] = 0 /\ \A i, j \in 1 .. 4 : i < j => u[i] <= u[j] + Tolerance}
           \cup {<<0, 9, 2, 2>>, <<0, 9, 2, 3>>, <<9, 0, 2, 6>>}}

SessionLogs == RetriedLogs \cup LateLogs \cup RejectedLogs \cup SweptLogs
=============================================================================
