-------------------------- MODULE MC_IntentIngest --------------------------
(* Small instances of IntentIngest: the logs its runs read. *)
EXTENDS IntentIngest, TLC

CONSTANTS p1, p2, b1, b2, a1, a2, a3

\* A log as a function of the record, from one sequence per partition.
LogOf(field) ==
  [r \in Record |-> IF r[1] = p1 THEN field[1][r[2] + 1] ELSE field[2][r[2] + 1]]

\* Two brands; a record MySQL refuses and a poison record, each before or
\* behind a healthy one of the same partition.
MixedKind  == LogOf(<< <<"rejected", "good">>, <<"good", "poison">> >>)
MixedBrand == LogOf(<< <<b1, b1>>, <<b2, b1>> >>)
MixedActor == LogOf(<< <<a1, a1>>, <<a2, a3>> >>)

\* Two actors, of whom one may have its cursor row refused, and a control
\* record between their messages.
SharedKind  == [r \in Record |-> <<"good", "control", "good">>[r[2] + 1]]
SharedBrand == [r \in Record |-> b1]
SharedActor == [r \in Record |-> <<a1, a1, a2>>[r[2] + 1]]

\* One partition of three records, for two workers.
LoneKind  == [r \in Record |-> <<"rejected", "good", "poison">>[r[2] + 1]]
LoneBrand == [r \in Record |-> b1]
LoneActor == [r \in Record |-> a1]

=============================================================================
