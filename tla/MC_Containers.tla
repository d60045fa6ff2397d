----------------------------- MODULE MC_Containers -----------------------------
(* The four files of migrations/, columns of a kind as one, for TLC. *)
EXTENDS Containers

MCMigrations ==
  << [adds |-> <<{"cursors"}, {"dedupe"}>>, tolerant |-> TRUE, requires |-> FALSE],
     [adds |-> <<{"key"}>>, tolerant |-> FALSE, requires |-> FALSE],
     [adds |-> <<{"events.utm"}, {"clicks.utm"}>>, tolerant |-> FALSE, requires |-> TRUE],
     [adds |-> <<{"first"}>>, tolerant |-> FALSE, requires |-> TRUE] >>

MCNeeds == [utm |-> {"events.utm", "clicks.utm"}, first |-> {"first"}]

Scene(objects, files, supported, messages, until) ==
  [schema |-> objects, recorded |-> files, supported |-> supported, rebuild |-> FALSE,
   messages |-> messages, until |-> until]

\* A new database; an old server with 001 and 002; one with them by hand; all in place.
MCScenes ==
  { Scene({}, {}, TRUE, 1, 0),
    Scene({"cursors", "dedupe", "key"}, {1, 2}, FALSE, 2, 1),
    [Scene({"cursors", "dedupe", "key"}, {}, FALSE, 1, 0) EXCEPT !.rebuild = TRUE],
    Scene({"cursors", "dedupe", "key", "events.utm", "clicks.utm", "first"}, 1 .. 4, TRUE, 2, 1) }
=============================================================================
