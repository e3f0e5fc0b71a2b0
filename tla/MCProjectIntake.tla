--------------------------- MODULE MCProjectIntake ---------------------------
(* Constants of the run of ProjectIntake and ProjectMigration: the default    *)
(* directory with and without accounts, two requests of different content for *)
(* the same chosen directory, and an older session imported into one project. *)
EXTENDS ProjectMigration

CONSTANTS user, chosen, s1, s2

Default == [actor |-> user, dest |-> None, source |-> s1]
Chosen(s) == [actor |-> user, dest |-> chosen, source |-> s]
MCRequest == {Default, Chosen(s1), Chosen(s2)}

Scenario(managed, requests, relinks, projects, target) ==
  [managed |-> managed, requests |-> requests, relinks |-> relinks, projects |-> projects,
   target |-> target]

MCSettings ==
  {Scenario(m, {Default}, Source, 2, None) : m \in BOOLEAN}
    \cup {Scenario(FALSE, {Chosen(s1), Chosen(s2)}, {}, 2, None),
          Scenario(TRUE, {Default}, {}, 1, 1)}
=============================================================================
