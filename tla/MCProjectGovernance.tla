------------------------- MODULE MCProjectGovernance -------------------------
(* Constants of the run of ProjectGovernance: one finding of one assessment   *)
(* taken to its application or to its assessment package, or reviews of two   *)
(* findings over sources that are edited once.                                *)
EXTENDS ProjectGovernance, FiniteSets, TLC

CONSTANTS c1, c2, f1, f2, s1, s2, k1, k2

Generation(f, requests) ==
  [findings |-> {f}, contents |-> {s1}, keys |-> {k1, k2}, requests |-> requests, reviews |-> 1,
   codes |-> 2, edits |-> 0, folders |-> 1]

Reviews(k) ==
  [findings |-> {f1, f2}, contents |-> {s1, s2}, keys |-> {k}, requests |-> {"decide", "bulk"},
   reviews |-> 2, codes |-> 0, edits |-> 1, folders |-> 0]

MCSettings ==
  {Generation(f, {"prepare", "configure", "approve", "generate"}) : f \in {f1, f2}}
    \cup {Generation(f, {"prepare", "package"}) : f \in {f1, f2}}
    \cup {Reviews(k) : k \in {k1, k2}}

\* Clients, findings and row keys are interchangeable.
Alike == Permutations({c1, c2}) \cup Permutations({f1, f2}) \cup Permutations({k1, k2})
=============================================================================
