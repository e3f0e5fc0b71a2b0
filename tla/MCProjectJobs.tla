---------------------------- MODULE MCProjectJobs ----------------------------
(* Two workers, each in a process of its own.  In one situation they        *)
(* analyse, convert and open one folder that is edited, whose content is    *)
(* text (c1) or a binary (c3), while a process dies; in the other they      *)
(* analyse, preview, check and relink two folders of two texts (c1, c2).    *)
EXTENDS ProjectJobs, TLC

CONSTANTS w1, w2, p1, p2, r1, r2, c1, c2, c3

MCWorker == {w1, w2}
MCProcess == {p1, p2}
MCProcOf == (w1 :> p1) @@ (w2 :> p2)

Converting(c) == [requests |-> {"ANALYZE", "CONVERT", "OPEN"}, root |-> r1,
                  disk |-> (r1 :> c) @@ (r2 :> NoContent), contents |-> {c1, c3}, edits |-> 1, crashes |-> 1]
Checking == [requests |-> {"ANALYZE", "DISCOVER", "FRESHNESS", "RELINK"}, root |-> r1,
                disk |-> (r1 :> c1) @@ (r2 :> c2), contents |-> {}, edits |-> 0, crashes |-> 0]
MCSituation == <<Converting(c1), Converting(c3), Checking>>
=============================================================================
