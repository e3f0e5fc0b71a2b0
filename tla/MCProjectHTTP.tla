---------------------------- MODULE MCProjectHTTP -----------------------------
(* A client polls and cancels the job of one request while the Workbench    *)
(* may shut down; two requests compete while it may; or two clients read    *)
(* the project, three times in all, while others analyse and check it.     *)
EXTENDS ProjectHTTP, TLC

CONSTANTS p1, p2, c1, d1, d2

Asking(first, second) == (p1 :> first) @@ (p2 :> second)

Polled == [posts |-> Asking(Operation, {}), polls |-> TRUE, closes |-> TRUE, reads |-> FALSE, trouble |-> TRUE]
Competing == [posts |-> Asking({"analyze"}, Operation), polls |-> FALSE, closes |-> TRUE, reads |-> FALSE, trouble |-> FALSE]
Read == [posts |-> Asking({}, {}), polls |-> FALSE, closes |-> FALSE, reads |-> TRUE, trouble |-> FALSE]
MCSituations == {Polled, Competing, Read}
=============================================================================
