--------------------------- MODULE MCProjectMirror ---------------------------
(* One opener and two publishers, which may relink one after the other. *)
EXTENDS ProjectMirror, TLC

CONSTANTS o1, p1, p2, r1, r2, v1, v2

MCOneOpener == {o1}
MCOneRevision == {v1}
MCPublisher == {p1, p2}
MCRoots == {r1, r2}
=============================================================================
