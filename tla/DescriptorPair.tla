---------------------------- MODULE DescriptorPair ----------------------------
(***************************************************************************)
(* What a project store promises about its descriptor and the readable     *)
(* copy of it, project.json, to whoever opens the project.  A publication  *)
(* changes both in one step; only the roots or only the analysis revision  *)
(* change.  The copy leaves the database behind, or gets ahead of it, only *)
(* by a disturbance: somebody edits the file, the file system refuses it,  *)
(* or the publisher stops half way.  ProjectMirror implements this.        *)
(***************************************************************************)
CONSTANTS
  Roots,      \* values of the descriptor's source_roots
  Revision,   \* values of its analysis_revision, none yet included
  Unusable    \* contents of project.json that are no descriptor of this project

Descriptor == [roots : Roots, revision : Revision]

VARIABLES
  database,   \* the committed descriptor
  mirror,     \* what project.json says
  disturbed   \* the copy may differ: not restored since the last disturbance

vars == <<database, mirror, disturbed>>

Init ==
  /\ database \in Descriptor
  /\ mirror = database
  /\ disturbed = FALSE

\* One part of the descriptor changes, the other stays as it is.
Change(d) ==
  /\ d \in Descriptor
  /\ d.roots = database.roots \/ d.revision = database.revision
  /\ database' = d

Publish ==
  /\ \E d \in Descriptor : Change(d) /\ mirror' = d
  /\ disturbed' = FALSE

\* The copy could not be written: the database is still right.
PublishAlone ==
  /\ \E d \in Descriptor : Change(d)
  /\ mirror' = mirror
  /\ disturbed' = TRUE

Disturb ==
  /\ mirror' \in Descriptor \cup Unusable
  /\ disturbed' = TRUE
  /\ database' = database

Repair ==
  /\ mirror' = database
  /\ disturbed' = FALSE
  /\ database' = database

Next == Publish \/ PublishAlone \/ Disturb \/ Repair

Spec == Init /\ [][Next]_vars

\* Left undisturbed, the two never differ.
Consistent == ~disturbed => mirror = database
=============================================================================
