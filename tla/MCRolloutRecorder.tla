--------------------------- MODULE MCRolloutRecorder ---------------------------
(***************************************************************************)
(* Small instances of RolloutRecorder.                                     *)
(***************************************************************************)
EXTENDS RolloutRecorder

Kind(paginated, inherited) == [paginated |-> paginated, inherited |-> inherited]

(* Paginated threads, one of them a child with an inherited record; and a  *)
(* thread of the legacy mode.                                              *)
PaginatedKinds == {Kind(TRUE, 0), Kind(TRUE, 1)}
LegacyOnly == {Kind(FALSE, 0)}
=============================================================================
