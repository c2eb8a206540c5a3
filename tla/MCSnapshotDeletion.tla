------------------------ MODULE MCSnapshotDeletion ------------------------
(***************************************************************************)
(* Model-checking instance of SnapshotDeletion, with the image specs of    *)
(* MCImageReconciler.                                                      *)
(***************************************************************************)
EXTENDS MCImageReconciler, SnapshotDeletion
=============================================================================
