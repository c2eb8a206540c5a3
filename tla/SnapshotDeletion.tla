--------------------------- MODULE SnapshotDeletion ---------------------------
(***************************************************************************)
(* The image reconciler with snapshots that can be deleted from the store. *)
(* Nothing in this repository deletes a snapshot, but the snapshot store   *)
(* offers Delete, and createImageFromSnapshot has a branch for a snapshot  *)
(* that is not found (image_controller.go:446-454).  That branch logs      *)
(* snapshot.ID of the nil snapshot Get returned, which panics; nothing in  *)
(* processNextWorkItem recovers, so the whole process stops.               *)
(***************************************************************************)
EXTENDS ImageReconciler

VARIABLE panicked   \* a worker goroutine dereferenced a nil pointer

varsSD == <<vars, panicked>>

\* Someone outside the reconciler deletes snapshot d from the store.
DeleteSnapshot(d) ==
  /\ d \in DOMAIN snap
  /\ snap' = Without(snap, d)
  /\ snapEvents' = snapEvents \ {d}
  /\ UNCHANGED <<img, created, registry, vol, imgEvents, retags, crashes, failures>>
  /\ UNCHANGED workerVars /\ UNCHANGED queueVars

(***************************************************************************)
(* createImageFromSnapshot, snapshots.Get answering ErrNotFound: the log   *)
(* call at line 453 reads snapshot.ID with snapshot = nil.                 *)
(***************************************************************************)
SnapshotNotFound(w) ==
  /\ pc[w] = "cloneGet"
  /\ loc[w].ref \notin DOMAIN snap
  /\ panicked' = TRUE
  /\ UNCHANGED vars

InitSD == Init /\ panicked = FALSE

\* After a panic no goroutine of the process runs any more.
NextSD ==
  /\ ~panicked
  /\ \/ Next /\ UNCHANGED panicked
     \/ \E d \in Digests : DeleteSnapshot(d) /\ UNCHANGED panicked
     \/ \E w \in Workers : SnapshotNotFound(w)

SpecSD == InitSD /\ [][NextSD]_varsSD

(***************************************************************************)
(* reconcileImage never panics: an image whose SnapshotRef names a         *)
(* snapshot that is gone is handled (the code means to log and return      *)
(* "not ready", lines 452-455) instead of crashing the reconciler.         *)
(***************************************************************************)
NoPanic == ~panicked
=============================================================================
