---------------------------- MODULE ImageLifecycle ----------------------------
(***************************************************************************)
(* What the image reconciler promises about one image's life, without the *)
(* queue, the workers, snapshots or failures: spec sections 3 and 4 read   *)
(* as a state machine over the image's status, its deletion mark and       *)
(* whether its backend volume exists.                                      *)
(*                                                                         *)
(*   - an id is used once; a purged image never comes back;                *)
(*   - a volume is created only for an image that is still Pending, and    *)
(*     removed only once the image is marked deleted;                      *)
(*   - an image becomes Available only while its volume exists, and never  *)
(*     goes back to Pending;                                               *)
(*   - the deletion mark is never cleared, and an image leaves the store   *)
(*     only when no volume of it is left.                                  *)
(***************************************************************************)
EXTENDS FiniteSets, Functions, TLC

CONSTANT Ids

VARIABLES
  images,   \* the live images: id -> [state, deleted, volume]
  retired   \* ids whose image was purged

vars == <<images, retired>>

Rec == [state : {"Pending", "Available"}, deleted : BOOLEAN, volume : BOOLEAN]

LifecycleTypeOK ==
  /\ DOMAIN images \subseteq Ids
  /\ \A i \in DOMAIN images : images[i] \in Rec
  /\ retired \subseteq Ids

Init == images = <<>> /\ retired = {}

\* Set field f of image i to v.
Set(i, f, v) == images' = [images EXCEPT ![i][f] = v]

Submit(i) ==
  /\ i \notin DOMAIN images \cup retired
  /\ images' = images @@ (i :> [state |-> "Pending", deleted |-> FALSE,
                                volume |-> FALSE])
  /\ UNCHANGED retired

Delete(i) ==
  /\ i \in DOMAIN images
  /\ ~images[i].deleted
  /\ Set(i, "deleted", TRUE)
  /\ UNCHANGED retired

\* The volume is created, for an image that is not Available yet.
Provision(i) ==
  /\ i \in DOMAIN images
  /\ images[i].state = "Pending"
  /\ ~images[i].volume
  /\ Set(i, "volume", TRUE)
  /\ UNCHANGED retired

MarkAvailable(i) ==
  /\ i \in DOMAIN images
  /\ images[i].state = "Pending"
  /\ images[i].volume
  /\ Set(i, "state", "Available")
  /\ UNCHANGED retired

Deprovision(i) ==
  /\ i \in DOMAIN images
  /\ images[i].deleted
  /\ images[i].volume
  /\ Set(i, "volume", FALSE)
  /\ UNCHANGED retired

\* The image leaves the store; an image with no finalizer yet may be purged
\* by Delete itself, without being marked first.
Purge(i) ==
  /\ i \in DOMAIN images
  /\ ~images[i].volume
  /\ images' = Restrict(images, DOMAIN images \ {i})
  /\ retired' = retired \cup {i}

Next ==
  \E i \in Ids :
    \/ Submit(i) \/ Delete(i) \/ Provision(i) \/ MarkAvailable(i)
    \/ Deprovision(i) \/ Purge(i)

Spec == Init /\ [][Next]_vars
=============================================================================
