--------------------------- MODULE ImageReconciler ---------------------------
(***************************************************************************)
(* The image reconciler of pkg/controllers/image_controller.go: event      *)
(* handlers that feed a work queue, a pool of workers that run             *)
(* reconcileImage step by step against the image and snapshot stores and  *)
(* the rbd pool, and the environment around them (the submitter that       *)
(* creates and deletes images, the snapshot population pipeline, the       *)
(* registry whose tags may move, and cancellation of the context).         *)
(*                                                                         *)
(* Every store or backend call of reconcileImage is one step of a worker,  *)
(* so the steps of different workers and of the environment interleave at *)
(* exactly the points where the Go code blocks on I/O.  Each such call may *)
(* also fail transiently (TransientError), at most MaxFailures times.      *)
(***************************************************************************)
EXTENDS Naturals, FiniteSets, Functions, TLC

CONSTANTS
  Ids,          \* image ids (assigned by the store, never reused)
  Workers,      \* the worker goroutines (workerSize, image_controller.go:140)
  Sources,      \* symbolic image references (Spec.Image)
  Digests,      \* content digests a reference can resolve to (= snapshot ids)
  Specs,        \* image specs the submitter may create: [src, size, limits]
  SnapSizes,    \* sizes the population pipeline may give a snapshot
  Granularity,  \* allocation granularity of round.OffBytes
  MaxVolSize,   \* largest volume size, for the type invariant
  FailPoints,   \* steps whose call may fail transiently
  LostReplies,  \* write steps whose call may commit and still fail
  MaxFailures,  \* bound on transient failures in a behaviour
  MaxRetags,    \* bound on registry tags being re-pointed
  MaxCrashes,   \* bound on process crashes (each followed by a restart)
  NoSource,     \* Spec.Image = ""
  Nil           \* a nil pointer / absent value

ASSUME Granularity \in Nat \ {0}
ASSUME MaxFailures \in Nat /\ MaxRetags \in Nat /\ MaxCrashes \in Nat
ASSUME NoSource \notin Sources /\ Nil \notin Digests

VARIABLES
  img,          \* image store: partial function Ids -> image record
  created,      \* ids the submitter has used
  snap,         \* snapshot store: partial function Digests -> snapshot record
  registry,     \* registry: Sources -> Digests (what a reference resolves to)
  vol,          \* rbd images of the pool: partial function Ids -> volume
  imgEvents,    \* image Created/Deleted notifications not yet handled
  snapEvents,   \* snapshot ids whose "Updated to Populated" event is pending
  pc,           \* worker program counter
  item,         \* the key a worker is processing
  loc,          \* the worker's in-memory copy of the image (img in reconcileImage)
  dig,          \* the digest a worker resolved in reconcileSnapshot
  ok,           \* the outcome of the worker's reconcileImage so far
  failures,     \* transient failures injected so far
  retags,       \* registry tags moved so far
  crashes,      \* process crashes so far
  dirty, processing, delayed, shuttingDown

WQ == INSTANCE WorkQueue WITH Keys <- Ids

vars == <<img, created, snap, registry, vol, imgEvents, snapEvents,
          pc, item, loc, dig, ok, failures, retags, crashes,
          dirty, processing, delayed, shuttingDown>>
envVars == <<created, registry, retags, crashes>>
workerVars == <<pc, item, loc, dig, ok>>
queueVars == <<dirty, processing, delayed, shuttingDown>>

Pending == "Pending"
Available == "Available"
Populated == "Populated"

(***************************************************************************)
(* The steps of reconcileImage a worker can be at.  "idle" is the blocking *)
(* queue.Get; "finish" is the end of processNextWorkItem.                  *)
(***************************************************************************)
IOSteps == {"get", "delRemove", "delUpdate", "addFin", "resolve",
            "snapCreate", "setRef", "cloneGet", "clone", "resize",
            "create", "limits", "auth", "setAvail"}
PCs == IOSteps \cup {"idle", "finish", "exited"}

\* The calls that change the store or the pool.
WriteSteps == {"delRemove", "delUpdate", "addFin", "snapCreate", "setRef",
               "clone", "resize", "create", "limits", "setAvail"}
ASSUME LostReplies \subseteq WriteSteps

ImageRec == [src : Sources \cup {NoSource}, size : Nat, limits : BOOLEAN,
             ref : Digests \cup {Nil}, fins : BOOLEAN, deleted : BOOLEAN,
             state : {Pending, Available}]
SnapRec == [state : {Pending, Populated}, size : SnapSizes \cup {0}]
\* rbd images are whole allocation units.
VolSizes == {n \in 1..MaxVolSize : n % Granularity = 0}
VolRec == [size : VolSizes, limits : BOOLEAN, from : Digests \cup {Nil}]

IsPartialFn(f, D, R) == DOMAIN f \subseteq D /\ \A x \in DOMAIN f : f[x] \in R

TypeOK ==
  /\ IsPartialFn(img, Ids, ImageRec)
  /\ created \subseteq Ids /\ DOMAIN img \subseteq created
  /\ IsPartialFn(snap, Digests, SnapRec)
  /\ registry \in [Sources -> Digests]
  /\ IsPartialFn(vol, Ids, VolRec)
  /\ imgEvents \subseteq [type : {"Created", "Deleted"}, id : Ids]
  /\ snapEvents \subseteq Digests
  /\ pc \in [Workers -> PCs]
  /\ item \in [Workers -> Ids \cup {Nil}]
  /\ loc \in [Workers -> ImageRec \cup {Nil}]
  /\ dig \in [Workers -> Digests \cup {Nil}]
  /\ ok \in [Workers -> BOOLEAN]
  /\ failures \in 0..MaxFailures /\ retags \in 0..MaxRetags
  /\ crashes \in 0..MaxCrashes
  /\ WQ!WQTypeOK

-----------------------------------------------------------------------------
(***************************************************************************)
(* Helpers for the external collaborators (not under src/).                *)
(***************************************************************************)

\* round.OffBytes: the requested size rounded up to the allocation granularity.
RoundUp(n) == ((n + Granularity - 1) \div Granularity) * Granularity

\* Remove key k from partial function f.
Without(f, k) == Restrict(f, DOMAIN f \ {k})

\* Mutant: Update writes the caller's DeletedAt too, so a stale copy clears it.
StoreUpdateKeepsCallerDeletedAt(i, r) ==
  IF r.deleted /\ ~r.fins
  THEN /\ img' = Without(img, i)
       /\ imgEvents' = imgEvents \cup {[type |-> "Deleted", id |-> i]}
  ELSE /\ img' = [img EXCEPT ![i] = r]
       /\ UNCHANGED imgEvents

(***************************************************************************)
(* images.Update(img) for an image that exists: the store writes the       *)
(* caller's copy but keeps its own deletion timestamp (DeletedAt is set by *)
(* Delete only), and purges an image that is marked deleted and has no     *)
(* finalizer left.  The purge is announced as a Deleted event.             *)
(***************************************************************************)
StoreUpdate(i, r) ==
  LET w == [r EXCEPT !.deleted = img[i].deleted]
  IN  IF w.deleted /\ ~w.fins
      THEN /\ img' = Without(img, i)
           /\ imgEvents' = imgEvents \cup {[type |-> "Deleted", id |-> i]}
      ELSE /\ img' = [img EXCEPT ![i] = w]
           /\ UNCHANGED imgEvents

-----------------------------------------------------------------------------
(***************************************************************************)
(* Worker steps.  MoveTo(w, p) moves worker w on to step p with no error  *)
(* so far (p = "finish" is a successful return of reconcileImage);        *)
(* Error(w) returns an error from reconcileImage.                          *)
(***************************************************************************)
MoveTo(w, p) == /\ pc' = [pc EXCEPT ![w] = p]
                /\ ok' = [ok EXCEPT ![w] = TRUE]
Error(w) == /\ pc' = [pc EXCEPT ![w] = "finish"]
            /\ ok' = [ok EXCEPT ![w] = FALSE]

\* The call answers an error that the state it acts on causes (the volume or
\* snapshot exists, the image is gone); no fault is injected.
Refused(w) == Error(w) /\ UNCHANGED failures

\* The call succeeded.  If it is a write in LostReplies its effect may still
\* be committed while the caller sees an error: a timeout or a lost answer
\* of the store or of the Ceph cluster, counted among the failures.
Go(w, p) ==
  \/ MoveTo(w, p) /\ UNCHANGED failures
  \/ /\ pc[w] \in LostReplies
     /\ failures < MaxFailures
     /\ failures' = failures + 1
     /\ Error(w)

\* Mutant: the SnapshotRef == nil condition of reconcileSnapshot dropped.
AfterFinalizerAlwaysResolve(r) ==
  CASE r.src # NoSource -> "resolve"
    [] r.ref # Nil      -> "cloneGet"
    [] OTHER            -> "create"

\* reconcileImage after the finalizer is in place: reconcileSnapshot runs
\* only for an image with a source and no snapshot reference yet.
AfterFinalizer(r) ==
  CASE r.src # NoSource /\ r.ref = Nil -> "resolve"
    [] r.ref # Nil                     -> "cloneGet"
    [] OTHER                           -> "create"

\* Mutant: the len(Spec.Limits) > 0 branch forgotten.
AfterVolumeNoLimits(r) == "auth"

\* After the volume exists: setImageLimits only if there are limits.
AfterVolume(r) == IF r.limits THEN "limits" ELSE "auth"

\* Mutant: Get hands out a dirty key that another worker still processes.
WorkerGetConcurrent(w, k) ==
  /\ pc[w] = "idle"
  /\ k \in dirty
  /\ processing' = processing \cup {k}
  /\ dirty' = dirty \ {k}
  /\ pc' = [pc EXCEPT ![w] = "get"]
  /\ item' = [item EXCEPT ![w] = k]
  /\ UNCHANGED <<img, snap, vol, imgEvents, snapEvents, loc, dig, ok,
                 failures, delayed, shuttingDown, envVars>>

\* processNextWorkItem: queue.Get hands key k to an idle worker.
WorkerGet(w, k) ==
  /\ pc[w] = "idle"
  /\ WQ!GetKey(k)
  /\ pc' = [pc EXCEPT ![w] = "get"]
  /\ item' = [item EXCEPT ![w] = k]
  /\ UNCHANGED <<img, snap, vol, imgEvents, snapEvents, loc, dig, ok,
                 failures, delayed, shuttingDown, envVars>>

\* Mutant: the worker loop ignores the shutdown signal of queue.Get.
WorkerExitIgnored(w) ==
  /\ pc[w] = "idle"
  /\ WQ!GetShutdown
  /\ pc' = [pc EXCEPT ![w] = "idle"]
  /\ item' = [item EXCEPT ![w] = Nil]
  /\ UNCHANGED <<img, snap, vol, imgEvents, snapEvents, loc, dig, ok,
                 failures, dirty, processing, delayed, shuttingDown, envVars>>

\* processNextWorkItem: queue.Get reports shutdown; the worker goroutine ends.
WorkerExit(w) ==
  /\ pc[w] = "idle"
  /\ WQ!GetShutdown
  /\ pc' = [pc EXCEPT ![w] = "exited"]
  /\ UNCHANGED <<img, snap, vol, imgEvents, snapEvents, item, loc, dig, ok,
                 failures, dirty, processing, delayed, shuttingDown, envVars>>

\* Mutant: deleteImage drops the finalizer before it removes the rbd image.
GetImageFinalizerFirst(w) ==
  LET i == item[w] IN
  /\ pc[w] = "get"
  /\ IF i \notin DOMAIN img
     THEN Go(w, "finish") /\ UNCHANGED loc
     ELSE LET r == img[i] IN
          /\ loc' = [loc EXCEPT ![w] = r]
          /\ Go(w, CASE r.deleted /\ r.fins       -> "delUpdate"
                     [] r.deleted                 -> "finish"
                     [] r.state = Available       -> "finish"
                     [] ~r.fins                   -> "addFin"
                     [] OTHER                     -> AfterFinalizer(r))
  /\ UNCHANGED <<img, snap, vol, imgEvents, snapEvents, item, dig>>

(***************************************************************************)
(* reconcileImage, first call: images.Get.  Not found ends successfully;   *)
(* a deleted image takes the deletion path (which returns at once when the *)
(* finalizer is gone); an Available image is done; otherwise the           *)
(* finalizer is added first unless it is already there.                    *)
(***************************************************************************)
GetImage(w) ==
  LET i == item[w] IN
  /\ pc[w] = "get"
  /\ IF i \notin DOMAIN img
     THEN Go(w, "finish") /\ UNCHANGED loc
     ELSE LET r == img[i] IN
          /\ loc' = [loc EXCEPT ![w] = r]
          /\ Go(w, CASE r.deleted /\ r.fins       -> "delRemove"
                     [] r.deleted                 -> "finish"
                     [] r.state = Available       -> "finish"
                     [] ~r.fins                   -> "addFin"
                     [] OTHER                     -> AfterFinalizer(r))
  /\ UNCHANGED <<img, snap, vol, imgEvents, snapEvents, item, dig>>

\* Mutant: RemoveImage's "not found" treated as an error.
RemoveVolumeStrict(w) ==
  /\ pc[w] = "delRemove"
  /\ IF item[w] \in DOMAIN vol
     THEN vol' = Without(vol, item[w]) /\ Go(w, "delUpdate")
     ELSE Refused(w) /\ UNCHANGED vol
  /\ UNCHANGED <<img, snap, imgEvents, snapEvents, item, loc, dig>>

\* deleteImage: librbd.RemoveImage, where "not found" counts as success.
RemoveVolume(w) ==
  /\ pc[w] = "delRemove"
  /\ vol' = Without(vol, item[w])
  /\ Go(w, "delUpdate")
  /\ UNCHANGED <<img, snap, imgEvents, snapEvents, item, loc, dig>>

\* deleteImage: drop the finalizer and images.Update; "not found" is ignored.
RemoveFinalizer(w) ==
  LET i == item[w]
      r == [loc[w] EXCEPT !.fins = FALSE]
  IN
  /\ pc[w] = "delUpdate"
  /\ loc' = [loc EXCEPT ![w] = r]
  /\ IF i \in DOMAIN img THEN StoreUpdate(i, r) ELSE UNCHANGED <<img, imgEvents>>
  /\ Go(w, "finish")
  /\ UNCHANGED <<snap, vol, snapEvents, item, dig>>

\* Mutant: the finalizer appended to the in-memory copy but never persisted.
AddFinalizerNotPersisted(w) ==
  /\ pc[w] = "addFin"
  /\ loc' = [loc EXCEPT ![w] = [loc[w] EXCEPT !.fins = TRUE]]
  /\ Go(w, AfterFinalizer(loc'[w]))
  /\ UNCHANGED <<img, imgEvents, snap, vol, snapEvents, item, dig>>

\* reconcileImage: append the finalizer and images.Update before any
\* backend mutation; "not found" is an error here.
AddFinalizer(w) ==
  LET i == item[w]
      r == [loc[w] EXCEPT !.fins = TRUE]
  IN
  /\ pc[w] = "addFin"
  /\ loc' = [loc EXCEPT ![w] = r]
  /\ IF i \in DOMAIN img
     THEN StoreUpdate(i, r) /\ Go(w, AfterFinalizer(r))
     ELSE Refused(w) /\ UNCHANGED <<img, imgEvents>>
  /\ UNCHANGED <<snap, vol, snapEvents, item, dig>>

\* reconcileSnapshot: registry.Resolve, then snapshots.Get by digest.
ResolveSource(w) ==
  LET d == registry[loc[w].src] IN
  /\ pc[w] = "resolve"
  /\ dig' = [dig EXCEPT ![w] = d]
  /\ Go(w, IF d \in DOMAIN snap THEN "setRef" ELSE "snapCreate")
  /\ UNCHANGED <<img, snap, vol, imgEvents, snapEvents, item, loc>>

\* Mutant: losing the create race ends reconcileImage as if it succeeded.
CreateSnapshotExistsIsDone(w) ==
  LET d == dig[w] IN
  /\ pc[w] = "snapCreate"
  /\ IF d \in DOMAIN snap
     THEN Go(w, "finish") /\ UNCHANGED snap
     ELSE /\ snap' = snap @@ (d :> [state |-> Pending, size |-> 0])
          /\ Go(w, "setRef")
  /\ UNCHANGED <<img, vol, imgEvents, snapEvents, item, loc, dig>>

\* reconcileSnapshot: snapshots.Create keyed by digest; "already exists"
\* (another worker created it since the Get) is an error.
CreateSnapshot(w) ==
  LET d == dig[w] IN
  /\ pc[w] = "snapCreate"
  /\ IF d \in DOMAIN snap
     THEN Refused(w) /\ UNCHANGED snap
     ELSE /\ snap' = snap @@ (d :> [state |-> Pending, size |-> 0])
          /\ Go(w, "setRef")
  /\ UNCHANGED <<img, vol, imgEvents, snapEvents, item, loc, dig>>

\* Mutant: SnapshotRef recorded on the in-memory copy only.
SetSnapshotRefNotPersisted(w) ==
  /\ pc[w] = "setRef"
  /\ loc' = [loc EXCEPT ![w] = [loc[w] EXCEPT !.ref = dig[w]]]
  /\ Go(w, "cloneGet")
  /\ UNCHANGED <<img, imgEvents, snap, vol, snapEvents, item, dig>>

\* reconcileSnapshot: record SnapshotRef and images.Update.
SetSnapshotRef(w) ==
  LET i == item[w]
      r == [loc[w] EXCEPT !.ref = dig[w]]
  IN
  /\ pc[w] = "setRef"
  /\ loc' = [loc EXCEPT ![w] = r]
  /\ IF i \in DOMAIN img
     THEN StoreUpdate(i, r) /\ Go(w, "cloneGet")
     ELSE Refused(w) /\ UNCHANGED <<img, imgEvents>>
  /\ UNCHANGED <<snap, vol, snapEvents, item, dig>>

\* Mutant: the caller ignores the "not ready" result and carries on.
GetSnapshotIgnoreNotReady(w) ==
  LET d == loc[w].ref IN
  /\ pc[w] = "cloneGet"
  /\ d \in DOMAIN snap
  /\ Go(w, IF snap[d].state = Populated THEN "clone" ELSE AfterVolume(loc[w]))
  /\ UNCHANGED <<img, snap, vol, imgEvents, snapEvents, item, loc, dig>>

(***************************************************************************)
(* createImageFromSnapshot: snapshots.Get; a snapshot that is not yet      *)
(* Populated ends reconcileImage successfully ("not ready").  Nothing in   *)
(* this module deletes a snapshot, so Get always finds it; the not-found   *)
(* branch is SnapshotNotFound of SnapshotDeletion.                         *)
(***************************************************************************)
GetSnapshot(w) ==
  LET d == loc[w].ref IN
  /\ pc[w] = "cloneGet"
  /\ d \in DOMAIN snap
  /\ Go(w, IF snap[d].state = Populated THEN "clone" ELSE "finish")
  /\ UNCHANGED <<img, snap, vol, imgEvents, snapEvents, item, loc, dig>>

\* librbd.CloneImage into a volume named after the image; it fails if that
\* volume already exists.  The clone has the snapshot's size.
CloneVolume(w) ==
  LET i == item[w]
      d == loc[w].ref
  IN
  /\ pc[w] = "clone"
  /\ IF i \in DOMAIN vol
     THEN Refused(w) /\ UNCHANGED vol
     ELSE /\ vol' = vol @@ (i :> [size |-> snap[d].size, limits |-> FALSE, from |-> d])
          /\ Go(w, "resize")
  /\ UNCHANGED <<img, snap, imgEvents, snapEvents, item, loc, dig>>

\* Mutant: Resize to Spec.Size without round.OffBytes.
ResizeVolumeUnrounded(w) ==
  LET i == item[w] IN
  /\ pc[w] = "resize"
  /\ vol' = [vol EXCEPT ![i].size = loc[w].size]
  /\ Go(w, AfterVolume(loc[w]))
  /\ UNCHANGED <<img, snap, imgEvents, snapEvents, item, loc, dig>>

\* OpenImage and Resize of the clone to the rounded spec size, whatever
\* the clone's current size.
ResizeVolume(w) ==
  LET i == item[w] IN
  /\ pc[w] = "resize"
  /\ vol' = [vol EXCEPT ![i].size = RoundUp(loc[w].size)]
  /\ Go(w, AfterVolume(loc[w]))
  /\ UNCHANGED <<img, snap, imgEvents, snapEvents, item, loc, dig>>

\* Mutant: CreateImage with Spec.Size without round.OffBytes.
CreateVolumeUnrounded(w) ==
  LET i == item[w] IN
  /\ pc[w] = "create"
  /\ IF i \in DOMAIN vol
     THEN Refused(w) /\ UNCHANGED vol
     ELSE /\ vol' = vol @@ (i :> [size |-> loc[w].size, limits |-> FALSE, from |-> Nil])
          /\ Go(w, AfterVolume(loc[w]))
  /\ UNCHANGED <<img, snap, imgEvents, snapEvents, item, loc, dig>>

\* createEmptyImage: librbd.CreateImage; it fails if the volume exists.
CreateVolume(w) ==
  LET i == item[w] IN
  /\ pc[w] = "create"
  /\ IF i \in DOMAIN vol
     THEN Refused(w) /\ UNCHANGED vol
     ELSE /\ vol' = vol @@ (i :> [size |-> RoundUp(loc[w].size),
                                  limits |-> FALSE, from |-> Nil])
          /\ Go(w, AfterVolume(loc[w]))
  /\ UNCHANGED <<img, snap, imgEvents, snapEvents, item, loc, dig>>

\* setImageLimits: OpenImage and SetMetadata of every limit.
SetLimits(w) ==
  /\ pc[w] = "limits"
  /\ vol' = [vol EXCEPT ![item[w]].limits = TRUE]
  /\ Go(w, "auth")
  /\ UNCHANGED <<img, snap, imgEvents, snapEvents, item, loc, dig>>

\* fetchAuth: the monitor command that reads the client key.
FetchAuth(w) ==
  /\ pc[w] = "auth"
  /\ Go(w, "setAvail")
  /\ UNCHANGED <<img, snap, vol, imgEvents, snapEvents, item, loc, dig>>

\* Status = Available with the access descriptor, and images.Update.
SetAvailable(w) ==
  LET i == item[w]
      r == [loc[w] EXCEPT !.state = Available]
  IN
  /\ pc[w] = "setAvail"
  /\ loc' = [loc EXCEPT ![w] = r]
  /\ IF i \in DOMAIN img
     THEN StoreUpdate(i, r) /\ Go(w, "finish")
     ELSE Refused(w) /\ UNCHANGED <<img, imgEvents>>
  /\ UNCHANGED <<snap, vol, snapEvents, item, dig>>

\* Mutant: a failed RemoveImage is only logged and the finalizer is
\* removed anyway.
TransientErrorIgnoredOnRemove(w) ==
  /\ pc[w] \in IOSteps \cap FailPoints
  /\ failures < MaxFailures
  /\ failures' = failures + 1
  /\ IF pc[w] = "delRemove" THEN MoveTo(w, "delUpdate") ELSE Error(w)
  /\ UNCHANGED <<img, snap, vol, imgEvents, snapEvents, item, loc, dig>>

\* Any store, registry or backend call of reconcileImage returns an error.
TransientError(w) ==
  /\ pc[w] \in IOSteps \cap FailPoints
  /\ failures < MaxFailures
  /\ failures' = failures + 1
  /\ Error(w)
  /\ UNCHANGED <<img, snap, vol, imgEvents, snapEvents, item, loc, dig>>

\* processNextWorkItem after reconcileImage: AddRateLimited or Forget, Done.
Finish(w) ==
  /\ pc[w] = "finish"
  /\ WQ!Release(item[w], ~ok[w])
  /\ pc' = [pc EXCEPT ![w] = "idle"]
  /\ item' = [item EXCEPT ![w] = Nil]
  /\ loc' = [loc EXCEPT ![w] = Nil]
  /\ dig' = [dig EXCEPT ![w] = Nil]
  /\ ok' = [ok EXCEPT ![w] = TRUE]
  /\ UNCHANGED <<img, snap, vol, imgEvents, snapEvents, failures,
                 dirty, shuttingDown>>

-----------------------------------------------------------------------------
(***************************************************************************)
(* Event handlers registered by Start.                                     *)
(***************************************************************************)

\* Image handler: Updated events are dropped (they are never generated in
\* this model); Created and Deleted enqueue the image id.
ImageEventHandler(e) ==
  /\ e \in imgEvents
  /\ imgEvents' = imgEvents \ {e}
  /\ WQ!AddAll({e.id})
  /\ UNCHANGED <<img, created, snap, registry, vol, snapEvents, retags, crashes, failures,
                 processing, delayed, shuttingDown>>
  /\ UNCHANGED workerVars

\* Snapshot handler on "Updated to Populated": images.List, then enqueue every
\* image whose SnapshotRef is this snapshot.  A List error drops the event.
SnapshotEventHandler(d) ==
  /\ d \in snapEvents
  /\ snapEvents' = snapEvents \ {d}
  /\ \/ WQ!AddAll({i \in DOMAIN img : img[i].ref = d}) /\ UNCHANGED failures
     \/ /\ "list" \in FailPoints
        /\ failures < MaxFailures
        /\ failures' = failures + 1
        /\ UNCHANGED dirty
  /\ UNCHANGED <<img, created, snap, registry, vol, imgEvents, retags, crashes,
                 processing, delayed, shuttingDown>>
  /\ UNCHANGED workerVars

\* The delaying queue's timer for an AddRateLimited key fires.
RetryFires(k) ==
  /\ WQ!FireDelayed(k)
  /\ UNCHANGED <<img, created, snap, registry, vol, imgEvents, snapEvents,
                 retags, crashes, failures, processing, shuttingDown>>
  /\ UNCHANGED workerVars

-----------------------------------------------------------------------------
(***************************************************************************)
(* The environment.                                                        *)
(***************************************************************************)

\* A new image is created in the store; the store announces it.
SubmitImage(i, s) ==
  /\ i \notin created
  /\ img' = img @@ (i :> [src |-> s.src, size |-> s.size, limits |-> s.limits,
                          ref |-> Nil, fins |-> FALSE, deleted |-> FALSE,
                          state |-> Pending])
  /\ created' = created \cup {i}
  /\ imgEvents' = imgEvents \cup {[type |-> "Created", id |-> i]}
  /\ UNCHANGED <<snap, registry, vol, snapEvents, retags, crashes, failures>>
  /\ UNCHANGED workerVars /\ UNCHANGED queueVars

\* images.Delete: an image with a finalizer is only marked deleted.
DeleteImage(i) ==
  /\ i \in DOMAIN img
  /\ ~img[i].deleted
  /\ img' = IF img[i].fins THEN [img EXCEPT ![i].deleted = TRUE]
                           ELSE Without(img, i)
  /\ imgEvents' = imgEvents \cup {[type |-> "Deleted", id |-> i]}
  /\ UNCHANGED <<created, snap, registry, vol, snapEvents, retags, crashes, failures>>
  /\ UNCHANGED workerVars /\ UNCHANGED queueVars

\* The population pipeline fills a snapshot and marks it Populated.
PopulateSnapshot(d, sz) ==
  /\ d \in DOMAIN snap
  /\ snap[d].state = Pending
  /\ snap' = [snap EXCEPT ![d] = [state |-> Populated, size |-> sz]]
  /\ snapEvents' = snapEvents \cup {d}
  /\ UNCHANGED <<img, created, registry, vol, imgEvents, retags, crashes, failures>>
  /\ UNCHANGED workerVars /\ UNCHANGED queueVars

\* A tag in the registry is moved to other content.
Retag(s, d) ==
  /\ retags < MaxRetags
  /\ registry[s] # d
  /\ registry' = [registry EXCEPT ![s] = d]
  /\ retags' = retags + 1
  /\ UNCHANGED <<img, created, snap, vol, imgEvents, snapEvents, failures, crashes>>
  /\ UNCHANGED workerVars /\ UNCHANGED queueVars

\* The context of Start is cancelled; its goroutine shuts the queue down.
Cancel ==
  /\ WQ!ShutDown
  /\ UNCHANGED <<img, created, snap, registry, vol, imgEvents, snapEvents,
                 retags, crashes, failures, dirty, processing, delayed>>
  /\ UNCHANGED workerVars

(***************************************************************************)
(* The process crashes and is restarted.  The work queue, the workers and  *)
(* the notifications not yet handled live in memory and are lost; the      *)
(* stores, the pool and the registry survive.  On restart Start registers  *)
(* its handlers again, and the store's event source (pkg/event, not in     *)
(* this repository) announces every image it holds as Created, the way a  *)
(* list-then-watch source starts; snapshots are announced as Created too,  *)
(* which the snapshot handler ignores.                                     *)
(***************************************************************************)
CrashRestart ==
  /\ ~shuttingDown
  /\ crashes < MaxCrashes
  /\ crashes' = crashes + 1
  /\ pc' = [w \in Workers |-> "idle"]
  /\ item' = [w \in Workers |-> Nil]
  /\ loc' = [w \in Workers |-> Nil]
  /\ dig' = [w \in Workers |-> Nil]
  /\ ok' = [w \in Workers |-> TRUE]
  /\ dirty' = {} /\ processing' = {} /\ delayed' = {}
  /\ imgEvents' = {[type |-> "Created", id |-> i] : i \in DOMAIN img}
  /\ snapEvents' = {}
  /\ UNCHANGED <<img, created, snap, registry, vol, retags, failures,
                 shuttingDown>>

-----------------------------------------------------------------------------
Init ==
  /\ img = <<>> /\ created = {}
  /\ snap = <<>>
  /\ registry \in [Sources -> Digests]
  /\ vol = <<>>
  /\ imgEvents = {} /\ snapEvents = {}
  /\ pc = [w \in Workers |-> "idle"]
  /\ item = [w \in Workers |-> Nil]
  /\ loc = [w \in Workers |-> Nil]
  /\ dig = [w \in Workers |-> Nil]
  /\ ok = [w \in Workers |-> TRUE]
  /\ failures = 0 /\ retags = 0 /\ crashes = 0
  /\ WQ!WQInit

\* One reconcileImage step of worker w (not the queue interactions).
ReconcileStep(w) ==
  /\ \/ GetImage(w) \/ RemoveVolume(w) \/ RemoveFinalizer(w) \/ AddFinalizer(w)
     \/ ResolveSource(w) \/ CreateSnapshot(w) \/ SetSnapshotRef(w)
     \/ GetSnapshot(w) \/ CloneVolume(w) \/ ResizeVolume(w) \/ CreateVolume(w)
     \/ SetLimits(w) \/ FetchAuth(w) \/ SetAvailable(w)
     \/ TransientError(w)
  /\ UNCHANGED <<envVars, dirty, processing, delayed, shuttingDown>>

WorkerNext(w) ==
  \/ \E k \in Ids : WorkerGet(w, k)
  \/ WorkerExit(w)
  \/ ReconcileStep(w)
  \/ Finish(w) /\ UNCHANGED envVars

Environment ==
  \/ \E i \in Ids, s \in Specs : SubmitImage(i, s)
  \/ \E i \in Ids : DeleteImage(i)
  \/ \E d \in Digests, sz \in SnapSizes : PopulateSnapshot(d, sz)
  \/ \E s \in Sources, d \in Digests : Retag(s, d)
  \/ Cancel
  \/ CrashRestart

Next ==
  \/ \E w \in Workers : WorkerNext(w)
  \/ \E e \in imgEvents : ImageEventHandler(e)
  \/ \E d \in snapEvents : SnapshotEventHandler(d)
  \/ \E k \in Ids : RetryFires(k)
  \/ Environment

(***************************************************************************)
(* Fairness.  Worker goroutines and the queue's timer are scheduled by the *)
(* Go runtime and each blocking call returns (transient failures are       *)
(* bounded), so they are weakly fair; the FIFO queue hands every queued    *)
(* key out eventually, which strong fairness of Get per key expresses.     *)
(* Event delivery to the handlers is weakly fair, and so is the external   *)
(* population pipeline (every snapshot is eventually populated).  The      *)
(* submitter, the registry and cancellation are not fair: they may never   *)
(* act.                                                                    *)
(***************************************************************************)
Fairness ==
  /\ \A w \in Workers : WF_vars(ReconcileStep(w) \/ (Finish(w) /\ UNCHANGED envVars))
  /\ \A w \in Workers : WF_vars(WorkerExit(w))
  /\ \A k \in Ids : SF_vars(\E w \in Workers : WorkerGet(w, k))
  /\ \A k \in Ids : WF_vars(RetryFires(k))
  /\ WF_vars(\E e \in imgEvents : ImageEventHandler(e))
  /\ WF_vars(\E d \in snapEvents : SnapshotEventHandler(d))
  /\ WF_vars(\E d \in Digests, sz \in SnapSizes : PopulateSnapshot(d, sz))

Spec == Init /\ [][Next]_vars /\ Fairness

-----------------------------------------------------------------------------
(***************************************************************************)
(* Properties.                                                             *)
(***************************************************************************)

(***************************************************************************)
(* No orphaned rbd volume: every volume in the pool belongs to an image    *)
(* that is still in the store and still carries the finalizer, so a later  *)
(* deletion pass will find and remove it.  This is what adding the         *)
(* finalizer before CreateImage/CloneImage (image_controller.go:351-356)   *)
(* and removing it only after RemoveImage (229-235) are for, and what the  *)
(* queue's one-worker-per-key rule protects.                               *)
(***************************************************************************)
NoOrphanVolume ==
  \A i \in DOMAIN vol : i \in DOMAIN img /\ img[i].fins

(***************************************************************************)
(* An image the store reports Available (and not deleted) has its volume,  *)
(* at least the rounded requested size, with its limits applied: Status is *)
(* written only after every provisioning call of reconcileImage            *)
(* (image_controller.go:369-407) succeeded.                                *)
(***************************************************************************)
AvailableImpliesProvisioned ==
  \A i \in DOMAIN img :
    img[i].state = Available /\ ~img[i].deleted =>
      /\ i \in DOMAIN vol
      /\ vol[i].size >= RoundUp(img[i].size)
      /\ img[i].limits => vol[i].limits

(***************************************************************************)
(* A volume cloned from a snapshot was cloned from the snapshot the image  *)
(* records in SnapshotRef, even when the registry tag moves between        *)
(* reconciliation attempts: reconcileSnapshot resolves only while          *)
(* SnapshotRef is nil (image_controller.go:272).                           *)
(***************************************************************************)
VolumeClonedFromRef ==
  \A i \in DOMAIN vol :
    vol[i].from # Nil => i \in DOMAIN img /\ img[i].ref = vol[i].from

(***************************************************************************)
(* SnapshotRef is set at most once and never changed or cleared (spec,     *)
(* section 3), whatever the store writes of the workers' image copies.     *)
(***************************************************************************)
SnapshotRefStable ==
  [][\A i \in DOMAIN img \cap DOMAIN img' :
       img[i].ref # Nil => img'[i].ref = img[i].ref]_img

(***************************************************************************)
(* A resize never shrinks a volume: clones are grown to the spec size,     *)
(* never shrunk (spec, section 4.5; createImageFromSnapshot, 478).         *)
(***************************************************************************)
NeverShrink ==
  [][\A i \in DOMAIN vol \cap DOMAIN vol' : vol'[i].size >= vol[i].size]_vol

(***************************************************************************)
(* The reconciler implements the image lifecycle of ImageLifecycle: seen   *)
(* through the store's status and deletion mark and the pool's volumes,    *)
(* every step of the workers, handlers, submitter and crashes is a         *)
(* lifecycle step or leaves the lifecycle unchanged.  A volume appears     *)
(* only for a Pending image, Status goes to Available only over an         *)
(* existing volume and never back, DeletedAt is never cleared by the       *)
(* workers' write-backs of stale copies (images.Update at 314, 353, 405),  *)
(* the volume goes only for a deleted image, and an image is purged only   *)
(* once no volume is left.                                                 *)
(***************************************************************************)
Lifecycle == INSTANCE ImageLifecycle
  WITH images  <- [i \in DOMAIN img |-> [state   |-> img[i].state,
                                         deleted |-> img[i].deleted,
                                         volume  |-> i \in DOMAIN vol]],
       retired <- created \ DOMAIN img

RefinesLifecycle == Lifecycle!Spec

(***************************************************************************)
(* Every image marked deleted is eventually purged from the store (its     *)
(* volume removed and its finalizer dropped), however the deletion path    *)
(* fails and is retried, unless the reconciler is shut down.               *)
(***************************************************************************)
DeletionCompletes ==
  \A i \in Ids :
    (i \in DOMAIN img /\ img[i].deleted) ~> (i \notin DOMAIN img \/ shuttingDown)

(***************************************************************************)
(* Every live image eventually becomes Available (or is deleted, or the    *)
(* reconciler shuts down): the create event, the rate-limited retries and  *)
(* the snapshot-populated wake-up (image_controller.go:155-171) together   *)
(* never leave an image stranded in Pending.                               *)
(***************************************************************************)
ImageConverges ==
  \A i \in Ids :
    (i \in DOMAIN img /\ ~img[i].deleted) ~>
      (i \notin DOMAIN img \/ img[i].deleted \/ img[i].state = Available
       \/ shuttingDown)

(***************************************************************************)
(* Once the context is cancelled, Start returns: the queue drains, the     *)
(* items in flight finish and every worker goroutine leaves its loop       *)
(* (image_controller.go:179-194), whatever failures and retries were       *)
(* pending.                                                                *)
(***************************************************************************)
ShutdownCompletes ==
  shuttingDown ~> (\A w \in Workers : pc[w] = "exited")
=============================================================================
