# TLA+ models of ceph-provider's image reconciler and bucket server

This directory holds TLA+ models of the image reconciler in
`src/pkg/controllers/image_controller.go` and of the bucket server's
`CreateBucket` in `src/ori/bucket/server/bucket_create.go`, the TLC
configurations that check them, and `PROJECT.json`, which maps every definition to the source lines it
models and lists the runs, mutants, findings and hazards.

## 1. Inventory

### Components

| Component | Source | State | Operations |
|---|---|---|---|
| Image reconciler | `image_controller.go` | the queue, the workers' in-flight image copies | `Start` (handlers, worker pool, shutdown), `processNextWorkItem`, `reconcileImage`, `deleteImage`, `reconcileSnapshot`, `createImageFromSnapshot`, `createEmptyImage`, `setImageLimits`, `fetchAuth` |
| Work queue (client-go, external) | used at `:105` | dirty, processing, delayed keys; shutdown flag | Add, Get, Done, AddRateLimited, Forget, ShutDown |
| Image / snapshot stores and event sources (`pkg/store`, `pkg/event`, external) | used throughout | images (spec, SnapshotRef, finalizers, DeletedAt, status), snapshots (state) | Get, List, Create, Update, Delete; Created/Updated/Deleted notifications |
| Ceph rbd pool (external) | `librbd` calls | rbd images: size, metadata, parent snapshot | CreateImage, CloneImage, Resize, SetMetadata, RemoveImage; `MonCommand` for the key |
| Registry (external) | `registry.Resolve` | what a reference resolves to | Resolve |
| Bucket server | `ori/bucket/server/bucket_create.go:1-92` | the Kubernetes API (claims, secrets) | `CreateBucket` (create the claim, then read its access secret) |
| Test suite, Makefile | `bucket_create.go:93-294`, `Makefile` | none | test harness and build tooling |

### How they interact

The store's change feed calls the handlers registered by `Start`. The image
handler enqueues the id on Created and Deleted, and drops Updated. The
snapshot handler reacts to a snapshot updated to Populated: it lists the
images and enqueues those whose `SnapshotRef` names the snapshot.
`workerSize` goroutines loop in `processNextWorkItem`. Each one takes a key,
runs `reconcileImage`, then calls `AddRateLimited` on error or `Forget` on
success, and finally `Done`.

`reconcileImage` reads the image once at the start. Every later call writes
back that in-memory copy. Store writes cause further notifications, which
closes the loop. Cancelling the context shuts down the queue. The workers
drain the queue and exit, and then `Start` returns.

### What is hard

- **Interleaving.** The workers run concurrently, and only the queue's
  one-key-one-worker rule orders them. Two images can race to create the
  same snapshot. Deletion by the submitter, snapshot population and tag
  moves interleave with every store and backend call.
- **Partial failure and retry.** Any of about a dozen calls can fail midway
  through `reconcileImage`. The retry starts again from the top, against
  backend state that the failed attempt already changed.
- **Ordering.** The finalizer must be persisted before any volume exists.
  In `deleteImage` it must go only after the volume is gone. The
  `SnapshotRef` write races the Populated wake-up.
- **Stale state.** The image copy read at line 329 is written back at 353,
  314 and 405, after other actors have changed the store.
- **Liveness.** A "not ready" image has no retry pending. It depends entirely
  on the snapshot event to be woken.

### Correctness properties by component

- **Reconciler:**
  - no orphaned volume;
  - Available implies the volume, its size and its limits exist;
  - a clone matches `SnapshotRef`;
  - `SnapshotRef` is never rewritten;
  - a resize never shrinks a volume;
  - every live image converges;
  - every deleted image is purged;
  - shutdown completes.
- **Work queue:** at most one worker per key, and no key is lost. Both are
  covered through the reconciler properties that depend on them.
- **Reconciler against its abstract lifecycle:** every step, crashes
  included, is a step of `ImageLifecycle` (refinement).
- **Bucket server:** a failed `CreateBucket` leaves no claim behind. The
  code breaks this (finding 6).

## 2. Modules

| Module | Models |
|---|---|
| `WorkQueue.tla` | The client-go rate-limiting queue, as operators over the shared variables `dirty`, `processing`, `delayed` and `shuttingDown`. Client-go's FIFO `queue` is exactly `dirty \ processing` (`Queued`). `Get` may hand out any queued key, which covers every FIFO order. The back-off delay is a `delayed` set whose timer fires at some later point. |
| `ImageReconciler.tla` | The reconciler and its environment. It `INSTANCE`s `WorkQueue`. |
| `MCImageReconciler.tla` | The constants of the runs: image specs, fail-point sets and symmetry. |
| `ImageLifecycle.tla` | The abstract lifecycle of an image: per id, Pending or Available, the deletion mark, and whether a volume exists; Submit, Delete, Provision, MarkAvailable, Deprovision and Purge. `ImageReconciler` instantiates it with a refinement mapping (`Lifecycle`), and the runs check `RefinesLifecycle`. |
| `SnapshotDeletion.tla` | `ImageReconciler` plus an external `DeleteSnapshot`, and the not-found branch of `createImageFromSnapshot` (`SnapshotNotFound`), which dereferences nil and stops the process (`panicked`). |
| `MCSnapshotDeletion.tla` | Its model-checking instance. |
| `BucketServer.tla` | `CreateBucket`. Per request (bucket, attempt): `RequestCreateBucket` (the caller, retrying after an error), `CreateBucketClaim` (name generation, `SetObjectMetadata`, `client.Create` with its outcomes: stored, AlreadyExists, failed, failed after commit) and `CompleteCreateBucket` (the access-secret read and the conversion, each of which may fail). The API server's claims are shared between concurrent requests. |

### State in `ImageReconciler`

- `img`: the image store, a partial function from id to a record holding
  src, size, limits, ref (`SnapshotRef`), fins (finalizer present), deleted
  (`DeletedAt != nil`) and state.
- `snap`: the snapshot store, keyed by digest, with state and size.
- `vol`: the pool's rbd images, with size, limits applied and the snapshot
  cloned from.
- `registry`: what each reference resolves to.
- `imgEvents` and `snapEvents`: notifications that have not been delivered
  yet.
- Per worker: `pc` (the step of `reconcileImage`), `item`, `loc` (the
  in-memory `img`), `dig` (the resolved digest) and `ok` (error or not).

### Actions

Each store or backend call is one action, so the actions interleave exactly
where the Go code blocks:

| Action | Code |
|---|---|
| `GetImage` | `images.Get`, then the branches at 338-356 |
| `RemoveVolume`, `RemoveFinalizer` | `deleteImage` |
| `AddFinalizer` | 351-356 |
| `ResolveSource`, `CreateSnapshot`, `SetSnapshotRef` | `reconcileSnapshot` |
| `GetSnapshot`, `CloneVolume`, `ResizeVolume` | `createImageFromSnapshot` |
| `CreateVolume` | `createEmptyImage` |
| `SetLimits` | `setImageLimits` |
| `FetchAuth` | `fetchAuth` |
| `SetAvailable` | 397-407 |

`TransientError` lets any call listed in the constant `FailPoints` fail, at
most `MaxFailures` times in a behaviour. The constant can also contain
`"list"`, for the `images.List` of the snapshot handler. Deterministic errors
are part of their own actions: `CreateImage` or `CloneImage` on an existing
volume, a snapshot create that loses a race, and an Update of a purged image.
They use `Refused`, which injects no fault.

A **lost reply** is a write whose effect is committed but whose caller sees
an error, as when the store or the Ceph cluster times out after doing the
work. It is the second outcome of `Go` for the steps listed in the constant
`LostReplies` (a subset of `WriteSteps`: `images.Update`, `snapshots.Create`,
`CreateImage`, `CloneImage`, `Resize`, `SetMetadata`, `RemoveImage`). It
counts against the same `MaxFailures`. The retry then starts from a state
the failed attempt itself produced. This is the case the spec's idempotency
rules are for (section 4.3: RemoveImage "not found" counts as success, an
Update of a purged image counts as success).

The queue-facing actions are `WorkerGet`, `WorkerExit`, `Finish` and
`RetryFires`. The handlers are `ImageEventHandler` and
`SnapshotEventHandler`.

The environment has these actions: `SubmitImage`, `DeleteImage`,
`PopulateSnapshot`, `Retag` (a tag moves, at most `MaxRetags` times),
`Cancel` and `CrashRestart` (at most `MaxCrashes` times, before `Cancel`).
`CrashRestart` loses everything in memory (queue, delayed retries, workers'
copies, undelivered notifications) and keeps the stores and the pool.

### Assumptions about the external store (`pkg/store` is not in this repository)

- `Update` of a purged image returns not-found.
- `Update` keeps the store's `DeletedAt`. The caller cannot clear it.
- `Update` purges an image that is deleted and has no finalizer.
- `Delete` purges an image that has no finalizer. Otherwise it sets
  `DeletedAt`.
- Both cases of `Delete` emit a Deleted notification.

- On restart, the event source announces every image of the store as
  Created, the way a list-then-watch source starts (`pkg/event` is not in
  this repository). Without this, nothing would ever re-queue an image after
  a crash.
- Snapshots are deleted only in `SnapshotDeletion`. Nothing in this
  repository deletes one, but the store offers `Delete`.

The image handler ignores Updated notifications, so the model does not
generate them.

### The bucket server

`getBucketAccessSecretIfRequired` and `convertBucketClaimAndAccessSecretToBucket`
are not in this repository; only their error returns are modelled. The
caller (the bucket pool agent) is modelled as retrying a failed request for
the same bucket with a new request, up to `MaxAttempts`. `idGen.Generate` may
return any name of `Names`. A collision with an existing claim (AlreadyExists
from `client.Create`) is kept as an outcome of `CreateBucketClaim`, but no
property is about it: the generated names are random, so a collision is not a
case that happens in practice.

## 3. Runs

The image runs use `MCImageReconciler` (or `MCSnapshotDeletion`). The bounds are:

- image size 1 with granularity 2, so it rounds up to 2;
- snapshot size 2, or 4 in the shrink run;
- sources `{s1}`.

| Run (cfg) | Expect | Bounds | Properties |
|---|---|---|---|
| `clone_safety` (`_clone`) | pass | 2 images from `s1`, 2 workers, digests `{d1,d2}`, 1 tag move, 1 failure at any call or the List, or a lost reply of a clone-path write; symmetry on ids, workers and digests | TypeOK, NoOrphanVolume, AvailableImpliesProvisioned, VolumeClonedFromRef, SnapshotRefStable |
| `empty_safety` (`_empty`) | pass | 2 empty images with limits, 2 workers, 2 failures anywhere (a call fails, or a write's reply is lost), 1 crash | NoOrphanVolume, AvailableImpliesProvisioned, RefinesLifecycle |
| `clone_converges` (`_converge`) | pass | 2 images from `s1`, 2 workers racing to create the snapshot, no transient failure | ImageConverges |
| `deletion_and_shutdown` (`_delete`) | pass | 2 empty images, 2 workers, 1 failure anywhere or 1 lost reply of a write | DeletionCompletes, ShutdownCompletes |
| `retry_livelock` (`_retry`) | violation | 1 empty image, `fetchAuth` fails once | ImageConverges |
| `clone_retry_livelock` (`_cloneretry`) | violation | 1 image from `s1`, the resize fails once | ImageConverges |
| `lost_wakeup` (`_wakeup`) | violation | 1 image from `s1`, the snapshot handler's List fails once | ImageConverges |
| `clone_shrinks` (`_shrink`) | violation | 1 image of size 1, snapshot of size 4 | NeverShrink |
| `crash_recovery` (`_crash`) | pass | 2 images from `s1`, 1 worker, 1 crash, 1 lost reply of the SnapshotRef write, the clone or `RemoveImage` | NoOrphanVolume, AvailableImpliesProvisioned, RefinesLifecycle, DeletionCompletes |
| `crash_livelock` (`_crashloop`) | violation | 1 empty image, 1 crash | ImageConverges |
| `snapshot_panic` (`MCSnapshotDeletion_panic`) | violation | 1 image from `s1`, snapshots may be deleted | NoPanic |
| `bucket_claim_leak` (`BucketServer_leak`) | violation | 1 bucket, 2 attempts, the secret read fails once | NoLeakedClaim |

The bounds are enough for these reasons:

- **Two workers and two images** are the least that give the
  snapshot-create race, and they let a second key be processed while the
  first one retries.
- **One transient failure** already puts a failure between every pair of
  consecutive calls. **Two failures** in `empty_safety` add a failure of the
  retry.
- **One tag move and two digests** are enough to make a second resolution
  differ from the first.
- **Liveness runs** use no symmetry.
- **One crash** puts a crash between every pair of steps. `crash_recovery`
  combines it with one lost reply on the clone and deletion paths, and
  `empty_safety` combines it with two failures (calls failing or replies
  lost) and two workers. Together they cover both kinds of image. All
  lost replies on the clone path with a crash give over a million states
  and more than five minutes, so `crash_recovery` keeps the three writes
  whose retry depends on what the lost write left: SnapshotRef, the clone
  and `RemoveImage`.
- **`crash_recovery` has one digest and no tag move**, so it does not check
  that a clone matches `SnapshotRef`: with a single digest the two cannot
  differ. That property is checked by `clone_safety`, which has the tag move.
- **`clone_converges` has no transient failure.** With two workers, even a
  single fail point more than doubles the state space, and the run no longer
  fits the time budget. The race itself produces the error and the
  rate-limited retry. Retries after transient failures are checked for
  liveness on the deletion path (`deletion_and_shutdown`).

`CHECK_DEADLOCK FALSE` is set on every run. When nothing is queued, the
program blocks in `queue.Get`, which is its normal idle state. After `Cancel`
it stops for good, because `Start` returns. Progress is stated as liveness
properties instead of being left to the deadlock check.
In the bucket run, the server idles once every request is answered and
the caller has stopped retrying.

### Fairness

- **Weak fairness** applies to:
  - every worker's reconcile steps, because the Go runtime schedules
    goroutines and failures are bounded;
  - the queue's retry timer;
  - event delivery;
  - the population pipeline. This is an assumption: every snapshot is
    eventually populated.
- **Strong fairness** applies to Get per key, because client-go's queue is
  FIFO, so a key that stays queued is handed out eventually.
- **No fairness** applies to the submitter, tag moves, `Cancel` or
  `CrashRestart`.
- The bucket run checks only safety, so `BucketServer` states no fairness.

### What the runs show

- **The pass runs.**
  - The finalizer ordering prevents orphaned volumes, including under
    failures at every point and deletion racing provisioning.
  - Available is written only after full provisioning.
  - The `SnapshotRef == nil` guard keeps clones consistent across tag moves.
  - The Populated wake-up is enough when List succeeds. The spec's open
    question in section 9 does not arise, because the store is linearizable
    and the handler lists after the write.
  - Deletion and shutdown always complete.
  - Lost replies of store writes (finalizer, SnapshotRef, Available,
    finalizer removal) and of `snapshots.Create`, `RemoveImage`, `Resize`
    and `SetMetadata` are harmless. The retry finds the committed effect and
    moves past it, because each of those steps checks the state first or
    treats "not found" as success. The exceptions are `CreateImage` and
    `CloneImage` (finding 1).
- **Findings** (details in `PROJECT.json`):
  1. `CreateImage` and `CloneImage` are not idempotent. After any failure
     that follows them, the image is retried forever and never becomes
     Available (`retry_livelock` for `CreateImage`, `clone_retry_livelock`
     for `CloneImage` after a failed Resize). A lost reply of `CreateImage` itself (the
     call times out after the rbd image was made) has the same effect: with
     `LostReplies = {"create"}` and no fail point, the same cfg is violated
     after one attempt.
  2. A failed `images.List` in the snapshot handler loses the wake-up for
     good.
  3. The clone is resized to the spec size without a check, so a snapshot
     larger than the request is shrunk. The spec says clones are never
     shrunk.
  4. One crash between `CreateImage` and the Available update wedges the
     image, with no transient failure at all. Spec section 4.2 says
     `reconcileImage` must be safe to run from any intermediate state.
  5. A snapshot deleted while an image refers to it makes
     `createImageFromSnapshot` dereference nil at line 453, and the process
     dies.
  6. `CreateBucket` never deletes the claim it created when a later step
     fails: the error returns with the claim left behind, known to no
     caller (`bucket_claim_leak`). A caller that retries (outside this
     repository) would create a second claim under a new name; the trace
     does not show that.
- **Crash safety and refinement.** Crashes at any point keep
  volumes owned and the lifecycle intact, and deletions still complete. The
  reconciler refines `ImageLifecycle`, which rules out stale write-backs
  clearing `DeletedAt` or moving Available back to Pending.
- **Mutants.** Every property of a pass run is broken by at least one
  plausible mutation of the definition it is about. The mutant operators are
  defined in `ImageReconciler.tla` right before the definitions they replace,
  and `PROJECT.json` lists them.

## 4. Not modelled (yet)

- **The access descriptor.** Monitors, handle, user, key and WWN are data
  only.
- **Constructor validation.** This is configuration, not behaviour.
- **What the event source replays on restart** is assumed (every image as
  Created), because `pkg/event` is not in this repository.
- **Updates of the spec by the submitter.** Updated events are ignored by
  design.
- **The bucket server's helpers** (`getBucketAccessSecretIfRequired`,
  conversion) beyond their error returns, and the provisioner that binds
  claims.
- **`bucket_create.go:93-294`** is the envtest suite set-up, a test harness.

## 5. Plan for the next sittings

1. **Lost replies in the liveness runs of the clone path.** Adding any fault
   to `clone_converges` pushes it past the time budget. A smaller instance
   (one worker, one image) would check that a lost `snapshots.Create` or
   SnapshotRef reply is retried to Available.

Two items of earlier plans were dropped:

- **A separate contract for `WorkQueue`.** `WorkQueue.tla` already models
  the queue at the level of its contract (sets of dirty, processing and
  delayed keys, with FIFO order abstracted). A contract module would repeat
  it variable for variable, so a refinement between them would show
  nothing.
- **Liveness of `ImageLifecycle` through the refinement.** "Every deleted
  image is purged" is `DeletionCompletes`, which is already checked on the
  detailed model.
