\* Crash safety and recovery on the clone path: two images cloned from s1,
\* one worker, one crash and restart at any point, combined with one lost
\* reply of the SnapshotRef write, the clone or RemoveImage.
CONSTANTS
  Ids = {i1, i2}
  Workers = {w1}
  Sources = {s1}
  Digests = {d1}
  NoSource = NoSource
  Nil = Nil
  Specs <- MCSourceSpecs
  SnapSizes = {2}
  Granularity = 2
  MaxVolSize = 4
  FailPoints = {}
  LostReplies = {"setRef", "clone", "delRemove"}
  MaxFailures = 1
  MaxRetags = 0
  MaxCrashes = 1
SPECIFICATION Spec
CHECK_DEADLOCK FALSE
INVARIANTS NoOrphanVolume AvailableImpliesProvisioned
PROPERTY RefinesLifecycle
DeletionCompletes
