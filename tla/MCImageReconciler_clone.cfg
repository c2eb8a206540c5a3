\* Safety of the whole reconciler: two images, two workers, one reference
\* that may be re-tagged once, one transient failure at any call.
CONSTANTS
  Ids = {i1, i2}
  Workers = {w1, w2}
  Sources = {s1}
  Digests = {d1, d2}
  NoSource = NoSource
  Nil = Nil
  Specs <- MCSourceSpecs
  SnapSizes = {2}
  Granularity = 2
  MaxVolSize = 4
  FailPoints <- MCAllFailPoints
  LostReplies = {"snapCreate", "setRef", "clone", "resize"}
  MaxFailures = 1
  MaxRetags = 1
  MaxCrashes = 0
SPECIFICATION Spec
SYMMETRY MCSymmetry
CHECK_DEADLOCK FALSE
INVARIANT TypeOK
INVARIANT NoOrphanVolume
INVARIANT AvailableImpliesProvisioned
INVARIANT VolumeClonedFromRef
PROPERTY SnapshotRefStable
