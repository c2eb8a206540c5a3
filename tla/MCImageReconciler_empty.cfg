\* Safety of empty-volume provisioning and deletion: two images with limits,
\* two workers, two transient failures at any call (or the List), and one
\* crash and restart.
CONSTANTS
  Ids = {i1, i2}
  Workers = {w1, w2}
  Sources = {s1}
  Digests = {d1}
  NoSource = NoSource
  Nil = Nil
  Specs <- MCEmptySpecs
  SnapSizes = {2}
  Granularity = 2
  MaxVolSize = 4
  FailPoints <- MCAllFailPoints
  LostReplies = {"addFin", "create", "limits", "setAvail", "delRemove", "delUpdate"}
  MaxFailures = 2
  MaxRetags = 0
  MaxCrashes = 1
SPECIFICATION Spec
SYMMETRY MCSymmetry
CHECK_DEADLOCK FALSE
INVARIANT NoOrphanVolume
INVARIANT AvailableImpliesProvisioned
PROPERTY RefinesLifecycle
