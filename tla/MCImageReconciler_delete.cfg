\* Deletion always completes: two empty images, two workers, one transient
\* failure at any call, deletion racing provisioning.
CONSTANTS
  Ids = {i1, i2}
  Workers = {w1, w2}
  Sources = {s1}
  Digests = {d1}
  NoSource = NoSource
  Nil = Nil
  Specs <- MCEmptySpecs
  SnapSizes = {2}
  Granularity = 2
  MaxVolSize = 4
  FailPoints <- MCAllFailPoints
  LostReplies = {"addFin", "create", "limits", "setAvail", "delRemove", "delUpdate"}
  MaxFailures = 1
  MaxRetags = 0
  MaxCrashes = 0
SPECIFICATION Spec
CHECK_DEADLOCK FALSE
PROPERTY DeletionCompletes
PROPERTY ShutdownCompletes
