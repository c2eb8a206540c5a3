\* A transient images.List failure in the snapshot-populated handler: the
\* images waiting on the snapshot are never woken.
CONSTANTS
  Ids = {i1}
  Workers = {w1}
  Sources = {s1}
  Digests = {d1}
  NoSource = NoSource
  Nil = Nil
  Specs <- MCSourceSpecs
  SnapSizes = {2}
  Granularity = 2
  MaxVolSize = 4
  FailPoints = {"list"}
  LostReplies = {}
  MaxFailures = 1
  MaxRetags = 0
  MaxCrashes = 0
SPECIFICATION Spec
CHECK_DEADLOCK FALSE
PROPERTY ImageConverges
