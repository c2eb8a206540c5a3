\* A clone from a snapshot larger than the requested size: the resize
\* shrinks the volume.
CONSTANTS
  Ids = {i1}
  Workers = {w1}
  Sources = {s1}
  Digests = {d1}
  NoSource = NoSource
  Nil = Nil
  Specs <- MCSourceSpecs
  SnapSizes = {4}
  Granularity = 2
  MaxVolSize = 4
  FailPoints = {}
  LostReplies = {}
  MaxFailures = 0
  MaxRetags = 0
  MaxCrashes = 0
SPECIFICATION Spec
CHECK_DEADLOCK FALSE
PROPERTY NeverShrink
