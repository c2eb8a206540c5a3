\* A transient failure after the clone was made (the resize failing): every
\* retry of the image fails in CloneImage, which is not idempotent.
CONSTANTS
  Ids = {i1}
  Workers = {w1}
  Sources = {s1}
  Digests = {d1}
  NoSource = NoSource
  Nil = Nil
  Specs <- MCSourceSpecs
  SnapSizes = {2}
  Granularity = 2
  MaxVolSize = 4
  FailPoints = {"resize"}
  LostReplies = {}
  MaxFailures = 1
  MaxRetags = 0
  MaxCrashes = 0
SPECIFICATION Spec
CHECK_DEADLOCK FALSE
PROPERTY ImageConverges
