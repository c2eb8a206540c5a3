\* A transient failure after the volume was created (fetchAuth failing):
\* every retry of the empty image fails in CreateImage, which is not idempotent.
CONSTANTS
  Ids = {i1}
  Workers = {w1}
  Sources = {s1}
  Digests = {d1}
  NoSource = NoSource
  Nil = Nil
  Specs <- MCEmptySpecs
  SnapSizes = {2}
  Granularity = 2
  MaxVolSize = 4
  FailPoints = {"auth"}
  LostReplies = {}
  MaxFailures = 1
  MaxRetags = 0
  MaxCrashes = 0
SPECIFICATION Spec
CHECK_DEADLOCK FALSE
PROPERTY ImageConverges
