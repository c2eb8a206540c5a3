\* One empty image, one worker, no transient failures: the process crashes
\* once, after the rbd image was created and before Status is Available.
CONSTANTS
  Ids = {i1}
  Workers = {w1}
  Sources = {s1}
  Digests = {d1}
  NoSource = NoSource
  Nil = Nil
  Specs <- MCEmptySpecs
  SnapSizes = {2}
  Granularity = 2
  MaxVolSize = 4
  FailPoints = {}
  LostReplies = {}
  MaxFailures = 0
  MaxRetags = 0
  MaxCrashes = 1
SPECIFICATION Spec
CHECK_DEADLOCK FALSE
PROPERTY ImageConverges
