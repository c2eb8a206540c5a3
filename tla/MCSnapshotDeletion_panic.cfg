\* One image cloned from s1, one worker, no transient failures: the
\* snapshot it records is deleted before the image is cloned.
CONSTANTS
  Ids = {i1}
  Workers = {w1}
  Sources = {s1}
  Digests = {d1}
  NoSource = NoSource
  Nil = Nil
  Specs <- MCSourceSpecs
  SnapSizes = {2}
  Granularity = 2
  MaxVolSize = 4
  FailPoints = {}
  LostReplies = {}
  MaxFailures = 0
  MaxRetags = 0
  MaxCrashes = 0
SPECIFICATION SpecSD
CHECK_DEADLOCK FALSE
INVARIANT NoPanic
