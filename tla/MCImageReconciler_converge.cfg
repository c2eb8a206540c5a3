\* Convergence of images cloned from a snapshot: two images with the same
\* source on two workers race to create the snapshot (the loser gets an
\* error and retries) and wait for it to be populated.  No transient failure.
CONSTANTS
  Ids = {i1, i2}
  Workers = {w1, w2}
  Sources = {s1}
  Digests = {d1}
  NoSource = NoSource
  Nil = Nil
  Specs <- MCSourceSpecs
  SnapSizes = {2}
  Granularity = 2
  MaxVolSize = 4
  FailPoints = {}
  LostReplies = {}
  MaxFailures = 0
  MaxRetags = 0
  MaxCrashes = 0
SPECIFICATION Spec
CHECK_DEADLOCK FALSE
PROPERTY ImageConverges
