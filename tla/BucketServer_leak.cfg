\* One bucket, two attempts; the access-secret read fails once.
CONSTANTS
  Buckets = {b1}
  Names = {n1, n2}
  MaxAttempts = 2
  FailPoints = {"secret"}
  MaxFailures = 1
  None = None
SPECIFICATION Spec
INVARIANT NoLeakedClaim
CHECK_DEADLOCK FALSE
