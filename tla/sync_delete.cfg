SPECIFICATION Spec
CONSTANTS
  Paths = {1}
  Tol = 0
  None = None
  Versions = {"v1", "v2", "v3"}
  Partial = "partial"
  SizeOf <- DistinctSizes
  MaxTime = 4
  Watched = FALSE
  Aborts = FALSE
PROPERTY DeleteLosesNothing
