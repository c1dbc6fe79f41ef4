SPECIFICATION Spec
CONSTANTS
  Paths = {1}
  Tol = 1
  None = None
  Versions = {"v1", "v2", "v3"}
  Partial = "partial"
  SizeOf <- Sizes
  MaxTime = 4
  Watched = TRUE
  Aborts = FALSE
PROPERTY NewFilesStay
