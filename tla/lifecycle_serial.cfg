SPECIFICATION Spec
CONSTANTS
  Names = {n1}
  Procs = {p1}
  Pids = {q1, q2, q3}
  Insts = {i1, i2, i3, i4}
  Inodes = {d1, d2, d3}
  Ops = {"create", "start", "stop", "stopf", "restart", "rm", "rmf"}
  Overlap = FALSE
  PosixUnlink = TRUE
  Crashes = TRUE
  IOFaults = TRUE
  PidReuse = {"program"}
  None = None
  Program = Program
SYMMETRY Symmetry
INVARIANT RecordOwnsFiles
PROPERTY NeverForgetsRunning
PROPERTY LostOnlyBeforeTheSave
