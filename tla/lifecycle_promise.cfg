SPECIFICATION Spec
CONSTANTS
  Names = {n1, n2}
  Procs = {p1, p2}
  Pids = {q1, q2, q3}
  Insts = {i1, i2, i3}
  Inodes = {d1, d2, d3}
  Ops = {"create", "start", "stop", "restart", "rm", "rmf"}
  Overlap = FALSE
  PosixUnlink = TRUE
  Crashes = FALSE
  IOFaults = FALSE
  PidReuse = {}
  None = None
  Program = Program
SYMMETRY Symmetry
INVARIANT RunningIsRecorded
PROPERTY KeepsPromise
