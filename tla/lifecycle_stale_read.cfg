SPECIFICATION Spec
CONSTANTS
  Names = {n1}
  Procs = {p1, p2}
  Pids = {q1, q2}
  Insts = {i1, i2, i3}
  Inodes = {d1, d2, d3}
  Ops = {"create", "start", "stop"}
  Overlap = TRUE
  PosixUnlink = FALSE
  Crashes = FALSE
  IOFaults = FALSE
  PidReuse = {}
  None = None
  Program = Program
SYMMETRY Symmetry
INVARIANT LockedReadIsCurrent
