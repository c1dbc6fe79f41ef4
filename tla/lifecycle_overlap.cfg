SPECIFICATION FairSpec
CONSTANTS
  Names = {n1}
  Procs = {p1, p2}
  Pids = {q1}
  Insts = {i1}
  Inodes = {d1, d2}
  Ops = {"create", "start", "stop", "restart", "rmf"}
  Overlap = TRUE
  PosixUnlink = FALSE
  Crashes = TRUE
  IOFaults = FALSE
  PidReuse = {"program"}
  None = None
  Program = Program
INVARIANT TypeOK
INVARIANT LockExclusion
INVARIANT ClearOnlyDead
PROPERTY KillsOnlyOwnQemu
PROPERTY InvocationEnds
