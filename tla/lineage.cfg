SPECIFICATION Spec
CONSTANTS
  p1 = p1
  p2 = p2
  p3 = p3
  p4 = p4
  Pid <- FourPids
  MaxProcs = 5
  MaxEvents = 1
  Tick <- FineClock
SYMMETRY Pids
CHECK_DEADLOCK FALSE
INVARIANTS IInv GuardedParent SurvivorDescribed
