SPECIFICATION FairSpec
CONSTANTS
  gpu = gpu
  cpu = cpu
  Identities = {gpu, cpu}
  MaxRuns = 4
  MaxSessions = 2
  MaxJobs = 3
INVARIANTS JobHasItsSession NoOrphan
PROPERTIES IdleIsIdle ShutdownEndsWorkers
CHECK_DEADLOCK FALSE
