\* Two CPUs, three user PIDs and a kernel thread; programs fork and exit.
CONSTANTS
  c1 = c1
  c2 = c2
  NoCpu = NoCpu
  CPUs <- TwoCpus
  UserPids = {1, 2, 3}
  KThreads = {4}
  Syscalls <- ForkExit
SPECIFICATION Spec
INVARIANTS
  TaskPlacedOnce
  NuserCountsSchedulable
  RunqLenMatches
PROPERTIES
  QueuedTaskRuns
