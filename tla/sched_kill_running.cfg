\* Two CPUs, two user PIDs and a kernel thread; a parent forks and kills
\* its child while the child runs on the other CPU.
CONSTANTS
  c1 = c1
  c2 = c2
  NoCpu = NoCpu
  CPUs <- TwoCpus
  UserPids = {1, 2}
  KThreads = {3}
  Syscalls <- ForkKill
SPECIFICATION Spec
INVARIANT
  TaskPlacedOnce
