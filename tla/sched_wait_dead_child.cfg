\* One CPU, two user PIDs and swap_thread: a parent kills its child, then waits for it.
CONSTANTS
  c1 = c1
  c2 = c2
  NoCpu = NoCpu
  CPUs <- OneCpu
  UserPids = {1, 2}
  KThreads = {3}
  Syscalls <- ForkKill
SPECIFICATION Spec
INVARIANT
  ZombieCollectable
