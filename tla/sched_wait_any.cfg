\* One CPU, three user PIDs and swap_thread: wait() called after a child has died.
CONSTANTS
  c1 = c1
  c2 = c2
  NoCpu = NoCpu
  CPUs <- OneCpu
  UserPids = {1, 2, 3}
  KThreads = {4}
  Syscalls <- ForkExitWait
SPECIFICATION Spec
CONSTRAINT EntriesBound
PROPERTY
  WaitAnyReturnsZombie
