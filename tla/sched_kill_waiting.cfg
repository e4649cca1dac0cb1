\* One CPU, three user PIDs and swap_thread: a task blocked in waitpid() is killed by its parent.
CONSTANTS
  c1 = c1
  c2 = c2
  NoCpu = NoCpu
  CPUs <- OneCpu
  UserPids = {1, 2, 3}
  KThreads = {4}
  Syscalls <- ForkKillWaitpid
SPECIFICATION Spec
CONSTRAINT EntriesBound
PROPERTY
  KilledTaskDestroyed
