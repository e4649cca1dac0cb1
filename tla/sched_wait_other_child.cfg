\* One CPU, three user PIDs and swap_thread: a parent waits for one child while another exits.
CONSTANTS
  c1 = c1
  c2 = c2
  NoCpu = NoCpu
  CPUs <- OneCpu
  UserPids = {1, 2, 3}
  KThreads = {4}
  Syscalls <- ForkExitWaitpid
SPECIFICATION Spec
CONSTRAINT EntriesBound
PROPERTY
  WakeOnlyForAwaited
