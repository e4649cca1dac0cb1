\* One CPU, two user PIDs and swap_thread: a parent exits before its child and its PID is reused.
CONSTANTS
  c1 = c1
  c2 = c2
  NoCpu = NoCpu
  CPUs <- OneCpu
  UserPids = {1, 2}
  KThreads = {3}
  Syscalls <- ForkExit
SPECIFICATION Spec
INVARIANT
  NoAdoptionByReusedPid
