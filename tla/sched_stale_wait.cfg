\* Two CPUs, three user PIDs and swap_thread: a parent is woken once and a second child dies.
CONSTANTS
  c1 = c1
  c2 = c2
  NoCpu = NoCpu
  CPUs <- TwoCpus
  UserPids = {1, 2, 3}
  KThreads = {4}
  Syscalls <- ForkExitWaitpid
SPECIFICATION Spec
CONSTRAINT EntriesBound
INVARIANT
  NoTaskOnTwoCpus
