\* One CPU, two user PIDs and the one kernel thread kmain() starts
\* (swap_thread): the first task forks a child, kills it or waits for it.
\* One CPU, so the victim of a kill is never running elsewhere
\* (sched_kill_running), and one child at a time, so no parent waits twice
\* (sched_stale_wait).
CONSTANTS
  c1 = c1
  c2 = c2
  NoCpu = NoCpu
  CPUs <- OneCpu
  UserPids = {1, 2}
  KThreads = {3}
  Syscalls <- ForkKillWait
SPECIFICATION Spec
INVARIANTS
  TaskPlacedOnce
  NuserCountsSchedulable
PROPERTIES
  KilledTaskDestroyed
  QueuedTaskRuns
