------------------------------ MODULE MC_Sched ------------------------------
(* Instances of the scheduler for TLC: CPUs as model values, a few user    *)
(* PIDs and kernel threads, and the system calls each run lets programs   *)
(* issue.                                                                  *)
EXTENDS Sched

CONSTANTS c1, c2

\* Two CPUs, so that tasks run, are killed and are woken on different CPUs.
TwoCpus == {c1, c2}
OneCpu == {c1}

\* A parent whose task_wait is never cleared is queued again by every child
\* that dies after it, so queue entries are unbounded: runs with waitpid()
\* stop exploring once the queues hold more than MaxEntries tasks.
MaxEntries == 5
EntriesBound ==
  Len(runq) + MapThenSumSet(LAMBDA c : runq_len[c], CPUs) <= MaxEntries

ForkExit == {"fork", "exit"}
ForkKill == {"fork", "kill"}
ForkExitWaitpid == {"fork", "exit", "waitpid"}
ForkExitWait == {"fork", "exit", "wait"}
ForkKillWaitpid == {"fork", "kill", "waitpid"}
ForkKillWait == {"fork", "kill", "waitpid", "wait"}
Lifecycle == {"fork", "exit", "kill", "waitpid", "wait"}
=============================================================================
