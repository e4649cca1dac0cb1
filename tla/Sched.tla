------------------------------- MODULE Sched -------------------------------
(***************************************************************************)
(* The task lifecycle and the SMP scheduler of the kernel, in the build    *)
(* with the big kernel lock (USE_BIG_KERNEL_LOCK).                         *)
(*                                                                         *)
(* Every kernel entry (timer interrupt, system call) takes the kernel lock *)
(* and keeps it until task_run() drops back to user mode, or until         *)
(* sched_yield() finds nothing to run and releases it before retrying.     *)
(* So one action of this module is one stretch of kernel code run by one  *)
(* CPU under the lock.  When the kernel code continues into sched_yield()  *)
(* with the lock still held (after task_destroy(), after a blocking        *)
(* waitpid(), after killing another task) the CPU is left in mode "sched"  *)
(* owning the lock, and only that CPU can take the next step.              *)
(*                                                                         *)
(* Tasks are identified by their PID; PID 0 is the NULL task pointer.      *)
(* Memory (page tables, VMAs, frames) is left to the other modules: a task *)
(* here is its struct task fields that the lifecycle reads and writes.     *)
(***************************************************************************)
EXTENDS Naturals, Sequences, FiniteSets, FiniteSetsExt, SequencesExt

CONSTANTS
  CPUs,       \* the CPUs
  UserPids,   \* PIDs that task_alloc() can hand out: 1..N
  KThreads,   \* PIDs of the kernel threads, above every user PID
  Syscalls,   \* the lifecycle system calls the user programs issue
  NoCpu       \* model value: the kernel lock is free

SyscallNames == {"fork", "exit", "kill", "waitpid", "wait"}

ASSUME /\ CPUs # {} /\ NoCpu \notin CPUs
       /\ UserPids = 1 .. Cardinality(UserPids) /\ UserPids # {}
       /\ \A k \in KThreads, u \in UserPids : k > u
       /\ Syscalls \subseteq SyscallNames

Pids == UserPids \cup KThreads
NULL == 0
NCPUS == Cardinality(CPUs)

VARIABLES
  slot,          \* PIDs whose entry in the PID map tasks[] is not NULL
  status,        \* task_status: "RUNNABLE", "RUNNING" or "DYING"
  ppid,          \* task_ppid
  task_wait,     \* task_wait: NULL, the task itself (any child) or a child
  zombies,       \* task_zombies: children that died and were not reaped
  children,      \* task_children: live children
  cur_task,      \* per CPU: the current task or NULL
  mode,          \* per CPU: "user" (cur_task runs), "sched" (in sched_yield), "halted"
  local_runq,    \* per CPU: this_cpu->runq
  local_nextq,   \* per CPU: this_cpu->nextq
  runq_len,      \* per CPU: this_cpu->runq_len
  runq,          \* the global run queue
  nuser_tasks,   \* tasks that can be scheduled (user and kernel)
  nkernel_tasks, \* kernel threads among them
  kernel_lock,   \* CPU holding the big kernel lock, or NoCpu
  blocked,       \* history: tasks suspended in waitpid() and not yet woken
  orphans        \* history: live tasks whose parent has been freed

vars == <<slot, status, ppid, task_wait, zombies, children, cur_task, mode,
          local_runq, local_nextq, runq_len, runq, nuser_tasks, nkernel_tasks,
          kernel_lock, blocked, orphans>>

-----------------------------------------------------------------------------
(* The queues: struct list of task_node, as sequences whose end is the     *)
(* list's tail.                                                            *)

\* queue_add_task(): list_add_tail(), FAIR_SCHEDULER being 0.
queue_add_task(q, t) == Append(q, t)

\* queue_pop_task(): list_pop_tail() takes the task added last, so every
\* queue is a stack although the comment there says "front of the queue".
queue_pop_task(q) == Last(q)
queue_rest(q) == Front(q)

\* Live tasks that a freed set of PIDs leaves without their parent.
Orphaned(freed, live) == orphans \cup {y \in live : ppid[y] \in freed}

-----------------------------------------------------------------------------
\* Variant of nuser_tasks_set() that loses decrements.
nuser_tasks_set_lost_dec(n, set) == IF set < 0 THEN n ELSE n + set

\* nuser_tasks_set(INC or DEC): the new value of nuser_tasks.
nuser_tasks_set(n, set) == n + set

(* task_destroy(cur_task) on CPU c for t = cur_task, with the status and   *)
(* the global queue as the caller has left them in this step.  The task's *)
(* zombies are reaped, then the task becomes a zombie of the task holding *)
(* its parent's PID, unless that task is dying or absent, in which case   *)
(* it is freed.  A parent whose task_wait is set is put back on the       *)
(* global queue.  The CPU continues in sched_yield() with the lock held,  *)
(* or stops when no user task is left.                                    *)
(* The caller fixes the local queues.                                      *)
task_destroy(c, t, st, gq) ==
  LET reaped  == zombies[t]
      live    == slot \ reaped
      parent  == IF ppid[t] # NULL /\ ppid[t] \in live THEN ppid[t] ELSE NULL
      zombie  == parent # NULL /\ st[parent] # "DYING"
      wake    == zombie /\ task_wait[parent] # NULL
      freed   == reaped \cup (IF zombie THEN {} ELSE {t})
      nuser   == nuser_tasks_set(nuser_tasks + (IF wake THEN 1 ELSE 0), -1)
      nkernel == nkernel_tasks + (IF wake /\ parent \in KThreads THEN 1 ELSE 0)
  IN /\ slot' = slot \ freed
     /\ status' = [st EXCEPT ![t] = "DYING"]
     /\ zombies' = IF zombie
                     THEN [zombies EXCEPT ![t] = {}, ![parent] = @ \cup {t}]
                     ELSE [zombies EXCEPT ![t] = {}]
     /\ children' = IF zombie THEN [children EXCEPT ![parent] = @ \ {t}]
                              ELSE children
     /\ runq' = IF wake THEN queue_add_task(gq, parent) ELSE gq
     /\ nuser_tasks' = nuser
     /\ nkernel_tasks' = nkernel
     /\ cur_task' = [cur_task EXCEPT ![c] = NULL]
     /\ mode' = [mode EXCEPT ![c] = IF nuser > nkernel THEN "sched" ELSE "halted"]
     /\ kernel_lock' = c
     /\ blocked' = IF wake THEN blocked \ {parent} ELSE blocked
     /\ orphans' = Orphaned(freed, slot \ freed)
     /\ UNCHANGED <<ppid, task_wait>>

\* Variant of task_run() without the check for a dying task to run.
task_run_runs_dying(c, x, lq, nq, len, gq) ==
  /\ local_runq' = [local_runq EXCEPT ![c] = lq]
  /\ local_nextq' = [local_nextq EXCEPT ![c] = nq]
  /\ runq_len' = [runq_len EXCEPT ![c] = len]
  /\ LET old == cur_task[c]
         st  == IF old # NULL /\ status[old] = "RUNNING"
                  THEN [status EXCEPT ![old] = "RUNNABLE"] ELSE status
     IN IF old # NULL /\ status[old] = "DYING"
          THEN task_destroy(c, old, status, gq)
        ELSE /\ status' = [st EXCEPT ![x] = "RUNNING"]
             /\ cur_task' = [cur_task EXCEPT ![c] = x]
             /\ mode' = [mode EXCEPT ![c] = "user"]
             /\ kernel_lock' = NoCpu
             /\ runq' = gq
             /\ UNCHANGED <<slot, ppid, task_wait, zombies, children,
                            nuser_tasks, nkernel_tasks, blocked, orphans>>

(* task_run(x) on CPU c, the local queues having become lq, nq and len and *)
(* the global queue gq.  The previous current task goes back to RUNNABLE,  *)
(* or is destroyed if it is dying, and then x is never run.  A dying x is  *)
(* destroyed instead of run.                                               *)
task_run(c, x, lq, nq, len, gq) ==
  /\ local_runq' = [local_runq EXCEPT ![c] = lq]
  /\ local_nextq' = [local_nextq EXCEPT ![c] = nq]
  /\ runq_len' = [runq_len EXCEPT ![c] = len]
  /\ LET old == cur_task[c]
         st  == IF old # NULL /\ status[old] = "RUNNING"
                  THEN [status EXCEPT ![old] = "RUNNABLE"] ELSE status
     IN IF old # NULL /\ status[old] = "DYING"
          THEN task_destroy(c, old, status, gq)
        ELSE IF st[x] = "DYING"
          THEN task_destroy(c, x, st, gq)
        ELSE /\ status' = [st EXCEPT ![x] = "RUNNING"]
             /\ cur_task' = [cur_task EXCEPT ![c] = x]
             /\ mode' = [mode EXCEPT ![c] = "user"]
             /\ kernel_lock' = NoCpu
             /\ runq' = gq
             /\ UNCHANGED <<slot, ppid, task_wait, zombies, children,
                            nuser_tasks, nkernel_tasks, blocked, orphans>>

-----------------------------------------------------------------------------
(* Load balancing between the local and the global run queue.             *)

\* migrate_tasks_runq(): pop tasks off the global queue onto the local run
\* queue while the local count is below the share, then pop tasks off the
\* local run queue onto the global queue while it is above.
migrate_tasks_runq(lq, len, gq, share) ==
  LET k   == IF len < share THEN Min({share - len, Len(gq)}) ELSE 0
      lq1 == lq \o Reverse(SubSeq(gq, Len(gq) - k + 1, Len(gq)))
      gq1 == SubSeq(gq, 1, Len(gq) - k)
      m   == IF len + k > share THEN len + k - share ELSE 0
  IN [lq  |-> SubSeq(lq1, 1, Len(lq1) - m),
      gq  |-> gq1 \o Reverse(SubSeq(lq1, Len(lq1) - m + 1, Len(lq1))),
      len |-> len + k - m]

\* BKL_migrate_tasks(): move_nextq_to_runq() splices the next queue onto the
\* empty local run queue, then the queues are balanced unless already even.
BKL_migrate_tasks(nq, len, gq, share) ==
  IF len # share THEN migrate_tasks_runq(nq, len, gq, share)
                 ELSE [lq |-> nq, gq |-> gq, len |-> len]

\* Variant of the share, rounding down: the kind of slip the liveness
\* property must catch.
task_foreach_cpu_floor == nuser_tasks \div NCPUS

\* The number of tasks each CPU should run: ceil(nuser_tasks / ncpus).
task_foreach_cpu == (nuser_tasks + (NCPUS - 1)) \div NCPUS

\* Variants of move_cur_task_to_nextq(): one forgets to count the task,
\* one forgets the task, one puts it back on the run queue.
move_cur_task_to_nextq_no_inc(c) ==
  IF cur_task[c] = NULL
    THEN [rq |-> local_runq[c], nq |-> local_nextq[c], len |-> runq_len[c]]
    ELSE [rq |-> local_runq[c], nq |-> queue_add_task(local_nextq[c], cur_task[c]),
          len |-> runq_len[c]]
move_cur_task_to_nextq_lost(c) ==
  [rq |-> local_runq[c], nq |-> local_nextq[c], len |-> runq_len[c]]
move_cur_task_to_runq(c) ==
  IF cur_task[c] = NULL
    THEN [rq |-> local_runq[c], nq |-> local_nextq[c], len |-> runq_len[c]]
    ELSE [rq |-> queue_add_task(local_runq[c], cur_task[c]), nq |-> local_nextq[c],
          len |-> runq_len[c] + 1]

\* move_cur_task_to_nextq(): the current task, if any, goes on the next
\* queue and is counted in runq_len.  Result: the local queues and count.
move_cur_task_to_nextq(c) ==
  IF cur_task[c] = NULL
    THEN [rq |-> local_runq[c], nq |-> local_nextq[c], len |-> runq_len[c]]
    ELSE [rq |-> local_runq[c], nq |-> queue_add_task(local_nextq[c], cur_task[c]),
          len |-> runq_len[c] + 1]

\* Variant of try_run_next_task() that does not decrement runq_len.
try_run_next_task_no_dec(c, lq, nq, len, gq) ==
  task_run(c, queue_pop_task(lq), queue_rest(lq), nq, len, gq)

\* try_run_next_task() on a non-empty local run queue lq: pop a task,
\* decrement runq_len and task_run() it.
try_run_next_task(c, lq, nq, len, gq) ==
  task_run(c, queue_pop_task(lq), queue_rest(lq), nq, len - 1, gq)

(* One pass of sched_yield() on CPU c.  Halts when only kernel threads are *)
(* left; otherwise the current task goes to the next queue and the local   *)
(* run queue is tried; if it is empty, the queues are balanced and the     *)
(* local run queue tried again; if it is still empty the lock is released  *)
(* and sched_yield() starts over.                                          *)
sched_yield(c) ==
  IF nuser_tasks = nkernel_tasks
  THEN /\ mode' = [mode EXCEPT ![c] = "halted"]
       /\ kernel_lock' = c
       /\ UNCHANGED <<slot, status, ppid, task_wait, zombies, children, cur_task,
                      local_runq, local_nextq, runq_len, runq, nuser_tasks,
                      nkernel_tasks, blocked, orphans>>
  ELSE
  LET mv  == move_cur_task_to_nextq(c)
      mig == BKL_migrate_tasks(mv.nq, mv.len, runq, task_foreach_cpu)
  IN IF mv.rq # <<>>
       THEN try_run_next_task(c, mv.rq, mv.nq, mv.len, runq)
     ELSE IF mig.lq # <<>>
       THEN try_run_next_task(c, mig.lq, <<>>, mig.len, mig.gq)
     ELSE /\ local_runq' = [local_runq EXCEPT ![c] = mig.lq]
          /\ local_nextq' = [local_nextq EXCEPT ![c] = <<>>]
          /\ runq_len' = [runq_len EXCEPT ![c] = mig.len]
          /\ runq' = mig.gq
          /\ mode' = [mode EXCEPT ![c] = "sched"]
          /\ kernel_lock' = NoCpu
          /\ UNCHANGED <<slot, status, ppid, task_wait, zombies, children,
                         cur_task, nuser_tasks, nkernel_tasks, blocked, orphans>>

-----------------------------------------------------------------------------
(* Actions.                                                                *)

\* A task runs in user mode on c and c can enter the kernel.
UserEntry(c) == mode[c] = "user" /\ kernel_lock = NoCpu

\* The timer interrupt (scheduler()) or the yield system call: the kernel
\* lock is taken and sched_yield() runs.
Timer(c) ==
  /\ UserEntry(c)
  /\ sched_yield(c)

\* CPU c is inside sched_yield(): either it kept the lock or it retries.
Schedule(c) ==
  /\ mode[c] = "sched"
  /\ kernel_lock \in {NoCpu, c}
  /\ sched_yield(c)

\* sys_fork(): task_clone() takes the lowest free PID, the child shares the
\* parent's pages and goes on the global run queue.  The parent stays on c.
sys_fork(c) ==
  /\ "fork" \in Syscalls
  /\ UserEntry(c)
  /\ cur_task[c] \in UserPids
  /\ UserPids \ slot # {}
  /\ LET t  == cur_task[c]
         ch == Min(UserPids \ slot)
     IN /\ slot' = slot \cup {ch}
        /\ status' = [status EXCEPT ![ch] = "RUNNABLE"]
        /\ ppid' = [ppid EXCEPT ![ch] = t]
        /\ task_wait' = [task_wait EXCEPT ![ch] = NULL]
        /\ zombies' = [zombies EXCEPT ![ch] = {}]
        /\ children' = [children EXCEPT ![ch] = {}, ![t] = @ \cup {ch}]
        /\ runq' = queue_add_task(runq, ch)
        /\ nuser_tasks' = nuser_tasks + 1
        /\ orphans' = orphans \ {ch}
        /\ UNCHANGED <<cur_task, mode, local_runq, local_nextq, runq_len,
                       nkernel_tasks, kernel_lock, blocked>>

\* sys_kill(0): the current task destroys itself.
sys_exit(c) ==
  /\ "exit" \in Syscalls
  /\ UserEntry(c)
  /\ cur_task[c] \in UserPids
  /\ task_destroy(c, cur_task[c], status, runq)
  /\ UNCHANGED <<local_runq, local_nextq, runq_len>>

\* sys_kill(p) of a child: pid2task(p, 1) lets a task kill the tasks whose
\* parent PID is its own.  task_destroy() marks it dying, reaps its zombies
\* and, the victim not being the current task, calls sched_yield().
sys_kill(c, p) ==
  /\ "kill" \in Syscalls
  /\ UserEntry(c)
  /\ cur_task[c] \in UserPids
  /\ p \in slot /\ p # cur_task[c] /\ ppid[p] = cur_task[c]
  /\ slot' = slot \ zombies[p]
  /\ status' = [status EXCEPT ![p] = "DYING"]
  /\ zombies' = [zombies EXCEPT ![p] = {}]
  /\ orphans' = Orphaned(zombies[p], slot \ zombies[p])
  /\ mode' = [mode EXCEPT ![c] = "sched"]
  /\ kernel_lock' = c
  /\ UNCHANGED <<ppid, task_wait, children, cur_task, local_runq, local_nextq,
                 runq_len, runq, nuser_tasks, nkernel_tasks, blocked>>

\* sys_waitpid(p) with p = -1 for sys_wait().  Refused when the task has no
\* live child or waits for itself.  task_wait is set, the zombies are
\* reaped, and the call returns at once if the awaited child was among
\* them; otherwise the task leaves the CPU without being queued.
sys_waitpid(c, p) ==
  /\ IF p = -1 THEN "wait" \in Syscalls ELSE "waitpid" \in Syscalls
  /\ UserEntry(c)
  /\ cur_task[c] \in UserPids
  /\ LET t == cur_task[c] IN
     /\ children[t] # {} /\ p # t
     /\ p = -1 \/ p \in slot
     /\ task_wait' = [task_wait EXCEPT ![t] = IF p = -1 THEN t ELSE p]
     /\ slot' = slot \ zombies[t]
     /\ zombies' = [zombies EXCEPT ![t] = {}]
     /\ orphans' = Orphaned(zombies[t], slot \ zombies[t])
     /\ IF p \in zombies[t]
          THEN UNCHANGED <<cur_task, mode, kernel_lock, nuser_tasks, blocked>>
          ELSE /\ nuser_tasks' = nuser_tasks_set(nuser_tasks, -1)
               /\ cur_task' = [cur_task EXCEPT ![c] = NULL]
               /\ mode' = [mode EXCEPT ![c] = "sched"]
               /\ kernel_lock' = c
               /\ blocked' = blocked \cup {t}
     /\ UNCHANGED <<status, ppid, children, local_runq, local_nextq, runq_len,
                    runq, nkernel_tasks>>

\* A CPU spinning in the monitor with the kernel lock held: nothing moves.
Halted ==
  /\ \E c \in CPUs : mode[c] = "halted"
  /\ UNCHANGED vars

-----------------------------------------------------------------------------
(* Boot: kmain() creates the first user task (PID 1) and the kernel       *)
(* threads, all on the global run queue, and every CPU enters sched_yield. *)
Init ==
  /\ slot = {1} \cup KThreads
  /\ status = [p \in Pids |-> "RUNNABLE"]
  /\ ppid = [p \in Pids |-> NULL]
  /\ task_wait = [p \in Pids |-> NULL]
  /\ zombies = [p \in Pids |-> {}]
  /\ children = [p \in Pids |-> {}]
  /\ cur_task = [c \in CPUs |-> NULL]
  /\ mode = [c \in CPUs |-> "sched"]
  /\ local_runq = [c \in CPUs |-> <<>>]
  /\ local_nextq = [c \in CPUs |-> <<>>]
  /\ runq_len = [c \in CPUs |-> 0]
  /\ runq = <<1>> \o SetToSeq(KThreads)
  /\ nuser_tasks = 1 + Cardinality(KThreads)
  /\ nkernel_tasks = Cardinality(KThreads)
  /\ kernel_lock = NoCpu
  /\ blocked = {}
  /\ orphans = {}

Next ==
  \/ \E c \in CPUs :
       \/ Timer(c)
       \/ Schedule(c)
       \/ sys_fork(c)
       \/ sys_exit(c)
       \/ \E p \in Pids : sys_kill(c, p)
       \/ \E p \in Pids \cup {-1} : sys_waitpid(c, p)
  \/ Halted

(* The timer interrupt preempts every running task, and a CPU spinning on *)
(* the kernel lock gets it whenever it is free infinitely often.  System  *)
(* calls are up to the programs and get no fairness.                      *)
Fairness == \A c \in CPUs : SF_vars(Timer(c)) /\ SF_vars(Schedule(c))

Spec == Init /\ [][Next]_vars /\ Fairness

-----------------------------------------------------------------------------
(* Properties.                                                             *)

TypeOK ==
  /\ slot \subseteq Pids
  /\ status \in [Pids -> {"RUNNABLE", "RUNNING", "DYING"}]
  /\ ppid \in [Pids -> Pids \cup {NULL}]
  /\ task_wait \in [Pids -> Pids \cup {NULL}]
  /\ zombies \in [Pids -> SUBSET Pids] /\ children \in [Pids -> SUBSET Pids]
  /\ cur_task \in [CPUs -> Pids \cup {NULL}]
  /\ mode \in [CPUs -> {"user", "sched", "halted"}]
  /\ local_runq \in [CPUs -> Seq(Pids)] /\ local_nextq \in [CPUs -> Seq(Pids)]
  /\ runq_len \in [CPUs -> Nat] /\ runq \in Seq(Pids)
  /\ nuser_tasks \in Nat /\ nkernel_tasks \in Nat
  /\ kernel_lock \in CPUs \cup {NoCpu}
  /\ blocked \subseteq Pids /\ orphans \subseteq Pids

\* Tasks destroyed and waiting to be reaped by their parent.
Zombies == UNION {zombies[q] : q \in slot}

\* Tasks that must be somewhere the scheduler will find them: present in the
\* PID map, neither a zombie nor suspended in waitpid().
Schedulable == slot \ (Zombies \cup blocked)

\* CPU c holds t: t runs on c, or c is inside sched_yield() with the lock and
\* t as cur_task, about to put it on the next queue.
Holds(c, t) == cur_task[c] = t /\ (mode[c] = "user" \/ (mode[c] = "sched" /\ kernel_lock = c))

Occurrences(s, t) == Cardinality({i \in DOMAIN s : s[i] = t})

Placements(t) ==
  Occurrences(runq, t)
    + MapThenSumSet(LAMBDA c : Occurrences(local_runq[c], t)
                                 + Occurrences(local_nextq[c], t)
                                 + (IF Holds(c, t) THEN 1 ELSE 0), CPUs)

\* Placement: every schedulable task sits in exactly one run queue, next queue
\* or CPU, and no other task is in any of them.  Broken by a task dropped in
\* task_run() or queued twice by make_zombie_or_free().
TaskPlacedOnce ==
  \A t \in Pids : Placements(t) = IF t \in Schedulable THEN 1 ELSE 0

\* nuser_tasks, which sched_yield() uses to halt and to size each CPU's
\* share, counts exactly the schedulable tasks, kernel threads included.
NuserCountsSchedulable == nuser_tasks = Cardinality(Schedulable)

\* runq_len, kept by move_cur_task_to_nextq(), try_run_next_task() and
\* migrate_tasks_runq(), is the length of the local run and next queues.
RunqLenMatches == \A c \in CPUs : runq_len[c] = Len(local_runq[c]) + Len(local_nextq[c])

\* No task runs on two CPUs at once.
NoTaskOnTwoCpus ==
  \A c, d \in CPUs : c # d /\ mode[c] = "user" /\ mode[d] = "user"
                       => cur_task[c] # cur_task[d]

\* A task is adopted as a zombie only by the task that forked it: a task
\* whose parent was freed is never put among the zombies of a later task
\* that reuses the parent's PID (task_destroy() looks the parent up by PID).
NoAdoptionByReusedPid == \A q \in slot : zombies[q] \cap orphans = {}

\* A task with a zombie child it has not reaped passes the check for children
\* at the top of sys_waitpid(), so waitpid(child) collects a child that died
\* first (user/evilchild.c: kill(child), then waitpid(child) == child).
ZombieCollectable == \A t \in slot : zombies[t] # {} => children[t] # {}

\* A task suspended in waitpid() is woken only by the death of the child
\* it waits for, or of any child when it called wait() (spec, waitpid).
WakeOnlyForAwaited ==
  [][\A q \in blocked \ blocked' :
       task_wait[q] = q \/ task_wait[q] \in zombies'[q]]_vars

\* wait() suspends a task only when no child has died yet: a zombie child
\* is returned at once (reap_zombies() compares task_wait with each zombie).
WaitAnyReturnsZombie ==
  [][\A q \in blocked' \ blocked : task_wait'[q] = q => zombies[q] = {}]_vars

\* The kernel has stopped: a CPU found only kernel threads left and spins.
Stopped == \E c \in CPUs : mode[c] = "halted"

\* Every task that is ready to run eventually runs, leaves the scheduler or
\* the kernel stops: the stack-ordered queues, the next queue that a CPU
\* drains before it takes the current task again, and the balancing between
\* the CPUs in sched_yield() starve no task.
QueuedTaskRuns ==
  \A t \in Pids :
    (t \in Schedulable /\ status[t] = "RUNNABLE")
      ~> (t \notin Schedulable \/ status[t] # "RUNNABLE" \/ Stopped)

\* A killed task is eventually destroyed: it becomes a zombie or is freed,
\* also when it was suspended in waitpid() when sys_kill() marked it.
KilledTaskDestroyed ==
  \A t \in Pids : (t \in slot /\ status[t] = "DYING" /\ t \notin Zombies)
                    ~> (t \notin slot \/ t \in Zombies)

=============================================================================
