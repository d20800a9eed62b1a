# Blocking and IPC in the LiteOS-A kernel: a TLA+ verification project

TLA+ models of the parts of the LiteOS-A kernel through which tasks wait for each
other, the TLC runs that check them on small instances, and TLAPS proofs of the
properties of the layer all of them rest on and of the semaphores.  `PROJECT.json`
maps every definition to the lines it models and lists runs, mutants, hazards,
findings and theorems.

## The system

LiteOS-A is a kernel for small devices (about 440,000 lines with drivers, file
systems and tests).  The parts, and what interacts with what:

| part | where | state | operations |
|---|---|---|---|
| blocking layer | `kernel/base/sched`, `include/los_sched_pri.h` | task status flags, pend lists, per-core timeout queues | wait, wake, delay, suspend, resume, freeze, exit, timeout scan |
| tasks | `kernel/base/core/los_task.c` | task control blocks, held locks, priorities | create, delete, suspend, resume, delay, set priority, join |
| semaphores | `kernel/base/ipc/los_sem.c` | count, maximum, generation, free list | create, delete, pend, post |
| mutexes | `kernel/base/ipc/los_mux.c`, `sched/los_priority.c` | owner, count, hold list, inherited priorities | init, destroy, lock, trylock, unlock, release on task deletion |
| message queues | `kernel/base/ipc/los_queue.c` | circular buffer, two counters, two pend lists | create, delete, read, write at head or tail |
| events | `kernel/base/ipc/los_event.c` | event bits, pend list | read, write, write once, clear, destroy |
| read-write locks | `kernel/base/ipc/los_rwlock.c` | signed count, write owner, two pend lists | read lock, write lock, try variants, unlock |
| futexes, signals | `kernel/base/ipc/los_futex.c`, `los_signal.c` | hash of waiters; pending and blocked sets | wait, wake, requeue; send, wait, handle |
| software timers | `kernel/base/core/los_swtmr.c` | timer states, sort link, timer task queue | create, start, stop, delete, expire |
| processes | `kernel/base/core/los_process.c` | process states, children, groups | fork, exit, wait |
| memory | `kernel/base/mem`, `kernel/base/vm` | heap, pages, mappings, shared memory | allocate, map, fault |
| extensions | `kernel/extended` | LiteIPC, containers, process limits, power, tracing | |
| the rest | `compat`, `fs`, `syscall`, `net`, `drivers`, `arch`, `shell`, `security` | | |

Semaphores, mutexes, queues, events, read-write locks and futexes all block a task
with `ops->wait` and release it with `ops->wake`; the tick interrupt ends timed
waits behind their backs; `LOS_TaskSuspend`, `LOS_TaskResume` and
`LOS_TaskDelete` act on a task in the middle of any of these calls.  That is where
the behaviours hard to test are, and where the models start:

* a wait is over when the task is taken off the list, but the task runs later, and
  everything can happen in between;
* a timeout races a wake, a suspension delays the return, a deletion cancels it;
* objects hand a permit, a slot or the lock to a task that is not running yet;
* on several cores the timeout scan drops its lock between unlinking and waking;
* objects are deleted, and their control blocks reused, by index and generation.

## Modules

One critical section under the scheduler lock (`g_taskSpin`) is one action.  Where a
critical section contains a loop, or updates that are clearer apart, a variable
records that the lock is held and excludes all other steps (`deleting` in `Mux`,
`busy` in `Queue`, `posting` in `Rwlock`, `writing` in `Event`).  A call that returns an
error changes nothing and is not a step; the exceptions are timeouts, and an unlock of
a read-write lock cut short at `INT8_MAX`, both modelled.
Some small operators marked "Mutant" state a plausible bug; no specification uses
them.

**TaskWait** - the blocking layer.  `taskStatus` holds the flags of each task,
`pendList` the lists, `node` the state of the task's timeout node, `waitOn` the
list a task is inside `HPFWait` for.  `HPFWait` and `HPFWaitReturn` are the halves
of `HPFWait` before and after the context switch.  `TimeoutScan` is one turn of
`SchedTimeoutQueueScan`; with several cores it can also fall apart into
`TimeoutScanPop` and `TimeoutScanWake`, where the queue's lock is dropped.  `TaskSuspend`, `TaskResume` and `TaskResumeExpired` include
`SchedTaskFreeze` and the two branches of `SchedTaskUnfreeze`, which matter when
`FreezeOnSuspend` (no `LOSCFG_KERNEL_PM`, or `OsIsPmMode()`).  READY stands for READY
or RUNNING: any runnable task may step, which includes every schedule priorities
would choose.  Time is abstract: a linked node may expire at any tick.
`fault` records that a list operation met NULL links or a linked node.
`WaitSpec` is the abstract specification: it lets callers wait at any place of
any list and wake any waiter.  The objects below are shown to implement it.

**Sem** - `los_sem.c`.  Control blocks, handles with generations (`semID`), the free
list, and creation in its two steps: `OsSemCreate` fills the block in after releasing
the lock.  The stores that fill it in are one step, although no lock protects them:
nobody is given a valid handle of the block before the last of them, and callers use
handles they were given.  History variables `credit` and `stale` count permits and mark waits whose
semaphore has gone.

**Mux** (instances in **MCMux**) - `los_mux.c` with priority inheritance, restoration
and ceiling (`los_priority.c`), the ordered pend list (`OsSchedLockPendFindPos`),
timeouts, `LOS_TaskPriSet`, and `LOS_TaskDelete` with `OsTaskReleaseHoldLock`.
`priBitmap` is a set of priorities.  `holds` counts what callers were told.  Callers do
not initialise a mutex that is initialised: `LOS_MuxInit` does not check, and would
forget the owner and the waiters.

**SchedParam** - the pure part of priority inheritance and of the ordered pend lists,
on priorities and sets of priorities; used by `Mux` and `Rwlock`.

**Rwlock** (instance in **MCRwlock**) - `los_rwlock.c`: the signed `rwCount`, the write
owner, a list of readers and one of writers, and the hand-over of `OsRwlockPostOp` to
a writer or to a batch of readers, which `posting` takes one at a time.  A batch that
meets `INT8_MAX` ends there; the unlock then answers `EINVAL` although the lock has been
handed over.  Tasks unlock only what they hold, and priorities are fixed: neither
`LOS_TaskPriSet` nor inheritance by a mutex moves a task that is queued already, so with
changing priorities the lists need not be in order.  `holds` counts what callers were told, `lost` what went with
deleted tasks.

**Event** (instance in **MCEvent**) - `los_event.c`.  `uwEventID` is a set of bits.
`OsEventWriteUnsafe` is one step per reader it looks at.  `EventReadWait` and
`EventReadResumed` are the parts of `OsEventReadImp` before and after the wait.  The
Once calls are used on some events only (`OnceEvent`), because they leave satisfied
readers waiting by design.  `taken` marks readers whose bits went after their wake.

**Queue** (instance in **MCQueue**) - `los_queue.c`.  Counters, circular buffer, both
pend lists.  `QueueTake`/`QueueResumed` and `QueueComplete` are the two parts of
`OsQueueOperate` under one lock.  `msgs` is the sequence of messages a deque would
hold, `lost` what went with deleted tasks.

`Mux`, `Queue`, `Rwlock` and `Event` assume that suspension does not freeze a wait
(`~FreezeOnSuspend`: `LOSCFG_KERNEL_PM`, which is the default, outside power-management
mode).  The branch of `SchedTaskUnfreeze` for a wait whose time has passed is therefore in
`TaskWait` and `Sem` only; what it does to a caller, `sem_frozen` shows.

**MCTaskWait** - instance of TaskWait.  **TaskWaitProofs**, **TimeoutProofs**,
**SemProofs** - the proofs.

## Runs

| run | instance | properties | result |
|---|---|---|---|
| `wait` | 3 tasks, 2 lists, 2 cores, freezing | `WaitTypeOK`, `PendListConsistent`, `ReadyOrBlocked`, `TimeoutNotLost` | hold |
| `wait_smp` | 2 tasks, 1 list, 2 cores | `DelayLasts` | violated |
| `sem` | 3 tasks, 1 block, 2 generations, count up to 2 | `OkMeansWoken`, `TimeoutQueueExact`, `NoLostWakeup`, `WaitersKeepTheirSem`, `PermitsConserved`, `BlockOwnedOnce`, refinement of `WaitSpec`, liveness `TimedPendEnds` | hold |
| `sem_frozen` | 2 tasks, freezing | `PermitsConserved` | violated |
| `mux` | 3 tasks, an inheriting recursive and a protecting normal mutex, timeouts; t1 is suspended, deleted, given a priority | `MutualExclusion`, `OwnerConsistent`, refinement | hold |
| `mux_inherit` | 5 tasks of 3 priorities, 1 inheriting mutex, waits without timeout | `InheritanceKept`, `PriorityRestored`, `WaitersByPriority` | hold |
| `mux_null_owner` | 2 tasks, timeouts | `NoNullOwner` | violated |
| `mux_saturated` | 2 tasks, count stops at 2, depth 3 | `MutualExclusion` | violated |
| `queue` | 3 tasks, 1 queue of length 1 or 2, 2 messages; t1 is suspended and deleted | `SlotsConserved`, `BufferIsDeque`, `NoLostWakeup`, `QueueOutlivesWaiters`, refinement | hold |
| `rwlock` | 4 tasks of 2 priorities, 1 lock, count up to 2; t1 is suspended and deleted | `WriterExcludesOthers`, `CountExact`, `WaitersOnHeldLock`, `ReadersDoNotOvertake`, refinement | hold |
| `event` | 3 tasks, 2 events of 2 bits, one used with the Once calls; readers in OR mode that clear, in AND mode that do not; t1 is suspended and deleted | `NoSatisfiedReaderWaits`, `WokenReaderFindsEvent`, refinement | hold |

The violated runs show what the code does:

* `wait_smp`: the timeout scan of one core unlinks an expired task and drops the
  lock of its queue.  Before it takes the scheduler lock, the wait ends on the other
  core (here the task is deleted and its control block used again; a wake does as well)
  and the task begins a delay.  The scan sees the DELAY flag, makes the task ready at
  once and leaves the node of the new delay linked.
* `sem_frozen`: a timed pend is suspended in power-management mode, or in a build
  without `LOSCFG_KERNEL_PM`, its time passes, it is resumed.  `SchedTaskUnfreeze` takes it off the list without setting the
  TIMEOUT flag, and `LOS_SemPend` answers `LOS_OK` without a permit.
* `mux_null_owner`: a timed lock expires; before the waiter runs, the owner
  unlocks, nobody is on the list, `owner` becomes NULL; the waiter then calls
  `OsMuxBitmapRestore`, which follows it.
* `mux_saturated`: the count of a recursive mutex stops at `0xFFFF` (here 2) while
  the lock call answers `LOS_OK`; the mutex is free one unlock too early.

The priority properties are stated for the environment in which the code keeps
them: one mutex, waits ended by unlock, no `LOS_TaskPriSet`.  A waiter that times out
or is deleted takes its priority from the owner even if another waiter of the same
priority is left, and `LOS_TaskPriSet` overwrites an inherited priority.

**Bounds.**  Three tasks are a waiter, one that overtakes or deletes it and one that
wakes; the list orders that matter appear with two waiters.  Two lists show that a
node never moves to a wrong list.  Two generations let a block be deleted and
created again while a task still holds an old handle.  Lengths 1 and 2 put every wrap
position and the full and empty buffer next to each other.  `Managed` limits who is
suspended and deleted, `LockDepth` how deep a mutex is locked, `LockTimed`,
`RdTimed`, `WrTimed` and `ReadTimed` whether waits have timeouts.  Four tasks on a
read-write lock are a holder, two readers that make a batch at its limit and a
writer between them; two bits tell OR from AND and a partial write from a full one.  Symmetry is used for tasks (and lists and messages) that the
configuration does not tell apart, never in the run with liveness.

**Deadlock.**  `wait`, `mux`, `mux_inherit` and `rwlock` switch the check off: the
abstract layer stops at a fault, and tasks can lock in a cycle, or keep a lock and be
deleted, which is the callers' business.  In `sem`, `queue` and `event` the system
never stops.

**Fairness.**  Only `TimeoutScan(t)` is weakly fair: the tick interrupt keeps coming
and a finite timeout runs out.  Nothing is assumed of tasks.  `TimedPendEnds` is a
statement about suspension without freezing, as the `sem` run has it; a frozen pend stays
on the list until somebody resumes the task.

## Proofs

`TaskWaitProofs` and `TimeoutProofs` prove for any number of tasks, lists and cores:

* `WaitTypeCorrect`, `PendListCorrect`, `ReadyOrBlockedCorrect` - in every
  configuration, several cores and freezing included;
* `TimeoutNotLostCorrect` (`TimeoutProofs`) - in every configuration too: the timeout of a timed wait or a
  delay is in a queue, saved for the resumption of a frozen task, or in the hands of
  a core whose scan is about to wake the task;
* `OkMeansWokenCorrect` - without freezing (with it the property is false, see
  `sem_frozen`);
* `TimeoutQueueCorrect` - on one core without freezing.  On several cores a node is
  unlinked while its task is still in the wait.

The assumptions are `WaitConstants`: `None` is neither a task nor a list and
`FreezeOnSuspend` is a Boolean.  The inductive invariant `WaitInv` is the conjunction
of the three properties and `FlagsConsistent`: a timeout unlinks a task only because
PEND_TIME implies PENDING, and a delayed or deleted task must not be on a list.  That
a task appears at most once on at most one list is what makes `RemoveFirst` remove it
altogether.  `OkMeansWoken` needs `AnswerInv`: a task still pending has not been
woken, and TIMEOUT is set only in a task whose wait is over and that nobody woke.
`TimeoutQueueExact` needs `TimeoutInv`: no node is in a state only freezing or a
second core produces.  `TimeoutNotLost` needs `NodeInv`, which adds that a frozen task is
suspended and its node not linked: its node is then saved or on its way, and a
suspension never forgets it.  Lemmas state what inserting into and removing from an
injective sequence does; one lemma per action then shows which conjuncts it keeps.

`SemProofs` proves for any number of tasks, control blocks, generations and any
maximum (both sets finite, both numbers positive: `SemConstants`):

* `SemImplementsTaskWait` - every step of the semaphores is a step of `WaitSpec` or
  leaves the layer alone.  `WaitInv` is needed for it, since a post wakes the first
  task of the list and the layer wakes only tasks that are PENDING; and it follows
  from it, since `WaitNext` preserves `WaitInv`.  The theorems of `TaskWaitProofs`
  therefore hold of the semaphores;
* `SemTypeCorrect`, `NoLostWakeupCorrect`, `WaitersKeepTheirSemCorrect` and
  `BlockOwnedOnceCorrect` - from `SemInv`, which says with flags what the properties
  say with lists (a block somebody waits on has no permit and is in use), and adds
  that a count is at most its maximum.  The properties lean on each other: a new
  semaphore has no waiters because its block was in use by nobody;
* `PermitsConservedCorrect` - without freezing (with it the property is false).
  `PermitInv` adds `AnswerInv`, which makes the answer `LOS_OK` and the wake by a post
  the same thing, and that a task still inside a pend on a block not in use is
  marked stale.

The runs check that `Mux`, `Queue`, `Rwlock` and `Event` implement `WaitSpec`; the
theorems carry over to them on the instances the runs cover.

Only model-checked: everything about `Mux`, `Queue`, `Rwlock` and `Event`, and the
liveness property (liveness under fairness is beyond the prover).

## Plan

Done: TaskWait and Sem with proofs, Mux, Queue, Rwlock, Event.  Next, in this order:

1. Proofs of the other refinements of `WaitSpec`, then `MutualExclusion` (with a depth
   below the maximum), `WriterExcludesOthers`, `NoSatisfiedReaderWaits`, `SlotsConserved`.
2. `Swtmr`: start, stop and delete against the scan and the timer task; deletion of
   timers with their process.
3. The condition variables of the POSIX layer over `Event` (the broadcast, the count
   of waiters, the state machine of `pthread_cond.c`), and the futex hash.
4. Exit and wait of processes with signals; task join and detach; LiteIPC; shared memory.

Two cores run only in `wait`; running the objects on two cores comes with their proofs.

## Not modelled

The ready queues and the choice of the next task; time slices, EDF scheduling and
statistics; inter-processor interrupts; hooks, debugging and tracing; parameter
checks; contents and sizes of messages; `LOS_QueueInfoGet`; join and detach; everything
listed as `not_modelled` in `PROJECT.json`, with the reason.
