# A TLA+ verification of the Miosix kernel

Miosix is a small real-time operating system for microcontrollers: a preemptive
kernel with priorities, mutexes with priority inheritance, a POSIX layer,
processes, filesystems and drivers for many chips. Almost all of it runs on one
CPU, and correctness hangs on what may happen between two critical sections:
another thread, the timer interrupt, a driver's interrupt.

This directory models the kernel, its POSIX layer, its processes and the
concurrent part of its filesystem layer in TLA+, model-checks them with TLC on
small instances and proves part of them with TLAPS for every instance.
`PROJECT.json` lists components, runs, mutants, the map from definitions to
source lines, hazards, findings and theorems. Source paths below are relative
to `src/miosix/`.

## 1. Inventory

| Component | State | Operations | What is hard | What makes it correct |
|---|---|---|---|---|
| Queue (`kernel/queue.h`) | ring buffer, three cursors, one `waiting` pointer | put, get, waitUntil*, IRQput, IRQget, reset | two threads or a thread and an ISR share one wakeup pointer | FIFO, no lost wakeup, blocked calls return |
| Mutex, ConditionVariable (`kernel/sync.cpp`) | owner, heap of waiters, nesting depth; per thread: list of locked mutexes, saved priority, mutex waited for | lock, tryLock, unlock, wait, signal, broadcast, setPriority | chains of owners, heap keys that change, nested release, spurious wakeups | consistent ownership, inherited priority right and given back, bounded inversion |
| Kernel core (`kernel/kernel.cpp`), priority and EDF schedulers (`scheduler/priority`, `scheduler/edf`), preemption interrupt (`scheduler/timer_interrupt.h`) | thread lists, flags, sleeping list, `kernel_running`, `pendingWakeup`, one-shot timer | sleep, wait, wakeup, yield, pause/restartKernel, create, exit, setPriority, idle thread, timer and driver interrupts | interrupts at every boundary; preemption missed while paused; one-shot timer; no time slice in EDF | the right thread runs, no sleeper, preemption or switch forgotten |
| Thread life cycle (`kernel/kernel.cpp`) | DELETED, DETACHED, WAIT_JOIN flags, `joinData` union, `exist_deleted` | create, exit, join, detach, deallocation | join, detach and exit in any order; memory reuse | no stuck joiner, no dangling joiner, no leak, one join |
| OS timer adapter (`interfaces/os_timer.h`) | upper bits of the clock and of the request, `lateIrq`; hardware registers | get time, set interrupt, set time, handler | the counter runs between register accesses | exact time, no lost or early interrupt |
| FastMutex, pthread mutex, condition variable, once (`kernel/pthread*`, `sync.h`) | owner, depth, FIFO lists of records on the stacks of waiters | lock, trylock, unlock, wait, signal, broadcast, once | hand-off to a thread still on its way, spurious wakeups, a function that throws | lists and nesting consistent, every wait ends |
| e20 event queues (`e20/`) | list of events with a mutex and condition variable; ring with lists of waiting threads | post, postNonBlocking, IRQpost, run, runOne | posting from an ISR, many runners and posters, throwing events | FIFO, no lost wakeup |
| Process pool (`kernel/process_pool.*`) | bitmap, map of blocks | allocate, deallocate | alignment, the end of the bitmap | blocks inside the pool, disjoint, aligned; no leak |
| Processes (`kernel/process.*`) | table of processes, children, zombies, wait counts, pid counter | create, system, end of a process, waitpid | parents, children and several waiters ending and waiting concurrently | each process in one list, each collected once, waits end |
| Files and mounts (`filesystem/`, `kernel/intrusive.h`) | mount table, descriptor tables, reference counts | open, close, use, mount, umount, path resolution, tables of processes | no common lock between open, close and umount | references exact, nothing open on what was unmounted, right filesystem |
| Control scheduler | regulator state | as the other schedulers | | |
| Intrusive lists, ref counts, time conversion, ELF loader, libc glue, boot, drivers | | | | see section 7 |

Interactions: drivers and applications call Queue, Mutex and the Thread
operations; all of them end in flag changes and `Thread::yield()`, which runs the
scheduler; the scheduler sets the OS timer, whose interrupt calls back
`IRQtimerInterrupt()`. Mutex changes priorities through the scheduler. Each
module abstracts its neighbours to what they may do: in Queue and Mutex any
ready thread may run next, which covers every scheduling policy. EventQueue and
ProcessPool are built on FastMutex and are composed with it in Pthread; open()
and umount() share PathResolution.

## 2. Modules

Each component is a module; `MC*` instantiates it for TLC, `*Proofs` holds its
theorems. `MCIrq` instantiates Queue, OsTimer and FixedEventQueue, the components that
share state with interrupt routines, side by side (`IrqProofs` holds the theorems of the
first two); `MCMutexUses` instantiates Mutex twice, for two ways of using it. Definitions named `X_Something` before `X` are deliberate bugs of X,
used to confirm that the checked property would notice them; no specification
uses them.

**Queue, BoundedFifo.** An action is a section with interrupts disabled: from a
call's entry, or from the return of the `yield` in its loop, to the next `yield`
or the return. `QueueInit` chooses which of the two users, if any, is an interrupt
routine: that one calls `IRQput`/`IRQget` and never waits. `BoundedFifo`
is the promise to the users; `Queue!ImplementsFifo` instantiates it with `Items`,
the slots from `getPos` on.

**Mutex.** An action is a section with the kernel paused. The heap of waiters is
the set of its elements and its top: after `push_heap` on a heap the top is known,
after `make_heap`/`pop_heap` it is any element of highest priority. The inheritance
loop of `PKlock` is `WalkFrom`, the set of threads it visits. `held` and `base`
are history: what the application locked and which priority it asked for.
`ConditionVariable::wait(Mutex&)` is `cwait` up to its yield, then
`PKlockToDepth`. `Uses` says which operations each thread calls; every thread
calls the ones it uses at any time the interface allows. Callers lock mutexes in increasing order: in a cycle they
deadlock whatever the code does.

**Kernel.** One CPU. An action is a section that no thread can interrupt;
going to sleep and yielding are two actions, as are the decrement and the test
of `restartKernel()`, so an interrupt fits between. The test of `interruptDisableNesting`
(`kernel.cpp:179`) keeps a thread with interrupts disabled from yielding there; a section
with interrupts disabled is one action, and a pause and restart inside it change nothing. `thread_list` is the circular
list of each priority from its head. Time is relative to now, so no clock value
appears in the state: `Tick` brings every pending instant nearer, and an instant in
the past stays 0. `armed` is the one-shot timer. The OS timer is used here
through the guarantee OsTimer establishes: an interrupt set for an instant comes
at or after it, once. `DriverInterrupt` is the pattern of the serial driver:
wake the waiting thread and, if its priority is higher than the current one's,
call the scheduler. `policy`, chosen by `Init`, is the scheduler of the build. The sorted
list of the EDF scheduler is represented by its runs of equal deadlines, nearest
first, so that the rest of the module, which only compares, is shared; `missed`
records the requests for a context switch that were dropped.

**ThreadLife.** Threads are memory blocks, and a freed block may be reused by the
next `create` if it is in `Reusable`. Which ready thread runs is free; the idle thread runs when none is
ready. `joinData` is really a union: one variable holding a joiner or a result.

**OsTimer.** One action per access to a hardware register; `HardwareTick`
moves the counter between any two. `now` is the true time. The condition the code
states for its callers (interrupts are disabled for less than a hardware period)
is the guard of `HardwareTick`.

**FixedEventQueue.** An action is a section with interrupts disabled. The
`WaitingList` records on the stacks of blocked threads are the two sequences
`waitingGet` and `waitingPut`; `token` tells a real wakeup. It refines
`BoundedFifo` too.

**FastMutex, EventQueue, ProcessPool, Pthread.** `FastMutex` is the mutex of
`pthread_private.h` (recursive or not) with a condition variable, one action per section
with interrupts disabled; FastMutex of `sync.h` and `ConditionVariable::wait(FastMutex&)`
forward to the same functions. `EventQueue` and
`ProcessPool` call its lock, unlock, wait and signal; their steps are the
sections between those calls. The bitmap of the pool has the bits the constructor's
divisions give it (`Bitmap`), a test of a bit beyond has any outcome. `Pthread` composes the three with `pthread_once`;
`app`, chosen by `Init`, says which application the threads run.

**Process.** A section with `procMutex` held is an action. Kernel threads call
everything; a process calls what `handleSvc` allows and, for the sake of the code
behind it, the rest. `freed` and the place `"lost"` mark callers left with a deleted
Process. Memory for list and map nodes is not exhausted: a `bad_alloc` between lines 107
and 108 of `process.cpp` would leave a deleted process among its parent's children.

**PathResolution, Filesystem.** `PathResolution` is the pure function
`resolvePath` over the set of mount points, with its depth counter;
`Innermost` is the reference it is compared with. In `Filesystem` open() is
four actions (lock and find a descriptor; resolve; create the file; publish, count),
umount() is one per descriptor it looks at and one per retry. `intrusive_ref_ptr`
is the count of each file; `operator=`, not atomic, is two actions.
close(), and each round of closeAll(), comes at any moment, between those two as well,
and the address of a deleted file is free for the next one at once, whoever still points
to it. `late` and `torn` are history: opens that umount() overtook, and addresses of files
whose entry was taken before it was counted. What a second `delete` of freed memory does
to the heap, and to `openFileCount` of the filesystem, is not followed.

## 3. Runs

Passing runs:

| Run | Instance | Shows |
|---|---|---|
| irq | Queue of capacity 3, two values, with two threads or a thread and an ISR at either end; OsTimer with period 4 and time to 9; FixedEventQueue of 2 slots, 2 events, 2 posting and 2 running threads, interrupts | FIFO refinement of both queues, no lost wakeup at either end, lists of waiting records sound, blocked calls of Queue return; exact time, interrupt not lost, not early |
| mutex | nested: 4 threads of 4 priorities, plain and recursive mutex, condition variable with two waiters, one setter of priority; inversion: strict priorities, one mutex held at a time, a middle thread that need not stop | the four views of ownership agree and nobody sleeps outside a queue; the heap's top is the highest waiter at all times; priority given back; nesting survives `wait`; in the inversion the owner's priority is exactly max(own, waiters'), and the highest thread gets the mutex |
| kernel_timer | fair; either scheduler; 3 threads of 2 priorities: sleep, yield, nested pause, create, exit | the thread with the CPU may run, the timer is never left unset; round robin, every sleep ends |
| kernel_driver | either scheduler; 3 threads with sleep, wait, wakeup, driver interrupts, setPriority, pause, create, exit | thread and sleeping lists, due sleepers, no context switch forgotten but those dropped with the kernel paused |
| threadlife | 4 blocks, one of them used twice, several joins of a thread | joiner alive, no leak, no stuck joiner unless its target's memory was reused |
| pthread | 4 threads, recursion depth 1; 3 users of the mutex, 2 of them waiting on the condition; 2 posters, 2 runners; a pool of 32 blocks at base 8, sizes 8 and 16 | lists and nesting of the mutex, no event without a runner coming, no part of the pool in two images and none leaked, once exactly once; every wait for the mutex, the condition and an event ends |
| process | 2 kernel threads, pids 1 to 3 | process lists, wait counts, who may be left with a deleted process; no process, and no kernel thread that waits for a started process, sleeps for ever |
| filesystem | two threads of a process, one of which opens, and one that mounts; one descriptor, two file objects, mount points `/`, `/a`, `/a/b`, `/ab`; all paths of up to 3 components of `a`, `b`, `.`, `..` and those of 4 below `/a/b` | reference counts where nothing was torn, no file on what was unmounted but those of opens already past the path, innermost filesystem, forced umount closes the right files; open returns |

Runs that show a disagreement between the code and what it says of itself:

| Run | What the code does |
|---|---|
| mutex_chain | `PKlock` gives every owner along a chain the priority of the new waiter, also when the owner's was higher (`sync.cpp:89`): a low thread holding mutex 1 waits for mutex 2 held by a high thread, a middle one blocks on 1, and the high thread drops to middle priority |
| pool | the search of `allocate` includes the position one past the last block and does not look at where a block would end (`process_pool.cpp:69`): the block it returns need not be inside the pool, as `process_pool.h:58` says. Two processes ask for 16 of 32 blocks at a base aligned to 8, and the second gets blocks 24 to 39 |
| filesystem_umount | open() creates its file after it has released the manager's mutex: umount() in between finds nothing open and removes a filesystem that then gets a file, where the comment at `file_access.cpp:554` says that "other threads can't open new files concurrently while we check" |
| filesystem_close | `operator=` stores the pointer in the table before it counts it (`intrusive.h:365`): a close() in between, for which there is "No need to lock the mutex" (`file_access.cpp:124`), deletes the file open() still refers to |

### Observations

Where the code does less than a reader might expect, the models follow the code
and the properties name the exception:

- *Dropped switch.* A driver interrupt that wakes a thread while the idle thread
  has paused the kernel leaves no trace (`priority_scheduler.cpp:229`), and the CPU
  sleeps with a thread ready until the next interrupt (`missed` in NoSwitchForgotten).
- *EDF.* `setPriority()` ends in a yield under `isKernelRunning()`
  (`kernel.cpp:468`), which is never true there since the function has paused the
  kernel: a thread that moves its deadline away keeps the CPU. `create()` with
  the kernel paused, which `kernel.h` allows, does not yield either, and restarting
  the kernel does not make up for it. In `pthread_private.h:174` the test
  `#ifndef SCHED_TYPE_EDF` is the opposite of the comment above it (line 155): with EDF
  `pthread_mutex_unlock` never yields to the thread it wakes.
- *Join and memory reuse.* A joiner woken by `detach()` may find a new thread at the
  old address (`kernel.cpp:557`), sleep again and be registered nowhere
  (StuckOnlyByReuse).
- *tryLock of FastMutex* nests on an owned recursive mutex, where `sync.h:84` says it
  fails, as for Mutex below.
- *pthread_once* yields while another thread executes the function: with strict
  priorities a higher priority caller starves a lower priority executor. No liveness is
  claimed for it.
- *FixedEventQueue* wakes the last thread to block first: with steady traffic an
  earlier one can wait for ever, so no liveness is claimed for a blocked poster.
- *Process pool.* The constructor rounds the bitmap down to whole words: with a number of
  blocks that is not a multiple of 32 the last ones have no bit, and PoolNotShared is
  proved for multiples of 32 only (`WholeWords`). The pools of the linker scripts have 96
  and 1024 blocks.
- *waitpid.* A thread asleep in `waitpid(-1)` is not woken when its last child ends
  with another thread waiting for it by pid, when the creation of that child
  fails, or when it inherits zombies; and one asleep in `waitpid(pid)` on a process whose
  thread cannot be made sleeps for ever on a deleted condition variable (place `"lost"`).
  Only kernel threads, which share their children, are affected: `process.h:154-161`
  says nothing of it. WaitpidReturns claims that processes always return, deleted
  condition variables included, and kernel threads when they wait for a started
  process. `create()` reads `proc->pid` after the process may have
  been collected, and deletes one somebody may wait on if its thread cannot
  be made (OnlyKernelThreadsRace).
- *open, close and umount.* The runs filesystem_umount and filesystem_close show what goes
  wrong; OnlyLateFilesRemain and RefsConsistent show that nothing else does: umount()
  overlooks only files of calls that were past resolvePath() when it began (`late`), and
  counts are wrong only at addresses where an entry was taken too early (`torn`), also
  for the next file that is given such an address.
- *umount of `/path`* also unmounts a sibling `/path2`: the comparison is of characters.
  It takes a single call, plain in `startsWith` and `NamePrefixes`, and has no run of its own.
- *A final `..`* out of a filesystem mounted directly below another mount
  point resolves in the outer one (ResolvesToInnermost).

In two more places code and comments differ: `tryLock` on an owned recursive mutex nests and succeeds (`sync.cpp:201`),
where the header says it fails (`sync.h:170`); and a second `join()` that comes
between a thread's end and its joiner's wakeup succeeds in place of the first
(`kernel.cpp:544`), where the header says the first call gets the result
(`kernel.h:653`). The models follow the code: the second is in the instance of threadlife,
whose properties hold with it.

**Bounds.** Three threads give an owner, a waiter and a third in between; a
fourth is used where two waiters must compete below an inheriting owner (mutex, nested)
or where the freed block's user, the joiner and the detacher are all different
(threadlife). Two mutexes make a chain. `MaxDepth` 1 separates nested from not.
A sleep of 0 to 3 ticks ends before, at and after a time slice of 2 (kernel_driver:
0 to 2, and a slice of 1).
`MaxNesting` 2 tells an inner restart from the outer. A period of 4 puts a wrap
between any two of the three reads; `MaxTime` 9 spans more than two periods, so a
match in the wrong period occurs. threadlife is checked up to exchanging the two
blocks that play the same role; its properties are invariants, so this is sound.
`CHECK_DEADLOCK FALSE` is used for Mutex, ThreadLife and kernel_driver only, where all
threads may wait for a signal or an interrupt nobody sends, or have ended within the
bound. In FixedEventQueue two threads at each end and two slots make woken and
newly arrived threads compete for an event and for a slot. In irq and mutex a behaviour is
of one of the instances and the others rest, so that no interleaving of one is lost.
A pool of 32 blocks is the smallest with a whole word of bits; at base 8 a block of
16 leaves a gap before it and can straddle the end. In Pthread three users let two pass the mutex
to each other while a third waits. Three pids give a process, its child and
another child of its parent, and wrap the counter; in Filesystem one descriptor
is enough for a close and a reopen between a forced umount's look and its close, and two file
objects for the old and the new file. `Objects` 1 allows one filesystem at a time per
mount point: a new one is mounted there when nothing refers to the old.

**Fairness.** Queue: a ready thread blocked in a call gets the CPU (weak fairness
of the sections of a pending call; starting a call is never required).
Mutex: the same for `lock` and `wait` loops, sleeps end, and applications release
what they lock (strong fairness of `unlock` per mutex, since a boosted owner may be
preempted repeatedly). With `StrictPriority` fairness only helps a thread of the
highest ready priority, as in the scheduler.
Kernel: the running thread's kernel code proceeds, time passes, a due interrupt
is served, a paused kernel is restarted, all nested calls included (strong, since
a thread may nest again); threads need not call anything.
Pthread: a ready thread runs, applications give the mutex back (strong for
the outermost unlock, since they may nest again), and code inside the event queue
goes on; nothing is assumed of pthread_once, whose callers spin.
Process: a thread inside a call goes on and processes end (strong, since a process
may keep calling). Filesystem: threads inside open() and umount() run and get the
manager's mutex in their turn; an operation on a file may last for ever.
ThreadLife, OsTimer and FixedEventQueue are checked for safety only.

## 4. Proofs

All for arbitrary constants, any number of threads included, from the named
assumptions of the modules (`QueueAssumption`, `ThreadLifeAssumption`,
`OsTimerAssumption`, `FixedEventQueueAssumption`, `MutexAssumption`,
`FastMutexAssumption`, `EventQueueAssumption`, `PoolAssumption`,
`PthreadAssumption`, `KernelAssumption`, `ProcessAssumption`,
`FilesystemAssumption`) and nothing else. They say that the sets of
threads and of descriptor tables are finite and the sizes positive; `PoolAssumption` adds what the code demands
of its callers, that sizes are powers of two, and `KernelAssumption` that the time
which stands for "no preemption" is beyond every sleep and time slice.
`FilesystemAssumption` says that paths and mount points are sequences of names and that
the root can be mounted; which of them can be opened or mounted, and how many files
and descriptors there are, is free.

**IrqProofs, Queue.** `QueueInv` = types, NoLostWakeup and RingConsistent. They need
each other: that only one thread can be asleep is what lets each operation's first
statement, `IRQwakeWaitingThread()`, clear everything (`WakeClearsAll`), and the
range of `putPos` follows from the cursors' relation. Theorems: `QueueTypeCorrect`,
`QueueNoLostWakeup`, `QueueRingConsistent`, and `QueueImplementsFifo`: every step
maps to a FIFO put, get, reset or stutter under `Items`.

**ThreadLifeProofs.** `IInv` adds to the types that a thread inside `join` has a
target and that a thread not yet detached has not been joined (`JoinsTracked`), and
carries JoinerIsAlive and NoLeak. `ThreadsJoinedOnce` follows because completing a
join detaches. `JoinersWake` (StuckOnlyByReuse) rests on `JoinInv`: a
thread in `join` whose target's memory still holds the same thread is
registered with it until that thread ends or is detached, and either event wakes it;
the number of threads a block has held (`gen`) only grows, so a block once
reused is never again the one asked for.

**IrqProofs, OsTimer.** `ClockInv` adds to the clock equation what the code knows
between the reads of the pending bit trick (`ReadTracked`): without overflow the
counter has not gone below the first read; with it, the comparison tells on which side
of the wrap the first read was. Theorems: `OsTimerTypeCorrect`,
`ClockAlwaysConsistent`, `PendingBitTrick`. `IrqInv` says where the interrupt is from
the moment its time comes until it is delivered: in the match flag, forced with
`lateIrq`, or in the hands of running code that has not read the time yet or has
read one late enough. The step of the hardware tick needs that a time splits in
one way into period and count (`UniqueSplit`). Theorem: `RequestNeverLost`. It covers timers that need their match
register set a minimum time in advance (`quirkAdvance` > 0), which the run does not:
there `NeverEarly` fails harmlessly, since after a clock change the scheduler may be
called once more than asked. Without the quirk it is proved, `RequestNeverEarly`:
`EarlyInv` says that the match register always stands for the request in force and
that `lateIrq` is only ever set for a request that came due.

**FixedEventQueueProofs.** `QueueInv` = WaitingListsConsistent, NoneSleepsInVain and
RingConsistent. That the lists have no thread twice is what makes removing the head
wake exactly one thread, and the count of woken threads (`token`) on their way
back to the queue is what NoneSleepsInVain weighs against slots and events.
`FixedEventQueueImplementsFifo` is the refinement of `BoundedFifo`.

**MutexProofs.** `MutexInv` has four parts. `LinksInv`: owner, list of held mutexes,
waiting lists and `mutexWaiting` agree. `PlacesInv`: where a thread is in its call
says which of these it can be in. `DepthsInv`: the recursion depth against the calls
made, with what a thread in a condition wait has put aside. `SavedInv`: the saved
priority is the given one while a mutex is held. The heap step of the
inheritance loop is one lemma, used by lock, by the handing over in unlock and by
setPriority. `MutexInheritance` proves InheritsHighest when no thread holds two
mutexes; the run `mutex_chain` shows it false with two, so the hypothesis is the
boundary and not a convenience.

**PthreadProofs.** `PthreadInv` is the conjunction over the three applications of
`Pthread`: the mutex (ListsConsistent, CallsMatchOwnership and, for a thread in a
call, where ownership stands), `pthread_once`, the event queue (RunnersNotForgotten
with `SleepersLoop`: only runners inside run() sleep on its condition) and the pool
(PoolNotShared, for whole words, with `JobsMatch`: a thread in its job holds the image it
asked for; and `BlocksMatch`: the map has the images that start in the pool; those
beyond it, which the code returns too, may replace one another there). The pool's alignment rests on an arithmetic lemma about powers of two
(`ModAligned`).

**KernelProofs.** `KernelInv`, for both schedulers at once. Its parts: the thread
lists and the sleeping list are what the flags and priorities say; `ControlInv`: only
the running thread has the kernel paused, the idle thread only around
PKremoveDeadThreads, and a deleted thread is not asleep, without which a yield could be
lost or a freed thread be woken; CurrentIsRunnable; the timer is armed or the running
thread is `MakingUp` for a preemption that found the kernel paused; `SleepersCovered`,
the form of DueSleeperNotForgotten that the passing of time preserves (the timer is not
set after any sleeper, due or not); and `SwitchesCovered`, which follows a thread that
should have the CPU from the step that makes it ready to the switch. The list
operations are lemmas of their own: a list turned round (`Rotated`), with an element
linked in (`Linked`) or with elements unlinked (`Unlinked`, by counting ranks), and
the walk of the sorted sleeping list (`WalkStops`, `SleeperInserted`, `SleepersWoken`).

**ProcessProofs.** `ProcessInv` adds to FamilyConsistent (with membership for
counting), WaitersCounted and OnlyKernelThreadsRace two parts about threads.
`ParentsInv`: a parent still has its thread, and a thread's process lives; so a process
that is reaped, or whose creation fails, has no children to leave behind.
`CreatingInv`: a process being created is its creator's child, alive, without a thread,
and has one creator; a process inside create() or system() keeps its child. The step
that needs them most is start(): the lists it empties hold all the children there
are (`Orphans`), because a dead child missing from them would have a waiter in the
very thread that is ending.

**FilesystemProofs, paths.** `PathsResolveToInnermost` is about paths of any length, and
the depth counter is why it is not obvious: `resolvePath` never looks at the
mount table on `..` while `depthIntoFs` stays positive. The invariant of its loop is
`Tracks`: the filesystem reached is the innermost one of the directory reached, and
`depthIntoFs` is one more than the directory's depth below it. From that the counter
reaches zero exactly when the walk leaves the filesystem (`DepthTells`), and the
search from there finds the next one outwards (`FindFs`). A final `..` starts that
search one directory higher: the exception in the property, and the only one. An induction
over the components is out of the provers' reach (the library's rules take an operator
as a parameter), so `StepsTrack` argues by the first component at which `Tracks` would
fail (`LeastOf`): that is not before the first, and the round that leads there keeps `Tracks` (`NextTracks`).

**FilesystemProofs, files and mounts.** `FilesystemInv` has eight parts. `LockInv`: who
holds which mutex follows from where each thread is; a process with a thread in a call
keeps its table in the list. `UmountInv`: the loop of umount() stays inside the list,
which cannot change under it. `EntryInv`: a file is in one entry at most, and the
entry an open() chose stays empty until it fills it, although close() and umount() do not
take the mutex of the table. `CountInv`: references against `Holders`. Both speak of files
at addresses that are not `torn`; of the others nothing is known, and a new file at such an
address is one of them. That nothing points to a deleted file which was not torn
(`FreshUnused`) is what makes the reuse of its address harmless. `LateInv`: while
umount() holds the mutex every resolved open() was there before it; this is what makes the
last look of areAllFilesClosed() final. OnlyLateFilesRemain itself. `CloseInv`: the
entry a forced umount() is about to close holds a file of its targets or nothing, and no open()
past resolvePath() is heading for it; the second half is what keeps the first.
Each action has an `...Effect` lemma that says what it changes, each part of
the invariant one lemma with a step per action. References are counted as the number of
entries (one or none, `EntriesSize`) plus the number of calls (`CallsSize`), so that a
step of one thread changes two summands (`HoldersChange`). Theorems:
`FilesystemTypeCorrect`, `ReferencesCounted`, `UmountMissesOnlyLate`, `ForcedCloseSafe`.
The proofs hold with several threads mounting and unmounting, where the run has one,
and with any number of filesystem objects per mount point.

**Only model-checked:** liveness (BlockedCallsReturn, HighestNotInverted, HighestReadyRuns,
SleepersWake, WaitsEnd, WaitpidReturns, OpenReturns): TLAPS does not reason
about fairness and ENABLED here. Every invariant and action property of the passing runs is
proved, InheritsHighest, NeverEarly and PoolNotShared within the limits given above. Type correctness,
`RingConsistent`, `ClockConsistent` and `JoinedOnce` are proved and need no run.

## 5. Hazards

`PROJECT.json` lists them with the properties aimed at each. Not covered:
mutexes locked in a cycle (the inheritance loop then does not end; a documented
misuse) and interrupts disabled for longer than a timer period (assumed away, as in
the code).

## 6. Plan

All modules of the plan are in place and all their safety properties are proved. What
would come next: symbolic links, should a filesystem support them (`resolvePath` then
restarts inside its loop), and the BufferQueue of `kernel/queue.h`.

## 7. Not modelled

- The control based scheduler: a numeric regulator, experimental and off by default.
- Time conversion: 64 by 32 bit fixed point, beyond TLC at its widths.
- The ELF loader and memory map: sequential validation of a byte image.
- FAT32 and the contents of devfs and the console: wrappers and block I/O.
- In the filesystem layer: umountAll (at shutdown), symbolic links (no filesystem of
  the repository supports them), and what mkdir, unlink, rename and stat do after the
  resolution they share with open.
- In the process layer: the system calls that only forward to the file descriptor
  table.
- DynUnsyncQueue and BufferQueue: containers without synchronisation of their own.
- libc and libstdc++ glue, boot, logging, deep sleep, architecture ports and drivers
  apart from the interrupt pattern in Kernel; they are most of the repository's
  lines, and vendor headers most of theirs.
- Stack overflow checks and CPU time accounting change no modelled state.
