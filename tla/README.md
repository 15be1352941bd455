# RTContainer: TLA+ models and proofs

RTContainer adds containers to RTEMS 6: namespaces for process ids, host names, mounts,
network and IPC, control groups for CPU time, memory and IO, and a unified container that
bundles them.  This directory specifies the code that was added, under `src/cpukit`, in
TLA+; checks it with TLC on small instances; and proves, with TLAPS and for instances of
every size, most of the invariants that the runs check: the bookkeeping of the PID namespace
with the refinement of its abstract specification, the object tables of the IPC namespaces,
the counts and lifetimes of the unified container, and the accounts of the CPU, memory and IO
cgroups.  Section 5 says from which hypotheses, and what is left to TLC.

Reference configuration: one processor (`testsuites/container_abnormal/README.md`), all
`RTEMSCFG_*_CONTAINER` options and `RTEMS_CGROUP` on.

## 1. The system

| Component (source) | State | Operations | Interacts with |
|---|---|---|---|
| Unified container (`score/src/container.c`) | flags, pointers to its parts, attached thread | create, enter, leave, pause, resume, delete | calls all the others |
| PID namespace (`pidContainer.c`) | vids: `pidArray`, free list, high-water mark; thread list; `rc` | create, add, remove, move, delete, lookup | `taskconstruct.c` adds every new task to the root namespace |
| UTS, NET namespaces (`utsContainer.c`, `netContainer.c`) | `rc`; host name, network tables | create, move, delete | every thread points at one of each |
| MNT namespace (`mntContainer.c`, hooks in `sup_fs_eval_path.c`, `mount.c`, `unmount.c`) | `rc`, mount list; two static variables with the path under evaluation; reference counts of file systems (`sup_fs_location.c`) | create, inherit, move, delete; evaluate a path, mount, unmount | every path evaluation asks it where to start |
| IPC namespace (`ipcContainer.c`, hooks in `msgqconstruct.c`, `msgqdelete.c`, `semcreate.c`, `semdelete.c`) | `rc`, number; per kind of object a table, an inactive chain and a count; beside them the system-wide tables | create, move, delete; create and delete queues and semaphores | the directives fetch their table through the executing thread |
| CPU cgroup (`corecgroup.c`, `corecgroupimpl.h`, `cg*.c`, hooks in `threaddispatch.c`) | state, chain of members, available quota, suspend and resume watchdogs | create, add, remove, delete, suspend, resume, charge | clock interrupt, dispatcher, tasks |
| Memory cgroup (`heapallocate.c`, `heapfree.c`, `corecgroup.c`) | available quota, shrink callback, one flag; charge in every heap block | charge, credit, shrink, undo | the heap |
| IO cgroup (`io_cgroup.c`) | manager with bandwidth and total weight; weight, limits, window of a group; weights of threads | create, delete, weights, limits, request | block device users |
| Container file system (`containerfs.c`) | two tracking arrays | text commands for all of the above | calls all of the above |
| Container log, monitor (`containerlog.c`, `monitor.c`) | ring buffer | log, print | called by all |

None of the container code takes a lock of its own.  What makes it hard:

* **Concurrency.**  Suspend and Resume run in the clock interrupt, in the dispatcher with
  interrupts disabled, and in tasks.  enter() and leave() are long sequences of calls that
  another thread may interleave with.  Path evaluations of all threads share two static
  variables.  IPC directives look their table up again for each of their parts.
* **Failure.**  create() can fail at each of seven parts; enter() undoes nothing; the PID
  move refuses silently; malloc() may fail between two halves of an update.
* **Lifetime.**  Control blocks of threads and groups are recycled while threads, heap
  blocks and watchdogs still name them.  Task deletion tells no container.
* **Limits.**  The high-water mark of vids, the period of 0 ticks, integer rates, the bits
  of an object id.

`PROJECT.json` lists these hazards at their lines, with the property that looks at each.

What makes a component correct:

* PID: vids partition into used and free; nobody's vid is taken; counts match members.
* Unified: counts are exact, nothing leaks, leaving is complete, no pointer dangles.
* CPU: members run at most the quota, are released again, and the dispatcher stays
  consistent with the loaded context.
* Memory: available quota plus charges is the limit.
* IPC: every object is idle, in a directive's hands or open; an id means its object inside
  the namespace and nothing outside.
* MNT: a path starts in the deepest mount of its namespace; a file system is never destroyed
  under a user and gets no new ones once unmounted.
* IO: weights add up, limits fit the bandwidth, a window carries what its time allows.

## 2. Modules

Each module has a header that names its abstractions.  `Calls`, in PidContainer,
CpuCgroup, IpcNamespace and MntNamespace, is the set of optional behaviours of the environment: operations some callers
never use, and failures that may be switched off.  A run names the behaviours it allows; a
behaviour missing from it is one under which its property fails (section 4). The other
modules always allow everything and carry history variables instead, which say what a
property may no longer promise: `forgiven` and `race` in MemoryCgroup, `astray` and `refused` in
UnifiedContainer, `explicit`, `lowered` and `wrapped` in IoCgroup; so do `astray` in PidContainer,
`irregular` and `abandoned` in CpuCgroup, `dangling` in IpcNamespace and the fields `clean` and
`moved` of an evaluation in MntNamespace.

**PidContainer** — `pidContainer.c` with the task creation of `taskconstruct.c`. Variables
are the fields of `struct PidContainer` per container, `ptr` is the thread's own pointer,
`life` says whether the memory is allocated.  Each function is an action; `delete()` is a
call, one step per migrated thread and an end, and no other call interleaves with it.  The
free list, always ascending, is a set; the thread list is a bag, since a recycled thread
control block is linked twice.  A call that returns early changes nothing and is no step, except where its caller goes on:
enter() and leave() set the thread's pointer after move_task() whether it moved the thread or
not (`MoveRefused`, for `container.c:410` and `:541`).  `astray` collects the threads this
happened to.  `Calls`: `"task_delete"`, `"remove_task"`, `"malloc"`, `"enter"`.

**VidAllocator** — the abstract specification of the numbering: each container numbers its
members, a newcomer gets the smallest number nobody has.  PidContainer implements it under
the mapping `Numbering` (`pidArray` of the allocated containers): add_task() is `Give`,
remove_task() `Release`, move_task() `Transfer`, delete() a `Transfer` per migrated thread
and `Dissolve`, and the free list with its high-water mark is the mechanism.

**CpuCgroup** — one group, the dispatcher, the clock interrupt and tasks.  `phase` follows
`_Thread_Do_dispatch()`: `"run"` outside, `"loop"` inside with interrupts disabled,
`"switched"` after the context switch with interrupts enabled.  `executing` and `context`
are separate: the first is the per-CPU field, the second the thread whose registers are
loaded.  Suspend and Resume are atomic in the interrupt and in the dispatcher; as a task's
call they are `CallBegin` (state changed, dispatching still enabled), `CallDisable`, one
`CallVisit` per chain node, `CallEnd`.  leave() takes a thread off the chain (`LeaveRemove`) and then clears its fields (`LeaveClear`),
and may be preempted in between (`leaving`); `RawRemove` is the directive by itself.  `orphan` is
the suspend watchdog of a control block that was deleted, armed by the dispatch of a thread that
still names it, and initialised again while it is linked.  `used`, `stint` and `missed` are
history variables, and so are `irregular`, which says that a call other than a pause met a
suspended group or that a group was deleted while threads named it, and `abandoned`, the latter
alone.
The heir after any change is any ready thread, so every assignment of priorities is covered.

**MemoryCgroup** — one control block that is recycled, and the blocks of the heap.  Heap
operations hold the allocator lock.  An allocation is split at its looks at the quota, at the
shrink callback, which may free blocks, and at the subtraction, because memctl `set` takes no
lock: it may lower the quota after the look (`SetLimit` in phase `"charge"`, after which the
subtraction wraps) or fall into a read-modify-write of the quota, whose store undoes it
(`SetLimitLost`, `FreeOverSet`).  `race` says which of the two happened last; a negative `avail`
stands for a wrapped one.  A thread of a deleted group goes on charging the pooled block.
`forgiven` is the sum of the charges that were outstanding when creation or memctl `set` made
the whole limit available.

**UnifiedContainer** — the calls of `container.c` as frames with the set of parts yet to
visit, which a call visits in the fixed order of the code (`Order`, `First`); one part is a
step, and threads interleave between the steps.  Composes the namespaces'
membership and counts (`rc`, `ptr`, `numbered`), the cgroup's chain and the IO cgroup's list.
`numbered` are the threads with a vid in a PID namespace, `nodeless` those of them that root's
thread list does not have.  The PID move may refuse, for the reasons PidContainer has; the
pointer is set nevertheless, and `refused` says so.  delete() of a PID namespace may have each
of its threads refused by root, or taken without a list node (`Taken`).  Any part may fail to
be created, an enter() may fail at the cgroup or at the IO cgroup, and a thread may enter a
second container; `astray` collects the threads whose enter() failed or was nested.  `Share`
lets two calls work on one container at the same time.  While it removes routes, the network
namespace's delete() points the deleting thread at it and back, under the network semaphore;
the model shows the pointer before and after.

**IoCgroup** — manager, groups, threads' weights and the request path.  Time is the number
of ticks since a group's window started, capped where every window has expired.  `recent`
holds the bytes granted in each tick of the last second; `explicit` says that `set_limits()`
came after the last division of the bandwidth, `lowered` which groups were given less weight
than their threads have.  The weights of a group's threads are added modulo `Wrap` (2^32 in the
code), and `wrapped` are the groups whose sum passed it.

**IpcNamespace** — the object tables.  `rtems_message_queue_create()` and
`rtems_semaphore_create()` are `Fetch` (the table, through the executing thread, before the
mutex is held), `Allocate`, then `Open` or `OpenFails`; deletion is `Close` and `Free`.
Between these steps other threads run, hold back at the allocator mutex (`MutexFree`), and
the thread's namespace is looked up again, as in the code.  The inactive chain keeps its
first, last and next pointers, so that appending a linked block corrupts it as it does in
C.  `table` has the extra entry that `_IPC_Semaphore_Free_static()` writes to.  An id is
the node field, kind and index; `NodeField` has the containerID run into the API bit.
Queues and semaphores of a namespace are equally many, which the code does not require.
`Calls`: `"stale_delete"`, `"move_inside"`.

**MntNamespace** — mount lists, the evaluation of absolute paths and the references.  An
evaluation is `EvalBegin` (path into the static variable), `EvalRoot`, `EvalCurrent` (the
two get_container functions, each of which looks up the mount, sets the rest of the path
and increments a count), `EvalNowhere` or `EvalStart` (obtain and walk), and `EvalEnd`;
unmount() is an evaluation with `Unmount` or `UnmountRefused` before its end and a wait
after it.  `FindBest` is the loop of `find_best_mount_for_path()` as a fold over the list,
`Walk` the loop of the file system over names, `Without` the list without an extracted entry, `Settle` what a release may set off.
Deferred releases are counted and flushed by the next obtain, as in `sup_fs_location.c`.
A namespace that inherits clones the entries of its parent, each with a reference of its
own.  Threads in `Private` have an environment of their own, whose current directory stays
in `/`; only these can unmount.  A
mount() that fails evaluates its path and clears the static variables (`MountFails`).  enter()
may move a thread to another namespace in the middle of its evaluation: `moved` marks the
evaluation, and `Looks` says in which stages it may still look anything up.  `Calls`:
`"stray_unmount"`, `"move_inside"`.

`MC*` modules add the symmetry sets, flag sets and paths for TLC.  **Sums** has the sum of a
function over a finite set, which the memory and IO cgroups use for charges and weights.
**PidContainerProofs**, **IpcNamespaceProofs**, **UnifiedContainerProofs**,
**CpuCgroupProofs**, **MemoryCgroupProofs**, **IoCgroupProofs** and **MntNamespaceProofs** hold
the proofs about the module in their name, **FoldTheorems** the lemmas on induction, sums,
maxima and folds that they share.

## 3. Runs that pass

| Run | Shows | Instance and bounds |
|---|---|---|
| `PidAll` | types, vid partition, linked threads have vids, no vid is taken, VidAllocator is implemented | 2 threads, 1 child, 3 vids; a thread at most twice in a list (`MaxNodes`); task deletion, `remove_task`, failing malloc |
| `PidDisciplined` | exact counts; except for threads whose move was refused, no dangling pointer and lookup agrees with the pointer | 3 threads, 2 children, 2 vids each; failing malloc, enter() and leave(); no task deletion, no `remove_task` |
| `CpuQuota` | members run at most quota plus unchargeable ticks, are blocked iff the group is and are released again; dispatcher consistent outside a leave() under way | 2 threads, quota 3, period 4; ticks in the switch, leave() in two steps; no pause, no thread that adds itself, no membership change of a suspended group; no symmetry |
| `CpuAll` | the quota never wraps; after an interrupted pause members of a suspended group are blocked; watchdogs of a pooled control block are not scheduled | 2 threads, quota 1, period 2; all optional calls |
| `MemCharge` | available quota plus charges is the limit; the quota wraps only by a memctl `set` after the look at it | 3 blocks of up to 3 bytes, limits 2 and 5 |
| `UniCalls` | types, exact counts, owner keeps its parts, no leak, namespaces alive, leaving complete but for a refused PID move; while no enter() failed or was nested no pointer dangles; threads that are not astray stay in | 2 threads, 2 containers, flag sets `Few`; calls on one container do not overlap |
| `IoRates` | weights add up, limits fit, threads fit; the bytes of a window are bounded for its time, those of a second by two windows | 2 groups, 2 threads, weights 1 and 2, sums modulo 4 (`Wrap`), bandwidths 5 and 7, 2 ticks a second, windows of 2 and 3 ticks, requests of 3 bytes; threads come and go while no window has moved (`Apart`: no action reads both) |
| `IpcCalls` | types, objects conserved, queues reachable, ids isolated, no stale entry in the system-wide table | 2 threads, 1 child; 2 objects of each kind in root, 1 in the child, 2 system-wide; namespace numbers up to 5 (`MaxId`) with the API bit at 4 |
| `MntReferences` | types, counts cover their users, no new users after unmount | 2 threads, one of them private, 2 children, one mount point, 3 evaluations (`MaxEvals`) |
| `MntSelection` | own and deepest mount selected, evaluations confined | 2 threads, 1 child, mount points `/a` and `/a/b`, 2 evaluations; opens may be moved inside (`move_inside`, `OnlyOpensMoved`) |

Why the bounds are enough to be interesting: two vids with two or three threads reach the
full and the recycled case of each container and make it refuse the third; a quota of 3 in 4 ticks lets two members share
a period, switch inside it and exhaust it; two threads and two containers contain every pair
of calls that overlap on different containers; 3 blocks fit, fill and overflow each limit, and the smaller limit is below one that was looked at; two threads compete for a group's weight, and three units of weight more wrap their sum; 5 and 7 bytes a second
do not divide evenly between two groups, and requests of 3 bytes are refused at the start of a window
and granted later in it; the child of `IpcCalls` is created and deleted often enough for the
namespace number to pass the API bit, its single object exhausts, and root's two let one
block be appended behind another; two evaluations overlap in every way two can, and the third
of `MntReferences` follows an unmount() that others were inside of.  `Few` has three kinds of container: UTS and IO, where enter() fails at
its end; UTS and IPC, where it cannot; PID and cgroup, where the move may be refused and the
cgroup may be another container's.  MNT and NET are not in it: for what UnifiedContainer models of
them they are UTS under another name.

Deadlock is checked in all runs but those of MntNamespace, where unmount() waits for the last
reference and really may never return (section 4): the other models cannot get stuck.  CpuCgroup has two
kinds of terminal state (`Stray`), from which what the hardware does is not modelled:
`executing` and the loaded context disagree (`Confused`), which `ExecutingIsContext` allows only
while a leave() is under way, and a watchdog was inserted that is still linked (`Tangled`), which
needs a group deleted under threads that name it.

**Fairness** is assumed in CpuCgroup only: the clock interrupt keeps coming (strong, since
interrupts are disabled again and again), interrupt service and dispatcher run to their end,
and a pause or resume call goes on whenever its thread is given the processor again and
again. Nothing is assumed of the tasks' own choices.

## 4. Disagreements with comments and tests

Two runs check one property each that quotes a header, and TLC finds it violated by what the
code does; the counterexample is the sequence of calls.  `PROJECT.json` quotes the lines.

| Run | The code |
|---|---|
| `IpcSemaphore` | enters a semaphore at its index minus one and clears the entry at its index when it is freed: the neighbour's id becomes invalid (3 semaphores) |
| `MntUnmount` | takes a reference in `get_container_root_location()` that nobody gives back, also in unmount() itself: the file system is never destroyed and unmount() never returns |

Met while modelling, without a run of their own; they are why some properties carry a
condition or some runs leave a call out:

* PID: `delete()` loses threads when root's high-water mark is at the limit
  (`pidContainer.c:63`); vids of deleted tasks are never given back, so that in time root
  refuses every new task, although `taskconstruct.c:262` has a created task join root; a
  deleted task's list node is found through the recycled control block, so `PointersAgree`
  needs no `task_delete`; enter() and leave() set the pointer of a thread whose move was refused
  (`container.c:410`, `:541`), which stays on the old list and keeps its vid there, and may be
  left with a pointer to a freed namespace (`astray` in `PointersAgree`, `refused` in
  `LeftForGood`); `remove_task()` drops a reference for
  a thread that is no member (`:164`), so `RcCountsMembers` needs no `remove_task`.
* CPU: a period that starts between pause's state change and its loop leaves members blocked
  in a group that counts as running, whose resume is refused, where
  `container_abnormal02/init.c:169` expects it to succeed (`BlockedWithGroup` without
  `suspend`); with the period 0 that memctl `create` gives a group the resume watchdog is due
  again in the tick that serves it, and the interrupt never ends (the runs have periods of at
  least one tick); `max_threads` is never compared; adding a running thread takes no timestamp, so its
  first charge covers earlier time; a group deleted with members has its watchdog armed by
  their dispatch, and the next creation initialises it while it is linked (`PooledUnarmed` needs
  a group that was not `abandoned`); the dispatcher's `continue` ends
  the loop without a switch when suspending changed nothing (`threaddispatch.c:317`: a
  member removed by `rtems_cgroup_remove_task()`, one added to a suspended group, a pause
  that finds the quota used up, or a member interrupted inside its own pause), so `ExecutingIsContext` is checked without those; an ordinary leave() that is preempted between
  `container.c:592` and `:597` gets there too, and is the exception the property names; a thread
  removed from a suspended group keeps its wait bit (`Replenished` without
  `remove_suspended`).
* Memory: a recycled control block keeps the callback of the group before, and is credited
  for that group's blocks (`forgiven`); `_Heap_Resize_block()` grows a block in place
  without a charge; with `HEAP_PROTECTION` the free that undoes an allocation is delayed,
  and the flag that belongs to it is used by another one; memctl `set`
  (`containerfs.c:1139`) takes no lock, so that it may lower the quota between the heap's look and
  its subtraction, which then wraps, or be overwritten by the heap's store (`race`).
* Unified: two threads that enter one container both pass the check of the attached thread,
  and the second takes the attachment of the first (`EnteredStays` with `Share = TRUE`), where
  `container07/init.c:224` asserts that it is attached; a thread that enters a second container is moved out of the namespaces of the
  first and stays attached to it (`astray`); an IPC namespace deleted under a thread whose
  enter() failed redirects nobody, and when its address is used again that thread's leave()
  takes the reference of the new owner: counts and pointers of IPC are checked only as far
  as `PointersAlive` says.
* IPC: with `move_inside`, one directive allocates in one namespace and opens in another
  (`QueueReachable`); with `stale_delete`, a queue that stays in its namespace's table is
  deleted twice and its block appended twice to the inactive chain (`Conserved`); the
  system-wide tables, into which semaphores of all namespaces are entered by index, have
  fewer entries than root may have objects and mix up namespaces, so that
  `rtems_semaphore_ident()` crosses them; a namespace may be deleted under a directive that
  fetched its table, and with semaphores that threads wait for (`NsDelete` leaves both out); the
  initialisers of a new namespace return silently when malloc() fails (`ipcContainer.c:302`,
  `:311`, `:469`, `:478`), and the first directive there calls through a NULL pointer (not
  modelled).
* MNT: unmount() by a thread without an environment of its own always finds its current
  directory in the file system and reports EBUSY; through an inherited entry it takes the
  original off the parent's list; with `stray_unmount` the count falls below its users
  (`RefCovers`), and the freed entry is still named by the mount point.  Which mount is
  selected depends on the order of the list once an entry lost its file system
  (`mntContainer.c:416`), hence the condition of `OwnSelection`.  A namespace that inherited
  `/` reaches through it whatever another one mounts later, and the evaluation with a parent
  (unlink, rmdir, rename) starts in the system's root where its namespace has none, although
  `container05/init.c:288` speaks of isolated namespaces: `Confined` promises no more than it
  says.  The lookup and the increment of a count (`mntContainer.c:447-472`) hold no lock; a lost
  increment, and an entry freed in between, are not modelled.
* IO: the window that is called sliding restarts, hence the two windows in `BurstBounded`;
  limits set explicitly are overwritten by the next change of any group (`explicit`);
  a thread weight near 2^32 makes the sum of a group wrap past the check against the group's
  weight (`io_cgroup.c:240`, `wrapped`).

## 5. Proofs

All theorems hold for every set of threads, containers, namespaces, groups and blocks, and for
every size, quota, period, weight and rate.  The assumptions are the named ASSUMEs of the
modules, which TLC evaluates in the runs: sizes are numbers in the range the code accepts,
the names of NULL and of the root object are not names of others, and, where things are
counted or summed, the sets are finite.  Some theorems have a hypothesis on `Calls` or `Share`;
it names the behaviour under which the property really fails (section 4), and the run of the
same property has the same restriction.

**PidContainerProofs**, for every limit of at least 2:

| Theorem | States | Hypothesis |
|---|---|---|
| `PidTypeCorrect`, `VidPartitionHolds` | `TypeOK`, `VidPartition` | |
| `VidNeverStolenHolds` | `VidNeverStolen`, an action property | |
| `PidImplementsAllocator` | `ImplementsAllocator`, the refinement of VidAllocator | |
| `PidLinkedHasVid` | `LinkedHasVid` | |
| `PidRcCountsMembers` | `RcCountsMembers` | no `"remove_task"` |
| `PidPointersAgree` | `PointersAgree` | no `"remove_task"`, no `"task_delete"` |

The core is `VidInv == TypeOK /\ VidPartition`; neither half is inductive alone: that a new vid
is inside `pidArray` needs the partition (an empty free list means that all vids up to the mark
are used, so the next one is the mark plus one), and the partition needs the types for its
intervals.  `NextVidIsFresh` is the heart: the vid handed out is unused and extends the
partition.  One lemma per action shows `VidInv'` together with the action property.  For the
refinement, `NextVidIsFirst` uses `VidInv` once more: the vid handed out is the smallest without
an owner; then each action is a step of the allocator or changes no number.  `LinkInv` adds
that in every list a thread has at least as many vids as nodes.
`RcInv` adds the count of the used vids, and that a container whose count is -1 is the one being
deleted: otherwise a late move_task() could drop its last reference twice.  `MemberInv` says of
every node and every pointer of a thread that is not astray which container, or which delete(),
is responsible for it; that an astray one cannot spoil the others is the point of the theorem.

**IpcNamespaceProofs**:

| Theorem | States | Hypothesis |
|---|---|---|
| `IpcTypeCorrect` | `TypeOK`, inductive as it stands | |
| `IpcIsolated` | `Isolated` | |
| `IpcIdentNotStale` | `IdentNotStale` | |
| `IpcQueueReachable` | `QueueReachable` | no `"move_inside"` |
| `IpcConserved` | `Conserved` | no `"move_inside"`, no `"stale_delete"` |

`Numbered` says that no two namespaces ever used carry the same number, because the counter
only grows; `NodeFieldInjective` carries that to ids below the API bit.  `Recorded` says that an
entry of the system-wide table stands at the index of its object, so that closing an object
clears the entry that names it.  `QueueInv` says that chains, tables and directives stay inside
one namespace and that open queues are in its table: otherwise an object appended to a foreign
chain would be opened at another one's index.  `ConsInv` is about the pointers of the inactive
chain: there is a sequence that has every idle object once (`Follows`), which `first`, `last` and
`next` follow.  Taking the first node and appending one are `Tail` and `Append` of that sequence,
but only because the object appended is not on it: that is where a stale deletion breaks the
proof.  `WalkFollows`, by induction over the number of steps, carries the sequence over to the
walk that `Conserved` is stated with, `ChainFits` bounds its length.

**UnifiedContainerProofs**:

| Theorem | States | Hypothesis |
|---|---|---|
| `UniTypeCorrect`, `UniNothingLeaks` | `TypeOK`, `NothingLeaks` | |
| `UniRcExact`, `UniOwnerKeepsParts`, `UniNamespacesAlive` | `RcExact`, `OwnerKeepsParts`, `NamespacesAlive` | `Share = FALSE` |
| `UniPointersAlive`, `UniEnteredStays`, `UniLeftForGood` | `PointersAlive`, `EnteredStays`, the action property `LeftForGood` | `Share = FALSE` |

`AllocInv` relates the frames of the calls to what they allocated: a live object is a part of a
container that was handed out, or that a frame is building or deleting.  It needs nothing of
`Share`.  `UniInv` adds that a container is in one frame at most (`Exclusive`, what `Share =
FALSE` buys), that the counts are those of pointers and owners and that what is counted is alive
(`References`), and three parts about where threads are: as long as nobody is astray a thread is
only in parts of the container it is attached to or is entering (`Homes`), a leaving thread has
left what it visited (`Leaving`), an entered thread is in all of it (`Staying`).  `References`
alone is not inductive: the reference dropped by delete() must be the owner's, which `Exclusive`
and `AllocInv` say, and a thread that leaves must still point at the namespace, which is where
`Homes` comes in for IPC, whose delete() redirects nobody.

**CpuCgroupProofs**, for every quota and period with the quota not larger than the period:

| Theorem | States | Hypothesis |
|---|---|---|
| `CpuTypeCorrect` | `TypeOK` | |
| `CpuSuspendedStops` | `SuspendedStops` | |
| `CpuPooledUnarmed` | `PooledUnarmed` | |
| `CpuQuotaRespected`, `CpuBlockedWithGroup`, `CpuExecutingIsContext` | the properties in their names | `QuietCalls`: no optional call but `"tick_in_switch"`; creating, adding, leaving and deleting remain |

`PauseInv` follows a pause through its loop: a member of a suspended group that is not blocked
is one the loop has yet to visit.  `PoolInv` says that nobody names a block in the pool unless
a group was abandoned, which is why no dispatch arms its watchdog.  `QuotaInv` has the control part (the wait bit of a member is the
state of the group, a new heir is announced whenever it differs from the loaded thread) and
the account: used time and available quota together never exceed the quota, the missed ticks
and the current stint, and a stint plus what the watchdog has left fits in the available quota.  The
watchdog, not the charge, is what stops a member, hence the relation between the two.

**MemoryCgroupProofs**: `MemTypeCorrect` and `MemConserved`, both from `MemInv == TypeOK /\ Flags
/\ Covered /\ Conserved`.  Outside the two races with memctl `set` the quota does not wrap because what is credited was charged before, and that
is `Conserved`; `Flags` says that the flag which suppresses a charge is back after every
operation and that a charged block is in use; `Covered` that an allocation about to be charged fits
unless a `set` came after its look.

**IoCgroupProofs**: `IoTypeCorrect`, `IoWeightsAddUp`, `IoSharesFit`, `IoThreadsFit`,
`IoWindowBounded` and `IoBurstBounded`, from `IoInv`.  The manager's total cannot wrap below
zero because it is a sum (`WeightsAddUp`); the sum of a group's threads is claimed until it wraps.  `SharesFit` is about integer division: shares rounded down add up to
no more than the bandwidth (`TotalScaled`).  `Windowed` strengthens `BurstBounded` from one
second to the last k ticks for every k (`LateFits`), together with the age of the current
window: a second that contains several restarts of the window is then covered by the window
that was under way when it began and by the time that passed since.

**MntNamespaceProofs**, for finite sets of threads and namespaces and any targets and paths:

| Theorem | States | Hypothesis |
|---|---|---|
| `MntTypes`, `MntRefCovers` | `TypeOK`, `RefCovers` | no `"stray_unmount"` |
| `MntConfined`, `MntOwnSelection` | `Confined`, `OwnSelection` | no `"stray_unmount"` |
| `MntNoNewUsers` | `NoNewUsers`, an action property | no `"stray_unmount"` |

Besides the types `MntInv` has four parts.  `Listed`: a listed original is mounted, and only the entry of an
unmounted file system is without one.  `Counted` is `RefCovers` extended to file systems that do
not exist: they are not released more often than obtained, and have no users, so that nothing is
destroyed under a thread that is inside.  `Undisturbed` follows a clean evaluation from
stage to stage: what the static variables hold is its own path and the rest of it, both lookups
select the same entry, and the place it arrives at is mounted.  `Below` says that a location
came from the list of the thread's namespace or was unmounted since.  The parts need each other:
a regular unmount() gives up a reference that it has just taken, which is only true because its
second lookup finds the file system it is in (`UnmountFinds`, from `Undisturbed` and `Listed`);
with a stray one the proof of `Counted` fails there.  What the three folds return is shown by
induction over their steps: `find_best_mount_for_path()` returns a usable match (`BestFound`),
the longest when all entries are usable (`BestLongest`), and an entry that is the path itself
(`BestExact`); the list after unmount() has all other entries (`WithoutItems`); a walk stays below
its start and ends in a mounted file system at the place the path names (`WalkEnds`).  The
theorems cover moves inside evaluations (`"move_inside"`); `Confined` and `OwnSelection` except the
evaluation that was moved.

**Induction over data.**  The installed provers cannot instantiate the library's induction
theorems, which take an operator.  Where a proof needs induction it is first-order:
`FiniteInduction` and `NumberInduction` (FoldTheorems) take the set of the sets, or numbers, for
which the claim holds, and are proved from the existence of a minimal counterexample.  Sums are
recursive functions over subsets; that the recursion has a solution is shown by giving one, the
number of units of all summands, so that the laws of sums follow from those of cardinality.
`FoldLeft` over a sequence is such a recursion too: `FoldExists` and `FoldPrefix` give the
results after each element, one after the other.

**Only model-checked**: the liveness property `Replenished`: fairness and ENABLED are beyond the prover.  The properties of runs that expect a violation are refuted, not
proved.

## 6. Not modelled, and plan

Not modelled: several cgroups at once and SMP; the delayed free of HEAP_PROTECTION builds;
`cpuctl set`, usage statistics and the state queries; locks inside RTEMS objects; PID calls
that interleave with each other; relative paths, symbolic links and chdir; the deletion of a
mount namespace with mounts of its own, which frees interior pointers; lost increments of
mount references; failing initialisers of IPC namespaces; a period of 0 ticks; messages, counts and
waiting threads of IPC objects; loopback and routes, which are the business of the BSD network
stack, and the packet carousel, whose implementation is not in the repository; parsing and
listing in the container file system; the log; the monitor; RTEMS itself, its board support and vendored code.

In order:

1. *ContainerFs*: commands, tracking arrays, the lifetime of the configuration a group
   points at.
2. *NetNamespace*: loopback set-up and route clean-up.
3. *ContainerLog*: the ring buffer.
4. A quota server as an abstract specification that CpuCgroup implements.
