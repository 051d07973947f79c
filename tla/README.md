# GR8OS in TLA+

GR8OS is a small preemptive operating system for 32-bit PCs, written in C++ and
assembler: one processor, one kernel (`src/kernel`), a few loadable drivers
(`src/keyboard`, `src/ide`, `src/pci`, ...) and a loader.  This directory holds
TLA+ modules of the parts of the kernel and its drivers whose correctness is a
matter of order and interleaving, TLC configurations that check them on small instances, and
proofs that the TLA+ proof system (TLAPS) checks for instances of every size.

- `Scheduler.tla`, `SchedulerProofs.tla`, `MCScheduler*`: threads, events, mutexes
- `ObjectManager.tla`, `ObjectManagerProofs.tla`, `MCObjectManager*`: objects, directories, links, handles
- `Heap.tla`, `Allocator.tla`, `HeapProofs.tla`, `MCHeap*`: the kernel heap and what it promises
- `Cache.tla`, `CacheProofs.tla`, `MCCache*`: the cache map of a file
- `PhysicalMemory.tla`, `MCPhysicalMemory*`: the page database, mappings of pages
- `FileViews.tla`, `FileViewsProofs.tla`, `MCFileViews*`: file mappings, their views and page faults
- `IoManager.tla`, `MCIoManager*`: devices, files, requests, mounts
- `Ide.tla`, `IdeProofs.tla`, `MCIde*`: the IDE driver
- `Keyboard.tla`, `KeyboardProofs.tla`, `MCKeyboard*`: the keyboard driver
- `Fat.tla`, `MCFat*`: how the FAT driver finds files and clusters
- `Debugger.tla`, `DebuggerProofs.tla`, `MCDebugger*`: the packet protocol of the kernel debugger
- `PROJECT.json`: which definition models which lines, the runs, the hazards

To check one of them: `tlc -config MCHeap.cfg MCHeap`, `tlapm SchedulerProofs.tla`.

## 1. The system

### Parts and how they meet

| Part | Source | State it keeps | Operations |
|---|---|---|---|
| PS, threads | `ps.cpp`, `ps386.asm` | `PsReadyListHead`, `PsWaitListHead`, the `THREAD`s, `PCB.CurrentThread`, `QuantumLeft` | `PsCreateThread`, `PsExitThread`, `PsTerminateThread`, `PsDelayThreadExecution`, `PspSwapThread`, `PsQuantumEnd` |
| PS, processes | `ps.cpp` | `PROCESS`, its thread list | `PspCreateProcess` (at boot only) |
| KE, events; EX, mutexes | `kernel.cpp`, `ex.cpp` | `EVENT` and `MUTEX`: `SignaledState`, wait list | `KeWaitForSingleObject`, `KeSetEvent`, `KePulseEvent`, `KeClearEvent`, `ExAcquireMutex`, `ExReleaseMutex`, callback lists |
| KE, spin locks and DPCs | `ke386.asm`, `kernel.cpp` | `LOCK.Count`, the DPC queue | `KeAcquireLock`, `KeReleaseLock`, `KeInsertQueueDpc`, `KiProcessDpcQueue`, `KiClearDpcQueue` |
| EX, heap | `ex.cpp` | the heap's blocks, two lists over them, a guard table per thread | `ExAllocateHeap`, `ExFreeHeap`, `ExReallocHeap`, `ExLockHeapBlock`, `ExEnterHeapGuardedRegion`, ... |
| OB | `ob.cpp` | object headers, directories, symbolic links, the handle table | `ObCreateObject`, `ObInsertObject`, `ObReferenceObjectByName`, `ObOpenObjectByName`, `ObClose`, `ObDeleteObject`, ... |
| IO | `io.cpp` | devices, drivers, files, IRPs, mounted volumes, drive letters | `IoCallDriver`, `IoCompleteRequest`, `IoReadFile`, `IoCreateDevice`, `IoAttachDevice`, `IoMountVolume`, ... |
| CC | `cc.cpp` | a cache map per file: pages, modified bits, use counts | `CcCacheReadFile`, `CcCacheWriteFile`, `CcPurgeCacheFile`, `CcpRebuildCacheMap`, `CcFreeCacheMap` |
| MM | `mm.cpp` | page lists (zeroed, free, standby, modified, active), PTEs, working sets, MMDs, file views | `MmAllocatePhysicalPages`, `MmLockPages`, `MmMapLockedPages`, `MmAccessFault`, `MmMapViewOfFile`, ... |
| SE | `se.cpp` | access tokens | `SeCreateAccessToken`, `SeInheritAccessToken*`, `SeAccessCheck` |
| KE, exceptions | `except.cpp`, `exc386.asm` | the frame list of a thread | `KeRaiseException`, `KeDispatchException`, `KiUnwind` |
| Interrupts, HAL | `irq386.asm`, `hal.cpp` | interrupt controllers, CMOS, timer | port programming |
| Keyboard | `src/keyboard` | key buffer, event, indicators | IRQ 1, `KeybdRead`, `KeybdControl` |
| IDE | `src/ide` | control block of each drive and partition, `IdePulsedIrq` of each channel | detection, read and write of sectors, IRQ 14 and 15 |
| FAT | `builtin/fsfat` | boot sector, FAT and root directory of each volume | mount, create, read, close, dismount |
| Other drivers | `builtin/floppy`, `src/pci`, `src/cdfs`, `src/console` | controller state | read; bus enumeration; stubs |
| KD | `kd.cpp` | packet ids, connection state, `KdDebugLock` | `KdSendPacket`, `KdReceivePacket`, `KdPollBreakIn`, `KdWakeUpDebugger` |
| Runtime, loader | `runtime.cpp`, `init.cpp`, `src/loader` | | formatting, boot sequence |

The timer interrupt (`irq0_handler`) runs the DPC queue and then
`PspSchedulerTimerInterruptDispatcher`, which may switch threads: anything that is
not under a lock with interrupts disabled is interleaved with everything else.
Events and mutexes are built on the scheduler's lists and on `SchedulerLock`;
CC, MM, OB and the callback lists protect themselves with mutexes; OB and IO put
their objects in the heap; IO hands IRPs to drivers and waits on events that
`IoCompleteRequest` sets; CC reads and writes through IO, and a fault on a page of
a view takes the page from CC.  FAT sits on a disk device and is itself below the
files of IO; IDE and floppy are those disks.

### What is hard

- **Interleaving.** A preemption in any window with interrupts enabled: between
  the test of `SignaledState` and the sleep, between unlinking a thread and
  leaving its stack, between finding an object in a directory and referencing it.
- **Atomicity.** The reference counts of OB change with no lock; `ExAcquireMutex`
  takes the mutex after the switch back without testing it again; a mapping is used
  through a pointer that nobody references.
- **Order.** `ObClose` drops its reference before it uses the object again; the
  heap writes one reallocation into the guard table twice; mapping, faults and
  unmapping nest the locks of MM in different orders.
- **Intrusive data.** One `LIST_ENTRY` of a thread moves between two lists; the
  heap moves headers that lists link, and adds to the pointers by hand; the links of
  a physical page share their fields with what an active page keeps there.
- **Unreliable partners.** Disks that are busy, fail or answer late; a serial line
  that loses and damages packets; a keyboard whose interrupts come at any time.
- **Liveness.** Round robin, waking up sleepers, waits for an interrupt.
- **Limits.** A guard table of 128 entries, a handle table, a cache map of 1024
  pages, a key buffer, 16-bit quantums, 8-bit paddings, 32-bit tick counts.

What makes each part correct:

- *Scheduler*: each list holds exactly the threads in its states; only READY
  threads run; a READY thread gets its turn; no wake-up is lost; a mutex has one
  holder; a terminated thread stays terminated; a delay ends.
- *Heap*: regions in use are disjoint; no unit is lost; free blocks are merged;
  the pattern that detects overruns stays out of the data; a leak is reported
  when and only when there is one.
- *OB*: the counts are the number of references and handles there are; an object
  in use is not freed, one that nobody uses is; names lead to live objects.
- *IO*: an IRP is completed once on every path and its stack is deep enough; the
  references of a device are its users; a drive letter has one volume.
- *CC*: a read returns the last write, and a purge leaves the file equal to it.
- *MM*: each page is in the list its state says; a page in use has one owner; a
  page of a view shows the file it was mapped for; locks nest in one order.
- *IDE*: a transfer is of the sector that was asked for, and no wait is for an
  interrupt that is gone.  *Keyboard*: no symbol is lost or read twice while the
  buffer has room, and who waits is woken.  *FAT*: a read is of the file's clusters.
- *KD*: each end gets the packets of the other in order, once.
- *SE*: a token that is shared lives as long as its last user; inheriting never
  adds a privilege.  *Exceptions*: handlers run innermost first, each once.

`PROJECT.json` lists the hazards one by one, at the line where each bites, with
the properties that would show it.

## 2. The modules

### Scheduler

One processor; `current` is `PCB.CurrentThread`.  `SchedulerLock` is taken with
interrupts disabled, so what runs under it is one step, with two exceptions that
matter: a context switch leaves the lock taken and the thread that is switched in
releases it (`Resume`), and `KiSetEvent` releases one waiter per step
(`PspUnwaitThread`).  `frame` says where a switched-out thread sits in
`PspSwapThread`, `pc` what it does next, so that `KePulseEvent`, `PsExitThread`,
`PsTerminateThread` and `PsCreateThread` with their callbacks are the chains of
separately locked sections that they are in the code.  `links` are the real
`Flink` and `Blink` fields of all threads and the two heads.

`KeSetEvent` is taken at any time the lock is free: a thread or an interrupt
handler on top of it may call it.  The timer interrupt comes whenever interrupts
are enabled.  `halted` records how the machine can stop: the two ways out of
`FindReadyThread` that find nothing, a spin on a lock nobody will release, and
the return of `PsExitThread` into its caller.

`PsTerminateThread` returns with `SchedulerLock` taken (`ps.cpp:122` has no
`PspUnlockSchedulerDatabase`).  `LockLeaked` recognises the state; what would spin
for the lock then stops the model, and the properties say what holds until then.

Assumed of callers: nobody acquires a mutex that he holds, and only the holder
releases it.  Programs are otherwise arbitrary sequences of calls.  Suspending,
resuming, and the window of a few instructions between the `cmpxchg` of
`KeAcquireLock` and its `cli` are left out (the latter is planned as `KeLock`).

### ObjectManager

Objects have the header of `inc/ob.h` with its two counts; directories have a
list of objects, links a target.  A thread can be preempted between any two
accesses to an object, so every routine is a chain of steps, and `stack` holds
the steps a thread still has to take: it grows at its end, a called routine after its caller.
`References(o)` counts who refers to an object: threads that keep it, handles, directories
and links, and the steps on stacks that will still use or drop it.
The body of a loop under `DirectoryLock` or `TableLock` is one step, as is the
section under a lock; `tableLock` exists for the one routine that keeps it
(`ObClose` of an invalid handle).

`Scheduler` shows that a mutex does not always exclude; here it is
taken to, so that what OB does wrong by itself can be told from what it suffers.
Also assumed: a release build (asserts do nothing), an address is not given out
twice, callers delete only what they created, and close handles that an open
returned, or values that are no handle at all.  A step that would read freed or
uninitialised memory (`UseBadMemory`) stops the model, since anything may happen
after it; `Intact` says that neither this nor a revival (a lookup that references
an object after its count reached zero) has happened.  Both do happen in the
code, and the properties say what holds until they do.

Left out: `ObLockObject`, the `OBJ_PERMANENT` flag (nobody sets it), queries,
buffers of paths, and types other than directories and links as such ("Other").

### Heap and Allocator

Memory is an array of units of 16 bytes; `block` maps the address of a header to
its size, type and padding, `order` and `free` are the two lists the code walks
(`ExpAllocatedBlockList` is only appended to and removed from, and is left out).
Every routine runs under `ExpKernelHeapLock` and is one step; entering and leaving
a guarded region are two calls of the heap each, with whatever other threads do
in between.  `ExReallocHeap` is six actions, one per way out of it.

A caller frees and reallocates blocks it holds, or, by a mistake that the code
means to detect, locked or free ones.  What callers write into their blocks is
left out; the patterns that the heap writes are kept as lengths, which is what
`ExpCheckBlockValid` can tell.  Requests are far from 2^32, where `ALIGN_UP` wraps
(`HeapAssumption`).  `region` is a history variable: what a thread allocated in its
guarded region and nobody has freed or moved away since.

`Allocator` is what a heap promises and no more: regions inside the memory that
do not overlap.  Under the mapping `Regions` (the address after a header -> its
units) every step of `Heap` is a step of `Allocator` or changes no region.

### Cache

The cache map of one open file.  `CacheMapLock` is held throughout a call on a file
with a map, so calls follow one another, and a step is what a call does to one
page: look it up (`CcpFindAndReadWriteHit`, `...Miss`), transfer it
(`ActualTransfer`, the body of the recursive `CcpActualRead` and `CcpActualWrite`),
write it back (`CcPurgeCacheFilePage`).  `call` holds the arguments that the
recursion passes on.  Data are clusters, since clusters are what the device reads
and writes; the device fails on any subset of the clusters of a page, and the heap
and the page allocator refuse as they please.

Four history variables name what the code is entitled to lose, so that the
properties can say it loses nothing else:

- `file` is the file as its users know it.
- `unread`: clusters that the device failed to read and that were cached as if it
  had, because the status of a page is that of its last cluster (`cc.cpp:308`).
- `unsaved`: changes that a purge will not write.  A write that misses caches its
  page unmodified (`cc.cpp:215`), one that goes on to the next page leaves before
  it marks the page (`cc.cpp:670`), and of a page that is written back only the
  status of the last cluster counts (`cc.cpp:275`).
- `refused`: the heap did not double the map.  `CachedPages` then runs past the
  size, the test for equality is never true again, and the map never grows again.

None of these contradicts a text of the repository (`CcPurgeCacheFile` "writes all
modified pages", and does), and `CcCacheWriteFile`, which is exported, has no caller
in it; they are facts a maintainer wants next to the properties.  A file opened with
`WriteThrough` is left out of most properties: a write to it neither looks the page
up nor writes the disk, and adds a second copy to the map.

Assumed: requests lie within the file, and a cluster is no larger than half a page
(otherwise `ClustersPerPage` is 0 or 1; with 0 `Status` is returned uninitialised).
Left out: `CcpRebuildCacheMap`, which returns at once because
`CC_DISABLE_CACHE_REBUILDING` is set (`inc/common.h:269`), the use counts that only it
reads, the number of bytes returned, and concurrent calls on a file without a map,
which release the lock first.  A `CcInitializeFileCaching` that finds no memory
leaves the file as it was.

### PhysicalMemory

`ppd` is the page database: location, the fields `u1` and `u2` (links of a listed
page; working set index and PTE of an active one: one variable each, as in the
union), the heads of the lists and `ShareCount`.  A routine is a list of stages, one
for what a taking of `MmPpdLock` or `MmPageDatabaseLock` protects, since a thread can
be preempted in between.  Descriptors (`mmd`) go through allocation, locking, mapping,
unmapping and freeing, and `MmAllocateMemory` and `MmFreeMemory` do the same on their
own.  RAM is taken to be zero at boot; `LockedInWs`, and trimming, which nothing
calls, are left out; a failed assertion stops the model.

`MM_PTE_IS_FREE` does not use its argument, so the search for a range looks at its
first page only.  `clobbered` records that a mapping of several pages has been written
over another, and the instance ends there.

### FileViews

A mapping has a file, a handle and a list of views; a view is a range of virtual
pages; a page table entry names the handle.  `MmAccessFault` goes from the entry to
the mapping, from there to the view, the cache map of the file and the frame.  Here
the order of locks is the subject: a routine is a chain of sections, and `Locks` says
for each what the thread holds and waits for.  The handle table and the cache are as
large a part of OB and CC as mappings touch.  A view has an offset in its file, in whole
pages, which `MmMapViewOfFile` stores and no fault looks at.  `wanted` is history: the
mapping a virtual page was last meant for, the page of the view and its offset;
`WantedPage` is the page of the file that the caller asked for.  `stopped` names how the code can stop
here; each reason is reachable (see the known divergences).

Assumed of callers: they close what they opened, once, touch only pages of views they
have, and do not close a file that is being read or mapped.  Files may be closed with
views on them, as the kernel's own start-up test does (`init.cpp:485`).

### IoManager

Devices with their stacks and references, files, IRPs, the list of file systems,
drive letters and the volumes that a mount creates, over the FAT and floppy drivers.
Every driver of the repository answers in the thread that sent the request, so `todo`
is the list of steps that a thread still has to take, and threads are preempted between
any two.  One thread mounts and dismounts (the kernel does so in one place); others
open, read and close.  `fault` names what an unlucky order leads to: a
device or volume that is used after it was freed, a request with no stack location
left, a file whose IRP could not be allocated.  Data, offsets and buffers are left out.

### Ide

Threads read and write sectors of disks and partitions through the ports of two
channels with two drives each; nothing serialises them.  The registers are variables, as
far as they decide what a drive does: the selected drive, the sector, the command.
Drives are external: busy for a while, asleep, failing, answering late.  Each polling
loop ends with its condition or at any moment with a timeout, after which the request
resets a channel and starts over.  `disturbed` is history: another request used the
channel meanwhile, or a retry of one on the other channel reset it (`IdeControlChannel`
addresses the other one, `ide.cpp:68`).

### Keyboard

The handler of IRQ 1 and threads share a buffer, an event and two indicator
variables.  `KeAcquireLock` sets its byte some instructions before `cli`, so an
interrupt may come with the lock taken (`AcquireLock`); what follows with interrupts off
is one step.  The event is that of `Scheduler`, reduced to its sleepers and its state.
Each scan code stores one symbol; lock keys also set the indicators, a command and a
value for one port, for which `crossed` records that two setters were at it at once.

### Fat

A pure part and a small state machine around it: the layout and type of a volume from
its boot sector, the reading of an entry on three widths with its real constants, the
size and the loading of the root directory, names of directory entries, and the walk
along a chain for a read by position.  The volume is any chain over a few
clusters, whole or broken.  Behind the table, and behind the pages of it that are loaded
(three of a FAT32 table), `EntryOf` may return any entry, or the
access is an exception and the machine stops.  A FAT16 end mark is taken for a cluster, as in
the code: the device reads its sector, or fails when it has none.

### Debugger

The kernel's end of the line and a host that does what the kernel expects of it.  Data
packets have one of two ids; packets may be lost or damaged, acknowledgements too, and
resets may cross.  `KdDebugLock` is held, with interrupts off, for a whole session or
poll, so the kernel's end is one sequential process, and what interleaves is the line.
`command` is what `Type` and `hdr` of `KdpReceiveAndReplyPackets` hold: they are written before
id and checksum of a packet are looked at, so a skipped packet leaves its header there for
a `RESET` that follows in the same call (`Received`); a damaged one leaves `Garbage`.

## 3. What the runs check

| Run | Question |
|---|---|
| `scheduler_safety` | do the lists, wait queues and mutexes stay coherent under preemption anywhere? |
| `scheduler_round_robin` | does every READY thread get the processor? |
| `object_manager` | do both counts agree with what refers to the objects and the handles there are, and are freed objects unused? |
| `heap` | no memory lost, given out twice or left unmerged; no leak missed; implements `Allocator` |
| `cache` | do readers see the last write, is what is not on the disk still marked, does the map keep room? |
| `physical_memory` | is each page in one list or with one owner, and its `ShareCount` the number of its PTEs? |
| `file_views` | do views show their file over reuse of handles, frames and pages, do they overlap, which locks deadlock? |
| `io_manager` | references of devices, depth of stacks, completion of requests, over failed opens and mounts |
| `ide` | are transfers of the right sector of the right drive, and is no wait for a past interrupt, over timeouts and resets? |
| `debugger` | does each end get the other's packets in order, the kernel's once, a command twice only after a reset of the host, over loss, damage and retries? |
| `keyboard` | is each symbol read once, kept or dropped; is a reader woken; do the lights show the indicators? |
| `fat` | are the right clusters read, does the root directory fit its buffer, are files found under their names? |

All of them hold.  Many hold up to a fault that the code does not avoid (`fault`,
`stopped`, `clobbered`, `disturbed`, `Intact` ...): the model then stops, or the property
says so; section 5 lists those faults.  Each module has a `TypeOK` that says what its
variables hold; where a module has proofs, it is proved (of `FileViews` all but the bounds
of one counter; of `ObjectManager` while `Intact`, the states its run explores).

**Bounds.** `scheduler_safety` has three threads (one that signals, two that
sleep, exit and are terminated: enough for two sleepers on one object, for a
sleeper and a newcomer, and for a preemption of either), one event of each type,
one mutex besides the two of the callback lists, a delay of one tick with a
counter that wraps at 2 (`TickModulus`, 2^32 in the code) so that the wrap
happens, and a quantum of one tick so that every step may be preempted.
`scheduler_round_robin` has a quantum of two ticks; no symmetry, as it is a
liveness property.

`object_manager` has two threads, two objects besides the root directory, two names, one
handle and two-level paths: an object in a directory that is itself deleted, a link to an
object, a full handle table, and two calls on the same object.  `MaxOwned` bounds the
references a thread keeps on one object, `MaxPath` a reparsed path.  Of the constraints,
`Intact` ends a behaviour at the first revival or use of bad memory, `Reachable` inserts
objects where a path can find them, and `KeptFew` has references of lookups kept by one
thread at a time, and not while there is a handle.

`heap` has 13 units with headers of 2, requests of 1, 3 and 5 units and guard tables of 2
entries: up to four blocks, all six ways of reallocating, and free blocks on both sides of
a freed one.  `cache` has a file of three clusters, two to a page, so that a request
covers part of a page, goes over to the next, and meets the end of the file inside
one; a map of two slots, so that two pages enlarge it; `MaxCount` ends new requests
when `CachedPages`, which only grows, has reached 3 (one call may take it to 5), after
both a successful and a refused doubling.

`physical_memory` has three pages besides the kernel's, an area of two virtual pages and one after
it, two threads, two descriptors: a map that finds its range half taken, pages that
change hands, both orders of locks.  `Few` bounds the reserved pages and the working set.
`file_views` has two threads, two files of two pages, one of them writable, two
mappings over one handle (so that it is reused), two virtual pages, one frame
(so that a freed one is reused) and two views to a mapping.  Its constraints:
mappings and views use all the protection they may; a file is read or closed only after
it was mapped; callers choose the place of one view, of one page; a view with an offset is
the first of its mapping.

`io_manager` has one disk, a thread that mounts and one that opens, two addresses for
volumes and two for files (so that a remount and a second open of the same volume
happen), one drive letter (so that letters run out).  `ide` has a slave on one channel and a master on the other with
one partition, two threads; at most one drive asleep or failed and one interrupt pending.
`debugger` sends three packets (so that ids repeat) and serves two commands, with one
break-in and fault, and two resets of the host (so that a command could be served again
twice), over a line that takes two messages.  `keyboard` has a
buffer of two symbols, four keys, two IOCTLs, two threads: it fills, wraps and
is read short.  `fat` has a volume of each width, one on the edge between two types, all
chains over three clusters, four sizes of files, and names of up to two letters and two.

Threads, objects, handles and values are symmetric where no liveness is checked.
Deadlock is checked in `cache`: purging and closing are always possible.  In the
others it is not: a machine that has stopped, programs that wait for each
other, and threads that really deadlock are behaviours of the system.

**Fairness** (`FairSpec` of `Scheduler`).  The timer interrupt keeps coming:
hardware.  What runs under `SchedulerLock` completes (`Resume`,
`PspUnwaitThread`): interrupts are disabled, nothing can come between.  A thread
that is inside an operation and gets the processor again and again takes its next
step (strong fairness of `Continue`, because preemption disables it again and
again).  Nothing is assumed about the calls that programs make.  `ReadyThreadRuns`
is checked without events and mutexes for a reason: `KiSetEvent` puts whom it wakes
at the head of the ready list, and two threads that wake each other in turn keep
a third one waiting for ever.

## 4. What is proved

`SchedulerProofs.tla` proves, for every set of threads, events and mutexes and
every value of the other constants that satisfies `SchedulerAssumption`:

| Theorem | Statement |
|---|---|
| `TypeCorrect` | `Spec => []TypeOK` |
| `ListsCorrect` | `Spec => []ThreadListsWellFormed` |
| `NoThreadForgotten` | `Spec => []EveryThreadIsListed` |
| `WaitersCorrect` | `Spec => []WaitersAreWaiting` |
| `NoLostWakeUp` | `Spec => []NoSleeperOnSignaledObject` |
| `MutexCorrect` | `Spec => []TakenMutexHasHolder` |
| `DispatchCorrect` | `Spec => OnlyReadyThreadsRun` |

The argument has three layers.

1. *Lists.*  `WellFormed(L, where)`: following either link of a node stays in its
   list and can be undone.  `RemoveEntryList`, `InsertTailList` and
   `InsertHeadList` preserve it for a placement that changes at the moved node
   only.  That no thread drops out of its list is more: two rings for one list would be
   well formed too.  `Reached` says that a set of nodes of a list that has its head and, with
   each node, the next one, has them all.  Stated over sets it needs no induction along
   the list: a set that is closed after an insertion is closed before it without the new
   entry, and one closed after a removal is closed before it, with the removed entry when
   it has the one in front.  `Linked` is both.
2. *The switch.*  `PspSwapThread` preserves `Linked` and picks a READY thread:
   `FindReadyThread` returns a node of the ready list, which is a READY or RUNNING
   thread, and the only RUNNING one is the current one, which it skips.
3. *Invariants.*  `TypeOK` is not inductive: `PspUnwaitThread` takes the head of a
   wait list.  `HandOff` adds that a signalling in progress holds the lock and has
   somebody left to wake; `TypeInv == TypeOK /\ HandOff` is inductive.  On top of it
   `SchedInv` is the conjunction of `Intact => ListsInv` (the lists are
   linked, waiters wait, the running thread is the current one, and a thread is
   TERMINATED exactly when it is about to leave through `PsExitThread`), the
   absence of sleepers on signaled objects, and that a taken mutex has a holder.
   `Intact` excludes the two faults that break the lists for good (a thread revived by
   the window of `PspSwapThread`, a leaked lock); since nothing
   repairs them, `Intact'` implies `Intact`, and the step is proved from an intact
   state to an intact state, one case per action of `Next`.

`CacheProofs.tla` proves, for every size of page, file and map and every set of
values that satisfies `CacheAssumption`:

| Theorem | Statement |
|---|---|
| `TypeCorrect` | `Spec => []TypeOK` |
| `CachedOnce` | `Spec => []PagesCachedOnce` |
| `ReadersCorrect` | `Spec => []ReadersSeeLastWrite` |
| `ModifiedCorrect` | `Spec => []UnsavedIsModified` |
| `RoomCorrect` | `Spec => []MapHasRoom` |

`PagesCachedOnce` needs `MissInv`: while a call is past its lookup, the page it is
about is not in the map (unless the call never looks up); only the call itself adds
pages.  `ReadersSeeLastWrite` needs two more.  `RangeInv`: the clusters of a call lie in
the file, and the page, offset and size it has got to are what is left of them;
without it `Overwrite` and `Accepted` could touch different clusters.  `ViewInv`: outside
`unread`, every copy in the map agrees with `file`, and so does the disk for pages that
are not in the map; `unread` has only clusters of cached pages.  A purge that fails half
way keeps it, since it writes to the disk where the map has the page.
`UnsavedIsModified` is inductive with these (`SavedInv`): a page leaves the map, or its mark
goes, only after its clusters are on the disk, or join `unsaved`.  `MapHasRoom` needs that
`CachedPages`, which never goes down, is at least the number of slots in use, and that the
map is longer than `CachedPages` unless a larger one was refused (`RoomInv`).

`FileViewsProofs.tla` proves, for every number of threads, files, mappings, pages,
handles, frames and views that satisfies `FileViewsAssumption`:

| Theorem | Statement |
|---|---|
| `Invariant` | `Spec => []Inv` |
| `ShowsTheirFile` | `Spec => []ViewsShowTheirFile` |
| `PlacedAreDisjoint` | `Spec => []PlacedViewsAreDisjoint` |
| `FaultsFind` | `Spec => []FaultsFindTheirView` |
| `OnlyMapping` | `Spec => []OnlyMappingDeadlocks` |

`Inv` is inductive and has three parts.  *Exclusion*: no two threads hold one mutex.
*Tables* (`StateInv`): a handle belongs to one open mapping; the pages of a placed view
have the type of a view, so that no search for free pages finds them; a page that no
chosen view covers is wanted for the one placed view that has it, and until it is
resolved its entry names the handle of the mapping; a resolved one has the frame of the cache
for its place in the view (`ShownInv`), whatever the view's offset.  `ViewsShowTheirFile` is what
of that is right: a page of the right file always, the right page of it where the offset is zero.
*Calls* (`CallInv`): what a thread found out in one section still holds in the next.
The page that a fault found in the cache is still there, because the fault keeps the
cache map locked (`ResolveInv`); the page that a reader is about to cache is shown by no
view, because a valid entry has a frame and the page has none (`ReadInv`); the pages
reserved for a view have nobody else's fault or view, because the page database stays
locked until the view is inserted (`ReservedInv`).  A mapping may go while its view is
being made: `MapInv` ties the handle to the mapping only while it is open.  Each step of
`Next` has a lemma; those that change nothing that others see share `OnlyCall`.
`OnlyMappingDeadlocks` needs no invariant: it is about the order in which `Locks` has
each routine take its mutexes, and holds in every state of the variables, reachable or not.
`TypeInv` has the references of a file as integers only: no property is about them.

`KeyboardProofs.tla` proves, for every number of threads and keys, every size of the buffer
and every number of IOCTLs that satisfies `KeyboardAssumption`:

| Theorem | Statement |
|---|---|
| `TypeCorrect` | `Spec => [](TypeOK /\ BufferInv)` |
| `AccountsCorrect` | `Spec => []SymbolsAreAccounted` |
| `WokenCorrect` | `Spec => []ReaderIsWoken` |
| `LedsCorrect` | `Spec => []LedsShowIndicators` |

*Symbols.*  `BufferInv`: up to `KeybdCurrentPos` the buffer has different symbols, none of
them dropped before; so what a read takes, or a full buffer drops, is as many symbols as
the positions it covers, and the sum of what is read, kept and dropped does not change.
*Waking.*  `WakeInv` follows a lone reader from its look at the buffer to its sleep: either
the buffer has what it wants, or the event is not yet set, or the handler is on its way
to set it.  *Lights.*  `LedInv`: unless two threads were in `KeybdSetIndicators` at once, the
lights show the indicators when nobody is there, and the packet of the thread that is
there has them.

`DebuggerProofs.tla` proves, for every number of packets, commands, resets and faults and
every length of the line that satisfies `DebuggerAssumption`:

| Theorem | Statement |
|---|---|
| `InvCorrect` | `Spec => []Inv` |
| `TypeCorrect` | `Spec => []TypeOK` |
| `PacketsCorrect` | `Spec => []PacketsComeOnce` |
| `CommandsCorrect` | `Spec => []CommandsAreServedInOrder` |
| `ConfirmCorrect` | `Spec => []ConfirmedIsReceived` |

Packets carry one bit; the proof gives each direction the numbers that the bits stand for:
the newest packet of the sender and the last one its receiver accepted.  `Side`: packets are
on the line in order and none is older than the last accepted.  `Settled`: a copy of the last
accepted has the id that the receiver does not expect.  `Sending` and `Agreed`: what the
sender repeats is its newest, and once it was accepted its id is not the expected one.  A
reset, which sets both ids, may stand between packets of different numbers only.  One
lemma for each event on a line (sending, loss, damage, acceptance, reset) serves both
directions.  `ConfirmedIsReceived` needs more, which acknowledgements are on their way:
`ConfirmInv` names the phases of a session by what both ends know (`Opening`, `Open`,
`NotGot`, `Got`, `Told`) and says that the acknowledgement of the packet before never
follows one of this packet.  `CommandsAreServedInOrder` is inductive with `ServedInv`: a
header in the buffers, while a command is waited for, is a damaged one, that of the last
command served, or a newer one.  So a `RESET` can have the last command served again; but it comes
after all copies of it (`BeforeReset`), so that they, and the header, are gone by then (`Gone`),
and there is no third time (`Twice`).  `OnceInv`: without a reset of the host no command is served from what was left.

`IdeProofs.tla` proves, for every number of threads, drives, partitions and sectors that
satisfies `IdeAssumption`:

| Theorem | Statement |
|---|---|
| `InvCorrect` | `Spec => []Inv` |
| `TypeCorrect` | `Spec => []TypeOK` |
| `TransfersCorrect` | `Spec => []TransfersHitTheirSector` |
| `InterruptsCorrect` | `Spec => []InterruptsAreNotLost` |

`Alone`: when two threads work on one channel, both are `disturbed`.  `ThreadInv`: an undisturbed thread knows the state of the hardware at
each place of `IdePerformRead`: its drive is the selected one (`OnDevice`), the task file has
its sector (`OnSector`), the drive has its command (`Commanded`) and the interrupt of an
answer is pending, seen or still to come (`Signalled`).  A step of another thread
touches the ports of its own channel, so it can break this only over a reset (which
addresses the other channel, and sets `disturbed`): `Elsewhere`.

`HeapProofs.tla` proves, for every size of the heap, of its headers and guard tables, every
set of requests and every number of threads that satisfies `HeapAssumption`:

| Theorem | Statement |
|---|---|
| `TypeCorrect` | `Spec => []TypeOK` |
| `HeapTiled` | `Spec => []BlocksTileTheHeap` |
| `FreeListComplete` | `Spec => []FreeListIsComplete` |
| `FreeBlocksApart` | `Spec => []FreeBlocksDoNotTouch` |
| `LeaksDetected` | `Spec => LeaksAreDetected` |
| `AllocatorImplemented` | `Spec => ImplementsAllocator` |

*Memory.*  The three properties of the memory are not inductive one by one: a merge is
right only if both lists have the block, a split only if the block ends where the next one
starts.  `HeapInv` says all of it of the headers first: `Tiles` (every block ends at the start
of another or at the end of the heap, and none starts inside another) and `Apart` (where a
free block ends no free block starts); the lists are then the blocks in the order of their
addresses (`Sorted`) and the free blocks in any order (`Listed`).  `SplitTiles`,
`MergeTiles` and `MoveTiles` are the three changes that the code makes to headers, and
the lemmas on `Listed` and `Sorted` follow what it does to the lists.  `Rebuilt` is the heart of it:
after a free, one walk forward and one block back leave `Apart` true, because it was
true before; so the step of the walk that would use a wiped header is never reached.
*Callers.*  `HeldInv`: the blocks in use are those held, and each is large enough for its
request.  `TablesInv`, `PhaseInv`: the two blocks of a guard are in use, of one guard,
and there as long as the thread needs them.  `RegionInv`: what a thread answers for is in use
and in its guard table; hence it cannot leave while the set is not empty.
*Steps.*  Each routine is a `Work(given, back, bytes)`: it hands out the blocks `given`, takes
`back` and leaves the blocks of all others alone.  `WorkKeeps` shows once that this keeps the
whole invariant, and `StepIsPromised` that it is a step of `Allocator`: `Granted`
turns blocks that do not overlap into regions that do not.

`ObjectManagerProofs.tla` proves, for every number of threads, objects, directories, names,
paths and handles that satisfies `ObjectManagerAssumption`:

| Theorem | Statement |
|---|---|
| `Invariance` | `Spec => []IInv` |
| `TypeCorrect` | `Spec => [](Intact => TypeOK)` |
| `ReferenceCounts` | `Spec => []ReferencesAreCounted` |
| `HandleCounts` | `Spec => []HandlesAreCounted` |
| `ListsAreSound` | `Spec => []ListedObjectsAreLive` |

`IInv` is `Intact => Inv`, the properties being about what happens until freed memory is used
or an object is found again after its count was zero; nothing takes that back
(`IntactBefore`), so the step starts from an intact state too.
*Counting.*  `References` is a sum of the sizes of sets and of the numbers of frames that
satisfy a condition.  `Places` is the set of the frames of a condition over all stacks, and
the lemmas about pushing, popping and replacing the last frame say by how much its size
changes; with them, a step of a routine changes `References` by exactly what it adds to
or takes from the header (`CountInv`).
*Routines.*  `FrameInv` says of every frame, at whatever depth, what its routine knows: the
count of an object that is being unlinked, deleted or freed is zero; the steps that may
give up the reference of `ObCreateObject` are of the object's creator, in its outermost
call; a handle that a step works on is nobody else's; a lookup still has the name it was
asked for.  Other threads do not disturb this in between: to reference an
object whose count is zero is a revival, after which nothing is `Intact`.
*Handles.*  `HandleInv`: at most one step works on a handle; `HandleCount` is the number of
table entries but for those whose step has not come to the counter yet.  That is
all the code keeps to: `ObClose` drops the reference first.
*Objects.*  `ListInv`: directories list live objects of their own, each once.
`ObjectInv`: names differ, only a symbolic link has a target, and at most one step is
about to drop that target and free the link.

Only model-checked: `ReadyThreadRuns` (liveness), the properties of `IoManager`,
`PhysicalMemory` and `Fat`, for which no inductive invariant has been worked out yet (see
the plan).  What a recursive definition computes for every input
(a chain of `Fat`, a walk of `PhysicalMemory`) is out of the prover's reach.

## 5. Known divergences

What the modules show the code to do, next to what its callers or texts lead to expect.
Each is a behaviour of a module, and the properties are stated so that they hold beside it.

**Threads and mutexes.**  `ExAcquireMutex` takes the mutex after the switch back without
testing it again (`ex.cpp:1202`, `1312`): `KeSetEvent` wakes every sleeper of a mutex, so
two threads may own it.  A thread that is terminated in the window of its own switch is
made READY again (`ps.cpp:86`).  `PsTerminateThread` returns with `SchedulerLock` taken
(`ps.cpp:122`).  Delays do not end (`ps.cpp:359`, `411`): the thread stays in the wait list.

**Objects.**  `ObClose` drops the reference before the handle count (`ob.cpp:1414`), so
there may be more handles than references (against `inc/ob.h:207`), and uses the header
after the object is gone.  A deletion that meets references leaves the object to nobody
(`ob.cpp:737`).  `ObIsObjectGoingAway` compares `Flags & 4` with 1, which is never true.
`ObClose` of a value that is no handle returns with the table locked.

**Heap.**  Paddings wrap at 256 (`ex.cpp:788`), and a reallocation that moves leaves an
entry in the guard table, so that a leak is reported that is none (`ex.cpp:891`).

**Physical memory.**  The search for a range looks at one page of it (`MM_PTE_IS_FREE`).
`MmFreeMemory` unmaps page 0 for a descriptor that is not mapped (`mm.cpp:1404`);
`MmAllocateMemory` keeps the pages of an allocation it gives up; `MmLockPages` does not
advance its address.  `MmMapLockedPages` takes `MmPageDatabaseLock` before `MmPpdLock`
(`mm.cpp:1762`, `1793`), `MiUnmapPhysicalPages` after it (`mm.cpp:192`): the two deadlock.

**File views.**  Closing a file frees its cache map and frames while views still show
them, although "File cannot go away until all its views are unmapped" (`mm.cpp:2917`).
Unmapping is not implemented, so views outlive their mapping, and a fault on one ends at
a bad handle or, once the handle is given out again, at the `INT3` of `mm.cpp:463`.  A
view at an address that its caller chose never gets the type of a view: it cannot be
accessed, and its pages can be given out again.  A page that is not cached fails an assertion
(`mm.cpp:449`); a full handle table fails another.  `MmMapViewOfFile` does not reference the mapping, which may
be freed under it, and keeps the range when it finds no memory.  The page number of a
fault does not count `StartOffsetInFile` (`mm.cpp:395`), so a view of any part of a file shows its
start, although "To map particular part of file caller should call MmMapViewOfFile later"
(`mm.cpp:2869`): `ViewsShowTheirFile` asks for the right page of views without an offset only,
and of others for some page of the right file.  A map and a fault of one
mapping take the page database and the view list in opposite orders
(`mm.cpp:3124`, `3170`; `375`, `410`) and may deadlock: `OnlyMappingDeadlocks` says that
nothing else there does.

**I/O.**  A device may be freed between its lookup and its reference (`io.cpp:663`); a
dismount neither cancels nor waits for operations (`fsfat.cpp:380`, `523`), which go on
with the freed volume.  Failed opens and failed creations lose their objects, a failed
mount its drive letter.  `IoCloseFile` does not test its IRP.  A mount publishes its
device before the stack size is set (`io.cpp:1145`).

**IDE.**  `IdeControlChannel` addresses the control port of the other channel
(`ide.cpp:68`), so a retry resets the wrong one, and it does not select its drive again.
The wait for the interrupt has no timeout, and a write waits for one before it
sends its data.  Nothing compares a sector with the end of its partition.  A disk can be
opened before its control block is filled.

**Keyboard.**  Nothing resets the event: a reader that waits a second time goes on at
once, and the assertion of `driver.cpp:102` fails when the buffer is empty.  Symbols
are read newest first; a full buffer drops all; a read of more than the buffer holds
never ends.  Indicators are set with no lock against the handler.

**FAT.**  The end marks of FAT16 have 20 bits (`fsfat.cpp:973`), so the end of a chain is not
recognised: a read behind it takes the mark for a cluster and returns what is in its sector,
with success, and a walk further on leaves the table.  `ReadsAreOfTheFile` asks for the end
of the file, and for nothing but its clusters, on FAT12 and FAT32 only.  A last cluster that is full is read as 0 bytes.  Extensions of one or two letters are
not found (the final zero is compared), longer names overflow their field.  The loop that
loads the root directory stops at FAT12's mark on FAT32.

**Debugger.**  `KdPollBreakIn` takes any packet for a break-in, and keeps it
pending (`kd.cpp:397`).  `KdWakeUpDebugger` waits for the answer to its reset, which it never
repeats, with interrupts off (`kd.cpp:1731`).  A command that stands for an acknowledgement
is dropped (`kd.cpp:765`), packets of unexpected types are acknowledged and dropped.
`KdReceivePacketWithType` stores header and type of a packet before it looks at its id and
checksum (`kd.cpp:795`, `842`): when the host repeats a command, whose acknowledgement was lost,
and then resets, the reset returns `KDP_PACKET_RECEIVED` with that header, and the
command is served a second time; after a damaged packet the reset serves a damaged header.
`CauseBugCheck` enters `KdDebugLock` a second time and waits for itself.
`DbgKdReadVirtualMemoryApi` copies in the wrong direction (`kd.cpp:1420`).

## 6. Plan

Done: `Scheduler`, `ObjectManager`, `Heap` over `Allocator`, `Cache`, `FileViews`, `Ide`,
`Keyboard` and `Debugger` with proofs, `PhysicalMemory`, `IoManager`, `Fat` without.  Next:

1. Proofs: the invariants of `PhysicalMemory` (`PagesHaveOneOwner`, `MappingsAreCounted`)
   and `IoManager` (`RequestsAreCompleted`).
2. `Cache`: the number of bytes returned (`CcpFindAndReadWrite` sets it to zero for the rest
   of a request), `CcpRebuildCacheMap` as it would run with rebuilding enabled, calls on a
   file without a map; an abstract file that it implements.
3. `KeLock`: the acquisition of `SchedulerLock` instruction by instruction, of which
   `Keyboard` has the window for its own lock.
4. The commands of the floppy controller (`fdfunc.cpp`), the image loader (`mm.cpp:2088`),
   directory queries (`ob.cpp:1120`), exceptions, tokens.

## 7. Not modelled

- The DPC queue: no code of the repository inserts a DPC, so the queue is always
  empty.  Read alone, `KeInsertQueueDpc` tests a slot before it locks the queue
  (`kernel.cpp:67`), and `KiProcessDpcQueue` never advances to the next (`kernel.cpp:134`).
- The window of `KeAcquireLock` for `SchedulerLock`: an interrupt in it spins on the same
  lock for ever, and nothing promises otherwise.
- Processes: created at boot only; `MmCreateAddressSpace` stops the machine.
- Trimming: nothing calls `MmTrimPage` or `MiTrimWorkingSet`.  `CcpRebuildCacheMap`: returns
  at once.
- The image loader, access tokens, exceptions: see the plan.
- HAL, interrupt controllers, the floppy controller's commands: port programming.  PCI
  enumeration reads a bus once; `pci_vend.h` is a table; CDFS and the console are stubs.
- The runtime library but for `strncpy`: formatting, strings and bit maps without state.
- The loader and the boot sequence: a fixed series of steps before there is a second
  thread, whose result is the initial state of the modules.

`PROJECT.json` gives the reason for each component.
