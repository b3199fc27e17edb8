# NSOS: a verification development

NSOS is a small operating system kernel for one x86 CPU, in C. This directory
holds TLA+ models of its core, configurations that TLC checks on small
instances, and theorems that TLAPS proves for all of them. File names below are
relative to the root of the repository; the kernel is in `src/`.

How to run everything: `tlc -config X.cfg M` for the runs of `PROJECT.json`,
`tlapm M.tla` for the modules whose name ends in `Proofs`.

## 1. The system

| Part | Source | State | Operations | What makes it correct |
|---|---|---|---|---|
| Spin locks | `libos/simple_lock.c` | a status byte per lock; `lockcount`, `release_intr` for all of them; EFLAGS.IF | `simple_lock_try`, `_unlock` | sections exclude each other; the last unlock gives the interrupt flag back; no lock is ever found taken |
| Threads and scheduler | `kmt.c`, `os.c` | `thread_pool`, `current_thread_index`, the stacks | create, teardown, schedule | only threads with a stack and a frame run; the pool and the index agree; everybody has a turn |
| Semaphores | `kmt.c` | `count`; `sleep` and `current_waiting` of each thread | `sem_wait`, `sem_signal` | no unit is lost or made, no signal is lost, some waiter gets on |
| Memory | `pmm.c` | headers in the heap itself, `memory_head` | alloc, free | granted memory is fresh and aligned, and stays untouched; a request is met in the heap if a block is large enough; freed memory merges |
| VFS gate | `vfs.c` | `vfs_sem` | every operation but close | one thread at a time in the file system, also when threads come and go |
| VFS name space | `vfs.c`, `fs/path.c`, `fs/dentry.c`, `fs/acl.c` | dentries, mounts, descriptors | open, close, mkdir, access, mount, unmount | the tree stays a tree; walks cross mounts correctly down and up; nothing dangles |
| Open files | `vfs.c`, `kmt.c`, `fs/fs.h` | `struct file`s, `file_descriptors` | open, read, write, lseek, close; create and teardown | a descriptor leads to a file of its own, until it is closed; nothing but known leaks is lost |
| kvfs | `fs/kvfs.c` | `kvfs_files`, inodes | create, mkdir, read, write, lseek | a file holds what was written; its memory is its own |
| procfs, devfs | `fs/procfs.c`, `fs/devfs.c` | none of their own | lookup, read, write, lseek | what they show is there and fits the buffer; a thread is read while it exists |
| Console | `console/console.c` | `screenbuf`, a ring of lines; the cursor; the screen | `printchar` | the screen shows the end of the text |
| launchd, tests | `launchd.c`, `src/unit_test` | the threads they make | use all of the above | they end, and what they expect holds |
| System log, C library, font, abstract machine | `libos/syslog.c`, `nslibc`, `iso_font.c`, `am`, `framework` | none that matters here | | not modelled, see section 7 |

How they interact. All parts run on one CPU, so a lock is a masked timer: between
`simple_lock_try` and the last `simple_lock_unlock` no other thread runs.
`thread_lock`, `semaphore_lock`, `kernel_memory_lock` and `console_lock` nest
(create holds the first while pmm takes the third and the log the fourth). With
interrupts on, the timer hands the CPU to the next runnable thread at any
statement. The file system is protected by a semaphore instead, because its
operations are long: a thread inside can be preempted, and the others sleep in
`kmt_sem_wait`. procfs looks into the thread pool. Files, stacks, dentries and
inodes come from pmm.

What is hard. A timer between two statements of a lock; nested locks which share
one `release_intr`; a thread in the pool that has no stack yet; a signal between
the unlock of a waiter and its sleep; a waiter that is overtaken; a thread torn
down while it holds or awaits something, or with files open; a `close` that does not
wait at the gate while another thread opens; a stack that runs over; block headers that move inside the heap;
mounts on mounts, `..` through mounts, operations that fail half way; a file that
moves to new memory while it is written; the ring of the console. `PROJECT.json`
lists each of these under `hazards`, with its line and the properties for it.

## 2. The modules

| Module | Models | Used by |
|---|---|---|
| `LockState` | the state of `simple_lock.c`, and its two functions as one step each | `SimpleLock`, `Kmt` |
| `SimpleLock` | the same functions statement by statement, any contexts, any nesting, interrupts anywhere, from boot on | `MCSimpleLock`, `SimpleLockProofs` |
| `KernelSection` | abstract: critical sections of a one-CPU kernel | refined by `SimpleLock` |
| `Kmt` | `kmt.c` with the dispatcher of `os.c`: every function split at its lock calls | the next three modules |
| `KmtApi` | `Kmt` under every sequence of calls (one thing is left to the callers: a thread in the pool is not created again), with `proc_read` and threads that run over their stacks | `MCKmtApi`, `KmtProofs`, `SemTestProofs` |
| `VfsGate` | `Kmt` under the callers of `vfs.c`, and launchd as it creates and kills threads | `MCVfsGate`, `KmtProofs` |
| `SemTest` | `Kmt` under the producer and the consumer of `sem_test.c` | `MCSemTest`, `SemTestProofs` |
| `Semaphore` | abstract: units and waiters; threads torn down in a wait | refined by `KmtApi`, with its progress by `VfsGate` |
| `Pmm` | `pmm.c` on single words of memory | `MCPmm`, `PmmProofs` |
| `OpenFiles` | `struct file`s and descriptors from open to close, what a read of kvfs, procfs and devfs returns, words written to stdout, create and teardown of their threads | `MCOpenFiles`, `OpenFilesProofs` |
| `Namespace` | `path.c`, the paths, mounts, descriptors and `access` of `vfs.c`, `acl.c`, and the lookup, create and mkdir of kvfs, procfs and devfs | `MCNamespace`, `NamespaceProofs` |
| `KvfsFile` | read, write and lseek of kvfs as `vfs.c` calls them; a write in four steps | `MCKvfsFile`, `KvfsFileProofs` |
| `WholeFile` | abstract: files that are read and written at once | refined by `KvfsFile` |
| `Console` | `printchar` and what it calls | `ConsoleProofs` |

`PROJECT.json`, under `map`, gives for each definition the lines it stands for.
A definition whose comment begins with "Mutant" is a plausible bug; it is used
only to see that a property notices it.

How the steps were chosen.

* *Locks.* `SimpleLock` shows that a section runs without interruption and that
  a lock is never found taken. On that ground `Kmt` makes one step of what lies
  between two calls of a lock function, but it keeps the lock state in the model
  and lets the timer in wherever IF is set: a section that lost its lock would
  be interrupted. `SimpleLock` counts the handler of the interrupt as one step,
  since the handler runs masked and takes no lock.
* *Threads.* The boot context ends in `while (1)` with interrupts on; it is the
  state of `Kmt` before the first dispatch (`current = NULL`). Slots 0 and
  `KERNEL_MAX_THREAD + 1` hold a magic number and are left out. `NoIndex` is the
  `(uint32_t)-1` with which the index starts; what matters of it is its remainder,
  and an assumption says so. A wait uses the thread at `current_thread_index`,
  as the code does, not the caller. A thread may overwrite the end of its stack
  whenever it runs; `kmt_schedule` then finds the fence broken and panics.
  A thread may be torn down wherever it is. What it was doing is then kept until it is
  created again, which starts it anew; until then it still counts as waiting.
* *Memory.* Each iteration of a loop of `pmm.c` is a step. The headers are words
  of the memory, and three words behind the heap are part of it, so stale headers
  and stores outside behave as in the machine. A `pmm_alloc` that finds no block goes on at
  `_heap.end`, as the code does, and grants memory behind the heap; it is modelled to its
  return (state `off_heap`), and there the model stops, as nothing is known of what lies
  behind the heap.
* *Name space.* `vfs_sem` makes each operation a step (`VfsGate`); only the
  thread pool changes in between. A walk goes on by one function per component, with the
  dentries it has made as part of its state: what a failed walk has made stays.
* *Open files.* `open` and `close` are split where another thread can come between:
  `close` frees the `struct file` before it clears the descriptor and takes no
  gate, `open` holds the gate but allocates and installs in two steps. Memory is a
  set of addresses, any free one of which pmm may grant. A word on
  stdout is one character per step.
* *Files.* A write has the gate for itself, but it is four steps (find the
  position, allocate, copy and free, store), so that a run without the gate
  shows what the gate is for, and the refinement to `WholeFile` has something to
  say. It may be given any free block. What is in a block after it is freed is
  `Junk`; the write itself clears what it allocates.
* *Console.* `printchar` runs under a lock and is one step; it works on cells.

## 3. The runs

| Run | Instance | Distinct states | Shows |
|---|---|---|---|
| `simple_lock` | boot and 2 threads, 3 locks | 5,149 | `HolderMasked`, `RestoresInterrupts`; `SectionInv` (with the lock count and the absence of warnings among its parts) is an invariant; `SimpleLock` implements `KernelSection` |
| `kmt_api` | 4 threads, 3 slots, a semaphore of 1 unit and at most 2, one of 0 and at most 1 | 3,687,124 | `KmtInv` (types, the pool, the sleepers), `DispatchSafe`, `LostByTeardownOnly`, `OverflowCaught`, `ProcReadSafe` under every sequence of calls |
| `kmt_lock` | the same | | fails: `NoLockWarning`, see section 6 |
| `vfs_gate` | launchd and 3 threads, 3 slots | 6,079 | `VfsExclusive`, `NeverHung`, `NoLockWarning`, `HolderAlive`; `GateInv` is an invariant; `RoundRobin`; the gate implements `Semaphore` |
| `sem_test` | 2 units, 5 braces | 1,143 | `UnitsConserved` (of braces too: they nest no deeper than there are units), `Terminates` |
| `pmm` | 24 words, sizes 1 and 5, 3 allocations | 2,228,677 | `FreshMemory`, `ClientMemoryKept`, `HeapInv` (types, and a list that is sound from both ends), `Merged` |
| `pmm_reuse` | size 4 | | fails: `FreshMemory`, see section 6 |
| `namespace` | 2 names, 6 paths, 2 further kvfs, procfs, devfs, 2 files, 1 descriptor, 6 dentries | 106,368 | `TreeSound` (with the types), `MountsExact`, `OneFsPerTree`, `InodesExact`, `WalksLiveMounts`, `TraceSpells`, `MountsApart`, `CoveredUntouched` |
| `proc_cached` | one thread that ends | | fails: `ProcFollowsPool`, see section 6 |
| `open_files` | 2 threads, 2 descriptors each, 3 addresses, words of 2, texts of 1 and 2 bytes | 1,044,864 | `FilesOwned`, `ReadsFit`, `LeaksOnly`, `StdoutWhole` |
| `kvfs_file` | 2 files, 2 threads, 3 blocks of at most 3 bytes | 171,381 | `FileInv` (types, `ExtentExact`, `StoresInside`), `MemoryOwned`, `AppendsKept`; the file implements `WholeFile` |
| `console` | 3 by 2 cells, 9 characters | 29,524 | `HoldsTail`; `ScreenInv` (types, blanks ahead of the cursor, screen and buffer the same) is an invariant |

Why the bounds are enough.

* `simple_lock`: three locks nest as deep as the kernel ever does; two threads and the boot code are
  all the kinds of context there are. The theorems lift the bound anyway.
* `kmt_api`, `vfs_gate`: with four threads and three slots the pool can be full
  and a slot can be reused; behind a holder two threads can wait, so the lower
  slot can overtake. `MaxCount` bounds, for each semaphore, the signals that no wait matches; a
  thread that was woken can be torn down, on its way to a unit, while another sleeps. A thread can
  read a slot while its thread is killed and the slot filled again.
* `sem_test`: five braces on two units make both semaphores run empty, with the
  producer ahead and behind; `sem_test.c` has ten units and a hundred braces.
* `pmm`: 24 words hold three allocations and a remainder; the sizes 1 and 5 are those
  for which the header of the head never moves (Start = 48 is a multiple of 16),
  which is the case the findings exclude (`MCPmm` asserts the condition `HeadStays` of
  the theorems); blocks in front, behind, both and none occur, and merging in both
  directions.
* `namespace`: the two names are those of a thread and of a device and may also be
  directories, so that each path leads into any of the file systems, and one path
  leads two levels down; two kvfs
  that can be mounted on each other, side by side, and on what is in them, with
  `..` through both. The test walks of `vfs_test.c` are no deeper. Six dentries
  are a tree of three levels; `KVFS_MAX_FILE` = 2 is reached.
* `open_files`: with two descriptors each and three addresses, one thread can close
  while the other opens and is granted the same address, a thread can run out of
  descriptors, and memory that leaks runs short; the position is in
  the text and at its end, and the buffer as long as the text or longer. Addresses are
  interchangeable and permuted (symmetry).
* `kvfs_file`: the position is in, at and behind the end, a write is shorter than,
  as long as and longer than the rest; the third block is the one a file moves to.
  Threads, files and blocks that are interchangeable are permuted (symmetry).
* `console`: nine characters wrap the ring of two lines of three more than once;
  a newline comes after each column and after a full line at the bottom.

Runs that do not check deadlock are those that may stop: `kmt_api` (a panic or
all threads asleep is a state the callers may bring about), `pmm` (a request
has been met behind the heap), `console` (the bound of the text is reached), and the runs that
fail.

## 4. Fairness

Only `VfsGate` and `SemTest` have liveness properties. They assume
`SF(Interrupt)`: the timer is periodic, and an interrupt request that comes while
IF is clear stays pending in the controller, so it is taken if IF is set again
and again. And `SF(ThreadStep(t))` for each thread: a thread that is dispatched
again and again executes instructions. A weak condition would not do, as the
step of a thread is disabled whenever the thread is preempted, and the timer
whenever a section is entered. Fairness covers the steps within an operation, and
the return from a body inside of the file system; no thread must call anything.
Nothing is assumed about which waiter gets the unit: the code wakes the lowest
slot, and one thread can be overtaken for ever. That is why `Semaphore` promises
progress of the crowd and not of each waiter.

## 5. What is proved

`SimpleLockProofs`, for any set of contexts and any finite set of locks:

* `SectionInvariant`: `Spec => []SectionInv`. The four safety properties are not
  inductive by themselves. What they need is the reason why the flag comes back:
  while any lock is taken, `release_intr` is the flag of the outermost section
  (last conjunct), which in turn needs that a first lock reads the flag it should
  (`CallsConsistent`: the value read before masking is still right when the
  context goes on, however often it was preempted in between), and that during
  boot nobody else runs (`BootAlone`).
* `MutualExclusion`, `InterruptsRestored`: the two properties that matter, from it.
* `Implementation`: every step of `SimpleLock` is a step of `KernelSection` or
  a stutter. `owner` is a function of `held`, because at most one context holds
  a lock, which is the invariant again.

`KmtProofs`, second part, for any set of threads, any size of the pool, any `NoIndex` with
the right remainder, and a gate that starts with one unit (`GateOpen`, which is what
`vfs_init` does):

* `GateInvariant`: `Spec => []GateInv`. Its parts: `LocksByPoint` (the point the
  running code is at decides which locks are taken, their number and IF, and all
  others stand where IF is set); `PoolInv` (only launchd changes the pool, what it
  is about to add is not there, what it is about to drop is there and parked);
  `ThreadInv` (a sleeper stands in its loop and waits for `vfs_sem`; nobody is in
  the file system and dead, or parked, or about to be killed); `StackInv` (all of
  the pool can be dispatched but the one launchd works on, during which IF is
  clear); `UnitInv` (the unit of the semaphore is in `count` or with exactly one
  thread, and while it is in `count` and somebody sleeps, somebody awake is about
  to take it). The last is the heart: a signal wakes one sleeper, the
  lowest, and adds the unit that this or another thread takes.
* `OneInsideVfs`, `SchedulerReturns`, `LocksBalanced`, `HoldersLive`,
  `DispatchAlwaysSafe` follow: one thread in the file system, the search of
  `kmt_schedule` ends, no lock is found taken, the holder is alive and awake, and
  no thread is dispatched without a stack.
* `GateImplementsApi`: each step of the callers of `vfs.c` is one that `KmtApi` allows, for any bound
  `MaxCount` from 1 on. What the first part shows of every sequence of calls then holds of theirs;
  `NoWakeupLostAtGate` draws that conclusion.

`ConsoleProofs`, for every size of the screen and every text:

* `ScreenInvariant`: `Spec => []ScreenInv`, and `ScreenIsBuffer` from it. That the
  screen shows the buffer is not inductive: a newline draws a blank at the cursor
  without storing one, which is right only because the buffer is blank there
  (`BlankAhead`), and that in turn only because the line that comes back into
  view at the bottom has been cleared. The lemmas on the ring say that its lines
  `(linestart + y) % cursorymax` are all different and each moves up by one when
  `linestart` does. `Settled` is the invariant on a console as `printchar` works on
  it; the lemmas `NewlineSettles`, `CharSettles` and `DownSettles` follow the
  branches of the code.
* `EndOfText`: `Spec => []HoldsTail`. The console keeps no text, only the lines in view; `TailInv` says
  that they are the last lines of the text as it would be typeset on paper without end, that the cursor is
  behind its last character, and that `linefull` tells whether the last line was broken by
  its width or by a newline. `Typeset` is a recursive function of the text; each character of it
  is one step of `printchar`, which follows from `Follows` (`NewlineSettles` and the others say what
  becomes of the cells).

`KmtProofs`, first part, for any pool size, any threads and semaphores, under every sequence
of calls, those that nobody should make included: the teardown of a missing thread, of the
caller, of a thread anywhere in a wait. One thing is left to the callers, because `kmt_create`
does not look: a `thread_t` that is in the pool is not created again (section 7).

* `ApiInv` is inductive. It has but that one discipline to rest on, where `GateInv` has launchd's, and
  `thread_lock` may be left taken for good by a teardown that fails; so the point the
  running code is at decides which locks it has taken itself (`LocksInv`), and
  the rest may or may not be masked. `OthersOpen`: whoever does not run stands where IF
  was set, so nobody inside create, teardown or `proc_read` is ever preempted.
  `CallInv`: the thread and the slot such a call has settled on stay what they are until it
  is through. `StackInv`: only the thread a create is working on lacks a stack or a frame.
* `ApiConsistent`, `DispatchIsSafe`, `OverflowIsCaught`, `ProcReadIsSafe` follow. That a thread is in
  one slot at most is where the discipline of `kmt_create`'s callers comes in.
* `WakeupsLostByTeardown`. Signals do get lost: `kmt_teardown` does not look where its thread
  is, and one that was woken and has not run yet takes the wake-up with it, so that others sleep
  while the unit is there. `Unattended` counts, for a semaphore on which somebody sleeps,
  the units beyond the awake threads on their way to take one. The theorem says
  that this number grows by nothing but such a teardown: a signal adds one
  unit and one contender, a wait that takes a unit removes one of each, and whoever goes to
  sleep has seen that there was none. Where threads are torn down as
  launchd does, it stays 0 (`NoWakeupLostAtGate`).
* `SemaphoresImplemented`: the semaphores of `kmt.c` are those of module `Semaphore`, with the
  waits that a teardown ends (`KillSpec`). However the
  steps of a wait or a signal are interrupted, it takes or adds one unit, once; a thread
  torn down in a wait leaves the count alone. With
  `GateImplementsApi` this is the safety half of what the run `vfs_gate` asks in
  `ImplementsSemaphore`; the other half is progress.

`SemTestProofs`, for any number of braces, any initial count of `empty`, any pool:

* `UnitsAreConserved`. The sum of the units alone is not inductive: `TestInv` says for each of the
  two threads which semaphore it is about to take from or give to (`Client`), that nobody
  else touches one, and splits the units by the way they go (`Balance`): those whose brace
  is open are on their way to the consumer, all others to the producer.
* `TestImplementsApi`: the test makes no call that `KmtApi` leaves out (what it creates is not in the
  pool, what it kills is outside of `kmt.c`, since both threads are in their last loop), and no
  semaphore ever has more than all of the units. `MainInv` is the invariant it needs.

`OpenFilesProofs`, for any threads, descriptors, addresses and texts:

* `OpenInv == FilesOwned /\ CallInv /\ WordInv` is inductive. The descriptor that a close
  is about to clear still holds an address that is free, or already somebody else's:
  `FilesOwned` speaks of the *valid* descriptors, all but that one, and `CallInv` says which
  address each half-done open and close has in hand.
* `EachItsFile`, `WordsWhole`, `ReadsInside`; `LeaksKnown` says that an allocated `struct file` which no
  descriptor leads to and no call has in hand was lost by an open without a free
  descriptor or by a teardown: every action keeps what it does not itself lose.

`KvfsFileProofs`, for any files, threads, texts and blocks:

* `FileInvariant`, `MemoryIsOwned`: the extent `end - start` of a file is its `i_size`, no
  two files share a block, and none is lost. The inductive invariant `KvfsInv` adds what a
  write that is half done has in hand (`CallInv`, `NewInv`), and that what is in memory is
  of the length the header says (`MemInv`).
* `AppendsAreKept`: what a thread has appended stays in the file, in its place, whoever
  appends next.
* `Implementation`: each step of `KvfsFile` is a step of `WholeFile` or a stutter, with the
  contents of a file taken from its block; only the last step of a write is seen.

`PmmProofs`, for any heap, and any sizes for which `HeadStays`:

* `Freshness`: what `pmm_alloc` grants is aligned, and no word of it is in use. It lies in the
  heap if and only if some block of the list is large enough: the search passes no such
  block, and when there is none it ends at `_heap.end`, which `pmm.c:69` does not
  recognise, so that memory behind the heap is granted.
* `MemoryKept`: no step of the manager writes a word that clients are using, but for the
  `pmm_alloc` that has found no block: what that one writes through the header it takes to be at
  `_heap.end` depends on the words that happen to be there.
* Why the condition: without it the first property is false (`pmm_reuse`). `HeadStays` asks
  of every size that, in the first block, it leaves a free block in front of its data,
  or keeps the header in its place and is one word long, so that a block which
  it fills has no room for the header of a merged one.
* The invariant `PmmInv` says that there is a set B of headers and a set D of dead ones.
  The list leads through B, upwards and from the start of the heap to its end
  (`Chain`). The dead headers are those of merged blocks; they are marked free and lie in
  free blocks, apart from each other (`Dead`). A `front` leads to the block before, or to
  a dead header of that block (`Fronts`), because `pmm_free` leaves the block behind alone when
  it merges forward. The blocks in use are those of the clients, one each (`Clients`), and no two
  free blocks are neighbours, but for the one being freed. This last part is
  what makes merging right: the block a stale `front` leads to is free, and so is the one
  it lies in. While `pmm_free` merges backward, `next` of the block before is still
  the old one; the invariant then holds of the memory in which that
  store is already made. While `pmm_alloc` searches, `PmmInv` says that no block it has passed
  is large enough. It says nothing of the heap once memory behind it has been granted.
* `HeapIsSound`: the list, taken as `pmm.c` takes it, is as `HeapInv` says. `Reached[n]` is what
  one meets in n steps from the head; it is shown to stay in B and to have met all of B after as many
  steps as there is room for headers. `FreedMerges`: what is free between two calls has no free
  neighbour; this is the part of `PmmInv` on neighbours, read in `Reached`.
* Each way of cutting and placing a block is a lemma on headers (`Cut`, `Shift`, `GrantInside`,
  `GrantAtHead`, `GrantAtStart`), and so is merging (`Absorb`); the steps on words of memory follow
  from them, since stores to one header leave every other header alone (`Apart`).
* `RoundUpAssumption` says that some power of two is no smaller than a size: exponents are
  unknown to the provers. TLC evaluates it for the sizes of the runs.

`NamespaceProofs`, for any names, paths, file systems and bounds:

* `NamespaceInvariant`. `Sound` says of a tree of dentries with its mounts: parents come
  before their children and are directories of the same file system (`Tree`); each file system was
  mounted once, and its root belongs to that mount (`Mounts`); the list leads to each mount once
  (`List`), and `mounted` counts those in the list (`Exact`); each entry of `kvfs_files` in use is the inode of
  one dentry (`Files`), and no directory but a root is covered by two mounts in the list (`Once`).
  `TreeIsSound`, `MountsAreExact`, `OneFsInTrees`, `InodesAreExact` follow.
* A walk changes the tree as it goes, and what a walk that fails has made stays. So the
  invariant is carried through the walk: `Good` is what holds after each component, found or
  not, of the tree the walk has made so far. It includes the way by which the walk came there
  (`Way`): through directories that no mount covers, and mounts that are in the list.
  That is why no walk ends in a directory that is covered or was unmounted (`WalksAreLive`), and why a
  covered directory does not change (`CoveredStays`).
* `TraceSpellsPath`: the way up from what a path names spells the path. `Spells` is the invariant
  of the walk down: it has come to its dentry by one that spells the components so far, with `.` and
  `..` worked off and mounts crossed. The way up finds the same names, because a root in the
  list is mounted in one place only.
* `MountsStayApart`: a path leads to no directory that is covered, so a second mount on it goes to the
  root of the first (`Once`), and a walk crosses one mount only, so it never comes to what
  is mounted on a root: what was mounted first stays in sight.

The proofs assume what the modules assume of their constants (`BootAssumption`,
`LocksAssumption`, `ThreadAssumption`, `PoolAssumption`, `GateAssumption`,
`WordsAssumption`, ...), and TLC evaluates these in the runs. `PoolAssumption` holds in the
kernel because `KERNEL_MAX_THREAD` divides 2^32. Hypotheses of single theorems are `GateOpen`,
`HeadStays` and the bounds on `MaxCount`, which is a bound of the model.

How the proofs do induction. The library's theorems on induction take an operator as a parameter and
cannot be used. Where a proof needs induction on a number (the components of a path, the characters of a
text, the steps along a list), it defines the *set* of numbers for which the claim holds,
and `SetInduction` says that a set with 0 and with the successors of its members has all of Nat; this follows
from the library's theorem that `<` is well-founded on Nat. That a recursive function with the equation of its
definition exists at all is proved in the same way, from its finite pieces (`SomeReached`). So the
modules with theorems use recursive functions where they need recursion.

Only model-checked: liveness under fairness (`RoundRobin`, `Terminates`, and the progress in
`ImplementsSemaphore`), which is beyond the prover with ENABLED. Every safety and every action
property of the runs that hold is stated by a theorem.

## 6. Where the code and its words differ

* `kmt_lock`. `kmt_teardown` of a thread that is not in the pool returns without
  unlocking (`kmt.c:106`). The kernel goes on with interrupts masked, and the
  next call reports `Attempted to lock a locked lock`. The unit tests can do it:
  `vfs_test.c:300` creates four threads without looking at the result.
  `VfsGate` shows that a caller which looks at the result never does.
* `pmm_reuse`. When the block at the head is taken, its header may move up to the
  aligned address, and the `front` of the next block goes on pointing to the old
  one. Freeing the next block then merges it with a block that is in use.
* `proc_cached`. procfs declares its dentries invalid at all times, but
  `do_lookup` asks for `d_revalidate != NULL || ...`, which is true, so that a
  thread's name stays when the thread is gone.

Also seen, and part of the model but without a run of their own:

* `pmm.c:69`: the test for "no empty block" compares with NULL, but the list ends
  at `_heap.end`; a request for which no block is large enough is met with memory behind the heap
  (`FreshMemory`, the state `off_heap`). On the way the words at `_heap.end` are read as a header: an old
  `front` there makes the call write to the block that it names, and without one `memory_head` moves
  behind the heap. Such a `front` is there because
  `current_next->front` is written one word
  behind the heap when the last block is taken as a whole (`pmm.c:127`, `:144`, `:151`).
* `kmt.c:98`: `kmt_teardown` of a thread that was woken and has not run yet loses the wake-up (`LostByTeardownOnly`
  names the case). No caller in the repository does so: the tests tear down threads in
  their final loop.
* After a merge forward (`pmm.c:160`) the block behind goes on pointing to the header that was
  merged, until something writes its `front`. The branch for the head does not
  (the cause of `pmm_reuse`), so even a head that does not move can go wrong: taken as a
  whole by a request that leaves no room for a header, it may have such a dead header in
  what it grants. The sizes of the run `pmm` exclude this too.
* `do_lookup` crosses one mount only, so that a second mount on a path, which goes
  to the root mounted there, is not reached (`MountsApart`; the comment at `path.c:243` expects the
  last mounted).
* `kvfs.c:230` calls write "merely just an append operation". It overwrites from the position on, as
  `vfs_test.c:95` expects, and appends only with `O_APPEND`; the model follows the code.
* `open` without a free descriptor leaves the file it made and loses a `struct file`;
  `kmt_teardown` loses those of the files that are open.
* `kmt_sem_signal` reads through the NULL of an empty slot.

## 7. What is not modelled

* The branches of `os_interrupt` for the keyboard (it sets a flag of the unit tests)
  and for errors (they halt); `press_enter_to_continue.c`; registers.
* pmm with sizes that are no multiple of a word, or above 2^31.
* `pwd` and `chroot`, which nothing sets: the walk always starts at the root.
  The execute bits of `acl.c`. `d_drop`, `truncate`, `truncate_range`, `rmdir`, and
  the `open` of kvfs, procfs and devfs, which nothing calls.
* `unmount` of the root, the procfs or the devfs: it would free a
  `file_system_type` that was never allocated; no caller does.
* Negative file positions, which `lseek` does not refuse.
* What the code leaves to its callers, each a guard in the model: a `thread_t` in the pool is
  not created again (`kmt.c:48` does not look); a `file_system_type` is mounted once
  (`vfs.c:101` does not look); read, write and lseek are given a descriptor that is
  open (`vfs.c:259`, `:276` and `:288` follow the pointer unseen; close does look).
* The answers of `access`. It changes nothing but the dentries its walk makes, which are modelled; where
  procfs and devfs leave `i_uid`, `i_gid` or `i_acl` unset (`procfs.c:109`, `devfs.c:107`), the
  answer depends on what was in memory before.
* The wording of what `proc_read` makes; how long it is, is modelled.
* The pixels and the font of the console, screens wider than `screenbuf` (1605 pixels),
  and `setcursor`, which nothing calls; the log; the C library, of which
  `vsprintf` is vendored; the abstract machine, whose library comes as a binary.

## 8. Plan

Done, in this order: locks, threads and semaphores, the gate, memory, name space,
files, console, open files and descriptors, devices and `proc_read`, stacks that run over;
proofs of the locks, the gate, the console's screen, the open files, kvfs with its
refinement, the threads and semaphores under every sequence of calls, the memory
manager, the name space, the text on the console, the semaphores as an abstract
specification, and the semaphore test.

Next, the most valuable first:

1. An abstract specification of the name space (a tree of names with mounts, no dentries made
   by walks), and `Namespace` shown to implement it.
2. An abstract heap (disjoint granted ranges), and `Pmm` shown to implement it under
   `HeadStays`; `MemoryKept` and `Freshness` are most of the step.
3. `Namespace` under the gate: the steps of the operations between two changes of the pool.
