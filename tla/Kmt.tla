-------------------------------- MODULE Kmt --------------------------------
(***************************************************************************)
(* Kernel multi-threading: src/kmt.c with the dispatcher of src/os.c.      *)
(*                                                                         *)
(* One CPU runs the code of `current`; a timer interrupt may move it to    *)
(* another thread whenever EFLAGS.IF is set.  Every function is split at   *)
(* its lock calls, one step from each call to the next, so that a missing  *)
(* lock would let the timer in.  The spin locks are those of LockState.    *)
(*                                                                         *)
(* A thread calls the operations in any order and may be interrupted       *)
(* outside of its sections; modules that extend this one say which calls a *)
(* given caller makes.  The model starts where os_run enables interrupts:  *)
(* the boot context spins, launchd is in slot 1, nothing is dispatched.    *)
(***************************************************************************)
EXTENDS LockState, FiniteSets

CONSTANTS
    Threads,                \* the thread_t objects
    launchd,                \* launchd_thread, made by os_run without kmt_create
    NULL,
    Sems,                   \* the semaphores
    InitialCount,           \* what kmt_sem_init sets each one to
    KERNEL_MAX_THREAD,
    NoIndex,                \* (uint32_t)-1
    thread_lock, semaphore_lock, kernel_memory_lock

ASSUME ThreadAssumption ==
    /\ launchd \in Threads
    /\ NULL \notin Threads \cup Sems
ASSUME PoolAssumption ==
    /\ KERNEL_MAX_THREAD \in Nat \ {0}
    /\ NoIndex \in Nat
    /\ NoIndex > KERNEL_MAX_THREAD
    /\ NoIndex % KERNEL_MAX_THREAD = KERNEL_MAX_THREAD - 1   \* 1024 divides 2^32
ASSUME CountAssumption == InitialCount \in [Sems -> Nat]
ASSUME LockAssumption ==
    /\ {thread_lock, semaphore_lock, kernel_memory_lock} \subseteq Locks
    /\ thread_lock # semaphore_lock
    /\ thread_lock # kernel_memory_lock
    /\ semaphore_lock # kernel_memory_lock

VARIABLES
    mode,                   \* "run", or why nothing happens any more
    thread_pool,            \* slot -> thread_t* or NULL
    current_thread_index,
    current,                \* the thread being run; NULL: still the boot context
    stack,                  \* of a thread: none, allocated, frame made, fence overwritten
    sleep, current_waiting, \* fields of struct thread
    count,                  \* of a semaphore
    pc, arg,                \* the operation a thread is in, and its argument
    slot,                   \* local variable i of create and teardown
    ret                     \* what kmt_create returned

dispatchVars == <<current_thread_index, current>>
semVars == <<sleep, current_waiting, count>>

Slots == 1..KERNEL_MAX_THREAD

Points == {"out", "create_find", "create_stack", "create_make",
           "tear_find", "tear_free", "tear_drop",
           "wait_test", "wait_spin", "signal_post", "proc_check", "proc_text"}

KmtTypeOK ==
    /\ LockTypeOK
    /\ mode \in {"run", "hung", "panic"}
    /\ thread_pool \in [Slots -> Threads \cup {NULL}]
    /\ current_thread_index \in Slots \cup {NoIndex}
    /\ current \in Threads \cup {NULL}
    /\ stack \in [Threads -> {"none", "raw", "made", "broken"}]
    /\ sleep \in [Threads -> {0, 1}]
    /\ current_waiting \in [Threads -> Sems \cup {NULL}]
    /\ count \in [Sems -> Nat]
    /\ pc \in [Threads -> Points]
    /\ arg \in [Threads -> Threads \cup Sems \cup {NULL}]
    /\ slot \in [Threads -> Slots \cup {NoIndex}]
    /\ ret \in [Threads -> {0, -1}]

KmtInit ==
    /\ LockInit(TRUE)
    /\ mode = "run"
    /\ thread_pool = [i \in Slots |-> IF i = 1 THEN launchd ELSE NULL]
    /\ current_thread_index = NoIndex
    /\ current = NULL
    /\ stack = [t \in Threads |-> IF t = launchd THEN "made" ELSE "none"]
    /\ sleep = [t \in Threads |-> 0]
    /\ current_waiting = [t \in Threads |-> NULL]
    /\ count = InitialCount
    /\ pc = [t \in Threads |-> "out"]
    /\ arg = [t \in Threads |-> NULL]
    /\ slot = [t \in Threads |-> NoIndex]
    /\ ret = [t \in Threads |-> 0]

-----------------------------------------------------------------------------
(* The thread that has the CPU, at point p of the code above.              *)
At(t, p) == mode = "run" /\ current = t /\ pc[t] = p

Goto(t, p) ==
    /\ pc' = [pc EXCEPT ![t] = p]
    /\ UNCHANGED arg

(* An operation returns v and its arguments and locals are gone.           *)
Return(t, v) ==
    /\ pc' = [pc EXCEPT ![t] = "out"]
    /\ arg' = [arg EXCEPT ![t] = NULL]
    /\ slot' = [slot EXCEPT ![t] = NoIndex]
    /\ ret' = [ret EXCEPT ![t] = v]

(* The frame of u is built anew: wherever u was torn down, it is outside.  *)
ReturnAndRestart(t, u) ==
    /\ pc' = [pc EXCEPT ![t] = "out", ![u] = "out"]
    /\ arg' = [arg EXCEPT ![t] = NULL, ![u] = NULL]
    /\ slot' = [slot EXCEPT ![t] = NoIndex, ![u] = NoIndex]
    /\ ret' = [ret EXCEPT ![t] = 0, ![u] = 0]

Pooled == {thread_pool[i] : i \in Slots} \ {NULL}
Free == {i \in Slots : thread_pool[i] = NULL}
Lowest(S) == CHOOSE i \in S : \A j \in S : i <= j

Call(t, l, p, a) ==
    /\ At(t, "out")
    /\ SimpleLockTry(l)
    /\ pc' = [pc EXCEPT ![t] = p]
    /\ arg' = [arg EXCEPT ![t] = a]
    /\ ret' = [ret EXCEPT ![t] = 0]
    /\ UNCHANGED <<mode, thread_pool, dispatchVars, stack, semVars, slot>>

-----------------------------------------------------------------------------
(* kmt_create(thread, entry, arg)                                          *)
CreateCall(t, u) == Call(t, thread_lock, "create_find", u)

(* The pool is full: return -1.                                            *)
CreateFull(t) ==
    /\ At(t, "create_find")
    /\ Free = {}
    /\ SimpleLockUnlock(thread_lock)
    /\ Return(t, -1)
    /\ UNCHANGED <<mode, thread_pool, dispatchVars, stack, semVars>>

(* The thread is in the pool before it has a stack or a frame.             *)
CreateFind(t) ==
    /\ At(t, "create_find")
    /\ Free # {}
    /\ slot' = [slot EXCEPT ![t] = Lowest(Free)]
    /\ thread_pool' = [thread_pool EXCEPT ![Lowest(Free)] = arg[t]]
    /\ SimpleLockTry(kernel_memory_lock)
    /\ Goto(t, "create_stack")
    /\ UNCHANGED <<mode, dispatchVars, stack, semVars, ret>>

(* pmm->alloc returns the stack and releases the memory lock.              *)
CreateStack(t) ==
    /\ At(t, "create_stack")
    /\ stack' = [stack EXCEPT ![arg[t]] = "raw"]
    /\ SimpleLockUnlock(kernel_memory_lock)
    /\ Goto(t, "create_make")
    /\ UNCHANGED <<mode, thread_pool, dispatchVars, semVars, slot, ret>>

(* The fences, the fields and the frame: the new thread is awake and will  *)
(* start at its entry.                                                     *)
CreateMake(t) ==
    /\ At(t, "create_make")
    /\ stack' = [stack EXCEPT ![arg[t]] = "made"]
    /\ sleep' = [sleep EXCEPT ![arg[t]] = 0]
    /\ current_waiting' = [current_waiting EXCEPT ![arg[t]] = NULL]
    /\ SimpleLockUnlock(thread_lock)
    /\ ReturnAndRestart(t, arg[t])
    /\ UNCHANGED <<mode, thread_pool, dispatchVars, count>>

-----------------------------------------------------------------------------
(* kmt_teardown(thread)                                                    *)
TeardownCall(t, u) == Call(t, thread_lock, "tear_find", u)

(* "Attempted to kill a non-exist thread": the lock is not released.       *)
TeardownMissing(t) ==
    /\ At(t, "tear_find")
    /\ arg[t] \notin Pooled
    /\ Return(t, 0)
    /\ UNCHANGED <<mode, thread_pool, dispatchVars, stack, semVars, lockVars>>

TeardownSlot(t) == Lowest({i \in Slots : thread_pool[i] = arg[t]})

(* Mutant: a thread may free its own stack and slot.                       *)
PanicsIfBroken(t) == stack[arg[t]] = "broken"

(* "A thread commited suicide.", or it ran over a fence of its stack.      *)
Panics(t) == TeardownSlot(t) = current_thread_index \/ stack[arg[t]] = "broken"

TeardownPanic(t) ==
    /\ At(t, "tear_find")
    /\ arg[t] \in Pooled
    /\ Panics(t)
    /\ mode' = "panic"
    /\ UNCHANGED <<thread_pool, dispatchVars, stack, semVars, pc, arg, slot, ret, lockVars>>

TeardownFind(t) ==
    /\ At(t, "tear_find")
    /\ arg[t] \in Pooled
    /\ ~Panics(t)
    /\ slot' = [slot EXCEPT ![t] = TeardownSlot(t)]
    /\ SimpleLockTry(kernel_memory_lock)
    /\ Goto(t, "tear_free")
    /\ UNCHANGED <<mode, thread_pool, dispatchVars, stack, semVars, ret>>

(* pmm->free takes the stack back; the thread is still in the pool.        *)
TeardownFree(t) ==
    /\ At(t, "tear_free")
    /\ stack' = [stack EXCEPT ![arg[t]] = "none"]
    /\ SimpleLockUnlock(kernel_memory_lock)
    /\ Goto(t, "tear_drop")
    /\ UNCHANGED <<mode, thread_pool, dispatchVars, semVars, slot, ret>>

TeardownDrop(t) ==
    /\ At(t, "tear_drop")
    /\ thread_pool' = [thread_pool EXCEPT ![slot[t]] = NULL]
    /\ SimpleLockUnlock(thread_lock)
    /\ Return(t, 0)
    /\ UNCHANGED <<mode, dispatchVars, stack, semVars>>

-----------------------------------------------------------------------------
(* kmt_sem_wait(sem).  Its thread is thread_pool[current_thread_index].    *)
SemWaitCall(t, s) == Call(t, semaphore_lock, "wait_test", s)

Me == thread_pool[current_thread_index]

WaitSleep(t) ==
    /\ At(t, "wait_test")
    /\ count[arg[t]] = 0
    /\ current_waiting' = [current_waiting EXCEPT ![Me] = arg[t]]
    /\ sleep' = [sleep EXCEPT ![Me] = 1]
    /\ SimpleLockUnlock(semaphore_lock)
    /\ Goto(t, "wait_spin")
    /\ UNCHANGED <<mode, thread_pool, dispatchVars, stack, count, slot, ret>>

(* Woken up: lock again and look at the count once more.                   *)
WaitSpin(t) ==
    /\ At(t, "wait_spin")
    /\ sleep[Me] = 0
    /\ SimpleLockTry(semaphore_lock)
    /\ Goto(t, "wait_test")
    /\ UNCHANGED <<mode, thread_pool, dispatchVars, stack, semVars, slot, ret>>

WaitPass(t) ==
    /\ At(t, "wait_test")
    /\ count[arg[t]] # 0
    /\ count' = [count EXCEPT ![arg[t]] = @ - 1]
    /\ SimpleLockUnlock(semaphore_lock)
    /\ Return(t, 0)
    /\ UNCHANGED <<mode, thread_pool, dispatchVars, stack, sleep, current_waiting>>

-----------------------------------------------------------------------------
(* kmt_sem_signal(sem)                                                     *)
SemSignalCall(t, s) == Call(t, semaphore_lock, "signal_post", s)

(* Mutants: nobody is woken; any sleeper is woken, whatever it waits for.  *)
NoSleepers(s) == {}

AnySleepers(s) ==
    {i \in Slots : thread_pool[i] # NULL /\ sleep[thread_pool[i]] # 0}

SleepersInPool(s) ==
    {i \in Slots : /\ thread_pool[i] # NULL
                   /\ sleep[thread_pool[i]] # 0
                   /\ current_waiting[thread_pool[i]] = s}

(* Mutants: a signal adds two units; it adds none.                         *)
TwoMore(n) == n + 2

NoneMore(n) == n

OneMore(n) == n + 1

(* The sleeper in the lowest slot is woken, whoever slept first.           *)
SignalPost(t) ==
    /\ At(t, "signal_post")
    /\ LET s == arg[t]
           w == thread_pool[Lowest(SleepersInPool(s))]
       IN  /\ count' = [count EXCEPT ![s] = OneMore(@)]
           /\ IF SleepersInPool(s) # {}
                THEN /\ sleep' = [sleep EXCEPT ![w] = 0]
                     /\ current_waiting' = [current_waiting EXCEPT ![w] = NULL]
                ELSE UNCHANGED <<sleep, current_waiting>>
    /\ SimpleLockUnlock(semaphore_lock)
    /\ Return(t, 0)
    /\ UNCHANGED <<mode, thread_pool, dispatchVars, stack>>

-----------------------------------------------------------------------------
(* Mutant: the search for a thread starts at slot 1 every time.            *)
ProbeFromFirst(k) == k

(* os_interrupt on a timer event, and kmt_schedule: the k-th slot probed   *)
(* after current_thread_index, and the first one that can run.             *)
Probe(k) == ((current_thread_index + k - 1) % KERNEL_MAX_THREAD) + 1

Runnable(i) == thread_pool[i] # NULL /\ sleep[thread_pool[i]] = 0

(* Mutant: the fences are not looked at.                                   *)
FencesIgnored == TRUE

(* The fences of the interrupted thread.  Those of the pool itself, in its *)
(* slots 0 and KERNEL_MAX_THREAD + 1, are never written.                   *)
FencesHold ==
    current_thread_index # NoIndex => stack[thread_pool[current_thread_index]] # "broken"

(* "Kernel thread stack corrupted"                                         *)
FencePanic ==
    /\ mode = "run" /\ intr_flag
    /\ ~FencesHold
    /\ mode' = "panic"
    /\ UNCHANGED <<thread_pool, dispatchVars, stack, semVars, pc, arg, slot, ret, lockVars>>

Dispatch(i) ==
    /\ mode = "run" /\ intr_flag
    /\ FencesHold
    /\ \E k \in Slots : /\ i = Probe(k)
                        /\ \A j \in 1..(k-1) : ~Runnable(Probe(j))
    /\ Runnable(i)
    /\ current_thread_index' = i
    /\ current' = thread_pool[i]
    /\ UNCHANGED <<mode, thread_pool, stack, semVars, pc, arg, slot, ret, lockVars>>

Timer == \E i \in Slots : Dispatch(i)

(* With nothing to run the search never ends, interrupts masked.           *)
TimerHang ==
    /\ mode = "run" /\ intr_flag
    /\ FencesHold
    /\ \A i \in Slots : ~Runnable(i)
    /\ mode' = "hung"
    /\ intr_flag' = FALSE
    /\ UNCHANGED <<lock_status, lockcount, release_intr, lock_warned>>
    /\ UNCHANGED <<thread_pool, dispatchVars, stack, semVars, pc, arg, slot, ret>>

TimerInterrupt == Timer \/ TimerHang \/ FencePanic

-----------------------------------------------------------------------------
(* Everything thread t does by itself once it has called an operation.     *)
Proceed(t) ==
    \/ CreateFull(t) \/ CreateFind(t) \/ CreateStack(t) \/ CreateMake(t)
    \/ TeardownMissing(t) \/ TeardownPanic(t) \/ TeardownFind(t)
    \/ TeardownFree(t) \/ TeardownDrop(t)
    \/ WaitSleep(t) \/ WaitSpin(t) \/ WaitPass(t)
    \/ SignalPost(t)

-----------------------------------------------------------------------------
(* What a caller may rely on; the modules that extend this one check it    *)
(* under the calls they make.                                              *)

(* Whenever the timer may strike, every thread it may choose has a stack   *)
(* and a frame: the thread kmt_create has put in the pool but not made     *)
(* yet, and the one kmt_teardown has already freed, are never dispatched.  *)
DispatchSafe ==
    mode = "run" /\ intr_flag => \A t \in Pooled : stack[t] \in {"made", "broken"}

(* A thread is in one slot at most, and the index of the running thread    *)
(* leads to it: kmt_sem_wait puts the caller to sleep through that index,  *)
(* and kmt_schedule checks the fences of the stack found through it.       *)
PoolConsistent ==
    /\ \A i, j \in Slots : thread_pool[i] = thread_pool[j] /\ i # j => thread_pool[i] = NULL
    /\ IF current = NULL THEN current_thread_index = NoIndex
                         ELSE /\ current_thread_index \in Slots
                              /\ thread_pool[current_thread_index] = current

(* Sleeping is always on the semaphore being waited for, in the loop that  *)
(* can be woken.                                                           *)
SleepConsistent ==
    \A t \in Pooled :
        IF sleep[t] = 1 THEN pc[t] = "wait_spin" /\ current_waiting[t] = arg[t]
                        ELSE current_waiting[t] = NULL \/ stack[t] \in {"none", "raw"}

(* The threads that have a stack to run on, those of them that sleep on a  *)
(* semaphore, and those that are awake in a wait: on their way to a unit.  *)
Alive == {t \in Pooled : stack[t] \in {"made", "broken"}}
Sleepers(s) == {t \in Alive : sleep[t] = 1 /\ current_waiting[t] = s}
Contenders(s) == {t \in Alive : /\ pc[t] \in {"wait_spin", "wait_test"}
                                /\ arg[t] = s /\ sleep[t] = 0}

(* The units of s that no thread is about to take although one sleeps for  *)
(* them: each is a wake-up that came too early or was lost.                *)
Unattended(s) ==
    IF Sleepers(s) # {} /\ count[s] > Cardinality(Contenders(s))
      THEN count[s] - Cardinality(Contenders(s))
      ELSE 0

(* No signal is lost: while a thread sleeps on a semaphore, each unit of   *)
(* the count has an awake thread on its way to take it.                    *)
NoLostWakeup == \A s \in Sems : Unattended(s) = 0

(* "Attempted to lock a locked lock" is never logged, nor a free lock      *)
(* released: a call that returns has released what it locked.              *)
NoLockWarning == ~lock_warned

(* The semaphores as their callers see them: module Semaphore.  A thread   *)
(* torn down in a wait stays there until it is created again.              *)
waiting == [t \in Threads |-> IF pc[t] \in {"wait_test", "wait_spin"} THEN arg[t] ELSE NULL]

Sem == INSTANCE Semaphore

-----------------------------------------------------------------------------
(* The sections of the code, by the points where the running thread may    *)
(* be: which locks it holds there, and where interrupts are on.            *)
ThreadSection == {"create_find", "create_stack", "create_make",
                  "tear_find", "tear_free", "tear_drop"}
MemorySection == {"create_stack", "tear_free"}
SemSection == {"wait_test", "signal_post"}
OpenPoints == {"out", "wait_spin"}

Here == IF current = NULL THEN "out" ELSE pc[current]
=============================================================================
