------------------------------ MODULE VfsGate ------------------------------
(***************************************************************************)
(* The threads of the kernel at the gate of the file system.  Every        *)
(* operation of src/vfs.c but vfs_close begins with                        *)
(* kmt->sem_wait(&vfs_sem) and signals the semaphore on each of its        *)
(* returns; between the two it may be preempted.  launchd creates threads  *)
(* and tears them down as the tests do: only threads whose creation        *)
(* succeeded, and only when they have reached their final while (1).       *)
(***************************************************************************)
EXTENDS Kmt

CONSTANT vfs_sem

ASSUME GateAssumption == vfs_sem \in Sems

(* vfs_init: kmt->sem_init(&vfs_sem, "vfs semaphore", 1)                   *)
GateOpen == InitialCount[vfs_sem] = 1

VARIABLES
    in_vfs,         \* threads between the wait and the signal
    parked          \* threads in their final while (1)

vars == <<intr_flag, lock_status, lockcount, release_intr, lock_warned,
          mode, thread_pool, current_thread_index, current, stack, sleep,
          current_waiting, count, pc, arg, slot, ret, in_vfs, parked>>

clientVars == <<in_vfs, parked>>

Init ==
    /\ KmtInit
    /\ in_vfs = {}
    /\ parked = {}

-----------------------------------------------------------------------------
(* An operation of vfs.c is called ...                                     *)
VfsCall(t) ==
    /\ t \notin in_vfs \cup parked
    /\ SemWaitCall(t, vfs_sem)
    /\ UNCHANGED clientVars

(* ... has the file system for itself ...                                  *)
VfsBegin(t) ==
    /\ WaitPass(t)
    /\ in_vfs' = in_vfs \cup {t}
    /\ UNCHANGED parked

(* ... and comes to one of its returns.                                    *)
VfsEnd(t) ==
    /\ t \in in_vfs
    /\ SemSignalCall(t, vfs_sem)
    /\ in_vfs' = in_vfs \ {t}
    /\ UNCHANGED parked

(* launchd's kmt->create and kmt->teardown                                 *)
LaunchdCreate(u) ==
    /\ u \notin Pooled
    /\ launchd \notin in_vfs
    /\ CreateCall(launchd, u)
    /\ UNCHANGED clientVars

(* Mutants: launchd kills a thread whose creation failed, or one that is   *)
(* still at work.                                                          *)
NotCreated(u) == u \notin Pooled \ parked

AtWork(u) == u \in Pooled \ {launchd}

Finished(u) == u \in parked \cap Pooled

LaunchdTeardown(u) ==
    /\ Finished(u)
    /\ launchd \notin in_vfs
    /\ TeardownCall(launchd, u)
    /\ UNCHANGED clientVars

(* A created thread starts at its entry, not where an earlier life of the  *)
(* same thread_t ended.                                                    *)
Started(t) ==
    /\ CreateMake(t)
    /\ parked' = parked \ {arg[t]}
    /\ UNCHANGED in_vfs

(* complete[i] = 1; while (1);                                             *)
Park(t) ==
    /\ At(t, "out")
    /\ t # launchd
    /\ t \notin in_vfs \cup parked
    /\ parked' = parked \cup {t}
    /\ UNCHANGED <<mode, thread_pool, dispatchVars, stack, semVars, pc, arg, slot, ret,
                   lockVars, in_vfs>>

Kernel(t) ==
    /\ \/ CreateFull(t) \/ CreateFind(t) \/ CreateStack(t)
       \/ TeardownMissing(t) \/ TeardownPanic(t) \/ TeardownFind(t)
       \/ TeardownFree(t) \/ TeardownDrop(t)
       \/ WaitSleep(t) \/ WaitSpin(t)
       \/ SignalPost(t)
    /\ UNCHANGED clientVars

ThreadStep(t) == VfsEnd(t) \/ VfsBegin(t) \/ Started(t) \/ Kernel(t)

Interrupt == TimerInterrupt /\ UNCHANGED clientVars

Next ==
    \/ \E t \in Threads : VfsCall(t) \/ Park(t) \/ ThreadStep(t)
    \/ \E u \in Threads : LaunchdCreate(u) \/ LaunchdTeardown(u)
    \/ Interrupt

Spec == Init /\ [][Next]_vars

(* The timer's interrupt request stays pending while interrupts are masked *)
(* and is taken when they are not.  A thread that keeps being dispatched   *)
(* keeps executing instructions: it finishes the operation it is in, and   *)
(* its body in the file system comes to a return.  Nobody has to call an   *)
(* operation or to park.                                                   *)
Fairness ==
    /\ SF_vars(Interrupt)
    /\ \A t \in Threads : SF_vars(ThreadStep(t))

FairSpec == Spec /\ Fairness

-----------------------------------------------------------------------------
(* At most one thread is inside of the file system: preempted bodies,      *)
(* sleeping and woken waiters, late callers that overtake a woken one, and *)
(* threads created or killed meanwhile make no difference.  vfs.c takes no *)
(* other lock around its tables.                                           *)
VfsExclusive == \A t, u \in in_vfs : t = u

(* The search for a thread to run always ends: not every thread of the     *)
(* pool can be asleep, because a sleeper waits for a holder who is awake.  *)
NeverHung == mode # "hung"

(* Inside of the file system a thread is awake and in the pool; launchd    *)
(* cannot have killed it.                                                  *)
HolderAlive == \A t \in in_vfs : t \in Pooled /\ sleep[t] = 0 /\ stack[t] = "made"

-----------------------------------------------------------------------------
(* Why: the inductive invariant, in named parts.                           *)
GateType ==
    /\ KmtTypeOK
    /\ in_vfs \subseteq Threads
    /\ parked \subseteq Threads \ {launchd}

(* Where the running code is decides which locks are taken and whether     *)
(* interrupts are on; everybody else stands where interrupts are on.       *)
LocksByPoint ==
    /\ lock_status[thread_lock] = IF Here \in ThreadSection THEN 1 ELSE 0
    /\ lock_status[kernel_memory_lock] = IF Here \in MemorySection THEN 1 ELSE 0
    /\ lock_status[semaphore_lock] = IF Here \in SemSection THEN 1 ELSE 0
    /\ lockcount = IF Here \in OpenPoints THEN 0
                   ELSE IF Here \in MemorySection THEN 2 ELSE 1
    /\ intr_flag <=> Here \in OpenPoints
    /\ ~intr_flag => release_intr
    /\ ~lock_warned
    /\ \A t \in Threads : t # current => pc[t] \in OpenPoints

(* The pool: launchd never leaves it, and only launchd changes it.         *)
PoolInv ==
    /\ mode = "run"
    /\ PoolConsistent
    /\ launchd \in Pooled
    /\ \A t \in Threads : pc[t] \in ThreadSection => t = launchd
    /\ pc[launchd] \in ThreadSection => arg[launchd] \in Threads \ {launchd}
    /\ pc[launchd] = "create_find" => arg[launchd] \notin Pooled
    /\ pc[launchd] \in {"tear_find", "tear_free", "tear_drop"} =>
          arg[launchd] \in parked \cap Pooled
    /\ pc[launchd] \in {"create_stack", "create_make"} =>
          arg[launchd] \in Pooled /\ pc[arg[launchd]] = "out"
    /\ pc[launchd] \in {"tear_free", "tear_drop"} =>
          slot[launchd] \in Slots /\ thread_pool[slot[launchd]] = arg[launchd]

(* What a thread may be doing.                                             *)
ThreadOK(t) ==
    /\ t \notin Pooled \/ t \in parked => pc[t] = "out" /\ t \notin in_vfs
    /\ pc[t] \in {"wait_test", "wait_spin", "signal_post"} => arg[t] = vfs_sem
    /\ t \in in_vfs => pc[t] = "out"
    /\ t \in in_vfs =>
          ~(pc[launchd] \in ThreadSection /\ (t = launchd \/ t = arg[launchd]))
    /\ sleep[t] = 1 => pc[t] = "wait_spin"
    /\ current_waiting[t] = IF sleep[t] = 1 THEN vfs_sem ELSE NULL

ThreadInv == \A t \in Threads : ThreadOK(t)

(* Every thread in the pool can be dispatched, but the one launchd is      *)
(* working on.                                                             *)
StackInv ==
    \A t \in Pooled :
        stack[t] = "made" \/ (pc[launchd] \in {"create_stack", "create_make", "tear_drop"}
                                /\ t = arg[launchd])

(* The unit of vfs_sem is in the semaphore or in exactly one thread's      *)
(* hands, and while it is in the semaphore a sleeper has an awake          *)
(* contender in front of it.                                               *)
Holders == in_vfs \cup {t \in Threads : pc[t] = "signal_post"}

UnitInv ==
    /\ count[vfs_sem] \in {0, 1}
    /\ count[vfs_sem] = 1 => Holders = {}
    /\ count[vfs_sem] = 0 => \E h \in Threads : Holders = {h}
    /\ count[vfs_sem] = 1 /\ (\E t \in Threads : sleep[t] = 1) =>
          \E t \in Threads : pc[t] \in {"wait_test", "wait_spin"} /\ sleep[t] = 0

GateInv ==
    /\ GateType
    /\ LocksByPoint
    /\ PoolInv
    /\ ThreadInv
    /\ StackInv
    /\ UnitInv

-----------------------------------------------------------------------------
(* Every thread that stays runnable is dispatched.                         *)
RoundRobin ==
    \A t \in Threads :
        (t \in Pooled /\ sleep[t] = 0) ~> (current = t \/ t \notin Pooled \/ sleep[t] = 1)

(* kmt.c and the scheduler implement fair semaphores, as far as the crowd  *)
(* of waiters goes.                                                        *)
ImplementsSemaphore == Sem!FairSpec
=============================================================================
