----------------------------- MODULE KmtProofs -----------------------------
(***************************************************************************)
(* Proofs about the kernel threads, for any number of threads and any size *)
(* of the pool, under two kinds of callers.                                *)
(*                                                                         *)
(* The first part is about KmtApi: any semaphores and every sequence of    *)
(* calls, missing, waiting and overrun threads included; only a thread     *)
(* that is in the pool is not created again.  The second part is about     *)
(* VfsGate, whose semaphore starts at 1.  ApiInv and GateInv are           *)
(* inductive; there is one lemma for each action that changes more than    *)
(* where the running thread is.                                            *)
(***************************************************************************)
EXTENDS KmtApi, VfsGate, FiniteSetTheorems, WellFoundedInduction, TLAPS

-----------------------------------------------------------------------------
(* What the lock functions, the choice of a slot and a finite pool give,   *)
(* whoever calls.                                                          *)

(* A free lock is taken: it is counted, interrupts go off, and the first   *)
(* one remembers the flag.                                                 *)
LEMMA LockTaken ==
    ASSUME NEW l \in Locks, lock_status[l] = 0, SimpleLockTry(l)
    PROVE  /\ intr_flag' = FALSE
           /\ lock_status' = [lock_status EXCEPT ![l] = 1]
           /\ lockcount' = lockcount + 1
           /\ release_intr' = IF lockcount = 0 THEN intr_flag ELSE release_intr
           /\ lock_warned' = lock_warned
  BY DEF SimpleLockTry, Take, Remembered

(* A taken lock is released: the last one puts the flag back.              *)
LEMMA LockReleased ==
    ASSUME NEW l \in Locks, lock_status[l] = 1, SimpleLockUnlock(l)
    PROVE  /\ intr_flag' = (intr_flag \/ (lockcount = 1 /\ release_intr))
           /\ lock_status' = [lock_status EXCEPT ![l] = 0]
           /\ lockcount' = lockcount - 1
           /\ UNCHANGED <<release_intr, lock_warned>>
  BY DEF SimpleLockUnlock, LastRelease, Drop

(* A nonempty set of slots has a lowest one: the least of the initial      *)
(* segments that end in it, by the well-foundedness of strict inclusion.   *)
LEMMA LowestIn ==
    ASSUME NEW S \in SUBSET Slots, S # {}
    PROVE  Lowest(S) \in S
  <1> DEFINE T == {1..i : i \in S}
             R == StrictSubsetOrdering(Slots)
  <1>1. IsWellFoundedOn(R, SUBSET Slots)
    <2>1. IsFiniteSet(Slots)
      BY PoolAssumption, FS_Interval DEF Slots
    <2>2. FiniteSubsetsOf(Slots) = SUBSET Slots
      BY <2>1, FS_FiniteSubsetsOfFinite
    <2>3. IsWellFoundedOn(R, FiniteSubsetsOf(Slots))
      BY FS_StrictSubsetOrderingWellFounded
    <2> HIDE DEF R
    <2> QED
      BY <2>2, <2>3
  <1>2. \A i \in S : 1..i \in SUBSET Slots
    BY PoolAssumption DEF Slots
  <1>3. T \subseteq SUBSET Slots /\ T # {}
    <2>1. PICK i \in S : TRUE
      OBVIOUS
    <2>2. 1..i \in T
      OBVIOUS
    <2> QED
      BY <1>2, <2>2
  <1>4. \E x \in T : \A y \in T : ~(<<y, x>> \in R)
    <2> HIDE DEF R, T
    <2> QED
      BY <1>1, <1>3, WFMin
  <1>5. PICK x \in S : \A y \in S : ~(<<1..y, 1..x>> \in R)
    BY <1>4
  <1>6. \A y \in S : x <= y
    <2> SUFFICES ASSUME NEW y \in S, y < x PROVE FALSE
      BY DEF Slots
    <2>1. 1..y \subseteq 1..x /\ x \in 1..x /\ x \notin 1..y
      BY DEF Slots
    <2> QED
      BY <1>2, <1>5, <2>1 DEF StrictSubsetOrdering
  <1> QED
    BY <1>6 DEF Lowest

(* The pool is finite, and so are the sets of its threads.                 *)
LEMMA PooledFinite == IsFiniteSet(Pooled)
  <1>1. IsFiniteSet(Slots)
    BY PoolAssumption, FS_Interval DEF Slots
  <1>2. [i \in Slots |-> thread_pool[i]] \in Surjection(Slots, {thread_pool[i] : i \in Slots})
    BY DEF Surjection
  <1>3. IsFiniteSet({thread_pool[i] : i \in Slots})
    BY <1>1, <1>2, FS_Surjection
  <1> QED
    BY <1>3, FS_Subset DEF Pooled

-----------------------------------------------------------------------------
(* Where the running code is says which locks it has taken: see Kmt for    *)
(* the sections.  thread_lock may be taken besides, by an early return of  *)
(* kmt_teardown; interrupts are off then until somebody releases it.       *)
PoolSection == {"create_find", "create_stack", "create_make",
                "tear_find", "tear_free", "tear_drop", "proc_check", "proc_text"}
KernelLocks == {thread_lock, kernel_memory_lock, semaphore_lock}

Balanced ==
    /\ lockcount = lock_status[thread_lock] + lock_status[kernel_memory_lock]
                     + lock_status[semaphore_lock]
    /\ intr_flag <=> lockcount = 0
    /\ lockcount > 0 => release_intr

LocksInv ==
    /\ Balanced
    /\ Here \in PoolSection => lock_status[thread_lock] = 1
    /\ lock_status[kernel_memory_lock] = IF Here \in MemorySection THEN 1 ELSE 0
    /\ lock_status[semaphore_lock] = IF Here \in SemSection THEN 1 ELSE 0

OthersOpen == \A t \in Threads : t # current => pc[t] \in OpenPoints

(* What an operation of t knows.                                           *)
CallOK(t) ==
    /\ pc[t] \in {"wait_test", "wait_spin", "signal_post"} => arg[t] \in Sems
    /\ pc[t] \in {"create_find", "create_stack", "create_make",
                  "tear_find", "tear_free", "tear_drop"} => arg[t] \in Threads
    /\ pc[t] = "create_find" => arg[t] \notin Pooled
    /\ pc[t] \in {"create_stack", "create_make"} =>
          arg[t] \in Pooled /\ arg[t] # t
    /\ pc[t] \in {"tear_free", "tear_drop"} =>
          /\ arg[t] # t
          /\ slot[t] \in Slots /\ thread_pool[slot[t]] = arg[t]
    /\ pc[t] \in {"proc_check", "proc_text"} => slot[t] \in Slots
    /\ pc[t] = "proc_text" => thread_pool[slot[t]] # NULL

CallInv == \A t \in Threads : CallOK(t)

SleepInv ==
    \A t \in Threads :
        /\ sleep[t] = 1 => pc[t] = "wait_spin" /\ current_waiting[t] = arg[t]
        /\ sleep[t] = 0 => current_waiting[t] = NULL

ApiStackInv ==
    /\ \A t \in Pooled :
          \/ stack[t] \in {"made", "broken"}
          \/ Here \in {"create_stack", "create_make", "tear_drop"} /\ t = arg[current]
    /\ \A t \in Threads : stack[t] = "broken" => t = current
    /\ \A t \in Threads \ Pooled : stack[t] = "none"
    /\ Here \in {"create_stack", "tear_drop"} => stack[arg[current]] = "none"
    /\ Here = "create_make" => stack[arg[current]] = "raw"

RunInv == mode = "run" => LocksInv /\ OthersOpen /\ CallInv /\ ApiStackInv

ApiInv == KmtTypeOK /\ PoolConsistent /\ SleepInv /\ RunInv

-----------------------------------------------------------------------------
LEMMA InitApi == KmtInit => ApiInv
  <1> SUFFICES ASSUME KmtInit PROVE ApiInv
    OBVIOUS
  <1> USE DEF KmtInit, LockInit
  <1>1. KmtTypeOK
    BY ThreadAssumption, PoolAssumption, CountAssumption
    DEF KmtTypeOK, LockTypeOK, Points, Slots
  <1>2. Pooled = {launchd}
    BY ThreadAssumption, PoolAssumption DEF Pooled, Slots
  <1>3. PoolConsistent
    BY ThreadAssumption, PoolAssumption DEF PoolConsistent, Slots
  <1>4. SleepInv
    BY DEF SleepInv
  <1>5. LocksInv
    BY LockAssumption
    DEF LocksInv, Balanced, Here, PoolSection, MemorySection, SemSection
  <1>6. OthersOpen /\ CallInv
    BY DEF OthersOpen, CallInv, CallOK, OpenPoints
  <1>7. ApiStackInv
    BY <1>2, ThreadAssumption DEF ApiStackInv, Here
  <1> QED
    BY <1>1, <1>3, <1>4, <1>5, <1>6, <1>7 DEF ApiInv, RunInv

-----------------------------------------------------------------------------
(* What a lock call of the running thread does to the lock state, by the   *)
(* points it leads from and to.  thread_lock may be found taken.           *)
ApiMove(p, q) ==
    \/ /\ p \in OpenPoints /\ q \in PoolSection \ MemorySection
       /\ SimpleLockTry(thread_lock)
    \/ /\ p \in OpenPoints /\ q \in SemSection
       /\ SimpleLockTry(semaphore_lock)
    \/ /\ p \in PoolSection \ MemorySection /\ q \in MemorySection
       /\ SimpleLockTry(kernel_memory_lock)
    \/ /\ p \in MemorySection /\ q \in PoolSection \ MemorySection
       /\ SimpleLockUnlock(kernel_memory_lock)
    \/ /\ p \in PoolSection \ MemorySection /\ q \in OpenPoints
       /\ SimpleLockUnlock(thread_lock)
    \/ /\ p \in SemSection /\ q \in OpenPoints
       /\ SimpleLockUnlock(semaphore_lock)
    \/ /\ p \in PoolSection \ MemorySection
       /\ q \in OpenPoints \cup (PoolSection \ MemorySection)
       /\ UNCHANGED lockVars

(* The running thread, and the types of what its steps change.             *)
LEMMA ApiRunning ==
    ASSUME ApiInv, mode = "run", NEW t \in Threads, current = t
    PROVE  /\ t # NULL /\ t \in Pooled /\ Me = t /\ Here = pc[t]
           /\ current_thread_index \in Slots
           /\ thread_pool[current_thread_index] = t
           /\ KmtTypeOK /\ PoolConsistent /\ SleepInv
           /\ LocksInv /\ OthersOpen /\ CallInv /\ ApiStackInv
           /\ CallOK(t)
           /\ pc \in [Threads -> Points]
           /\ arg \in [Threads -> Threads \cup Sems \cup {NULL}]
           /\ slot \in [Threads -> Slots \cup {NoIndex}]
           /\ ret \in [Threads -> {0, -1}]
           /\ thread_pool \in [Slots -> Threads \cup {NULL}]
           /\ stack \in [Threads -> {"none", "raw", "made", "broken"}]
           /\ sleep \in [Threads -> {0, 1}]
           /\ current_waiting \in [Threads -> Sems \cup {NULL}]
           /\ count \in [Sems -> Nat]
  BY ThreadAssumption
  DEF ApiInv, RunInv, KmtTypeOK, PoolConsistent, CallInv, Me, Pooled, Here

(* simple_lock_try and simple_lock_unlock keep the count; a lock found     *)
(* taken is counted already.                                               *)
LEMMA LockCounted ==
    ASSUME LockTypeOK, Balanced, NEW l \in KernelLocks, SimpleLockTry(l)
    PROVE  LockTypeOK' /\ Balanced' /\ lock_status' = [lock_status EXCEPT ![l] = 1]
  <1>1. /\ l \in Locks
        /\ thread_lock \in Locks /\ semaphore_lock \in Locks /\ kernel_memory_lock \in Locks
        /\ thread_lock # semaphore_lock /\ thread_lock # kernel_memory_lock
        /\ semaphore_lock # kernel_memory_lock
        /\ lock_status \in [Locks -> {0, 1}] /\ lockcount \in Nat
    BY LockAssumption DEF KernelLocks, LockTypeOK
  <1>2. CASE lock_status[l] = 1
    <2>1. UNCHANGED <<lock_status, lockcount, release_intr>> /\ ~intr_flag' /\ lock_warned'
      BY <1>2 DEF SimpleLockTry, Take
    <2>2. lockcount > 0
      BY <1>1, <1>2 DEF Balanced, KernelLocks
    <2>3. release_intr'
      BY <2>1, <2>2 DEF Balanced
    <2>4. intr_flag' \in BOOLEAN /\ release_intr' \in BOOLEAN /\ lock_warned' \in BOOLEAN
      BY <2>1, <1>2, Zenon DEF SimpleLockTry, Take, LockTypeOK
    <2>5. lock_status' = [lock_status EXCEPT ![l] = 1]
      BY <1>1, <1>2, <2>1
    <2>6. LockTypeOK'
      BY <1>1, <2>1, <2>4 DEF LockTypeOK
    <2>7. Balanced'
      BY <1>1, <2>1, <2>2, <2>3 DEF Balanced
    <2> QED
      BY <2>5, <2>6, <2>7
  <1>3. CASE lock_status[l] = 0
    <2>1. /\ intr_flag' = FALSE
          /\ lock_status' = [lock_status EXCEPT ![l] = 1]
          /\ lockcount' = lockcount + 1
          /\ release_intr' = IF lockcount = 0 THEN intr_flag ELSE release_intr
          /\ lock_warned' = lock_warned
      BY <1>1, <1>3, LockTaken
    <2>2. lockcount > 0 => release_intr
      BY DEF Balanced
    <2>3. lockcount = 0 => intr_flag
      BY DEF Balanced
    <2>4. release_intr' = TRUE
      <3>1. CASE lockcount = 0
        BY <2>1, <2>3, <3>1, Zenon DEF LockTypeOK
      <3>2. CASE lockcount # 0
        <4>1. release_intr
          BY <1>1, <2>2, <3>2
        <4> QED
          BY <2>1, <3>2, <4>1, Zenon DEF LockTypeOK
      <3> QED
        BY <3>1, <3>2
    <2>5. intr_flag' \in BOOLEAN /\ release_intr' \in BOOLEAN /\ lock_warned' \in BOOLEAN
      BY <2>1, <2>4, Zenon DEF LockTypeOK
    <2>6. lock_status' \in [Locks -> {0, 1}] /\ lockcount' \in Nat
      BY <1>1, <2>1
    <2>7. LockTypeOK'
      BY <2>5, <2>6 DEF LockTypeOK
    <2>8. /\ lockcount' = lock_status'[thread_lock] + lock_status'[kernel_memory_lock]
                           + lock_status'[semaphore_lock]
          /\ lockcount' # 0
      BY <1>1, <1>3, <2>1 DEF Balanced, KernelLocks
    <2> QED
      BY <2>1, <2>4, <2>7, <2>8 DEF Balanced
  <1> QED
    BY <1>1, <1>2, <1>3

LEMMA UnlockCounted ==
    ASSUME LockTypeOK, Balanced, NEW l \in KernelLocks, lock_status[l] = 1, SimpleLockUnlock(l)
    PROVE  LockTypeOK' /\ Balanced' /\ lock_status' = [lock_status EXCEPT ![l] = 0]
  <1>1. /\ l \in Locks
        /\ thread_lock \in Locks /\ semaphore_lock \in Locks /\ kernel_memory_lock \in Locks
        /\ thread_lock # semaphore_lock /\ thread_lock # kernel_memory_lock
        /\ semaphore_lock # kernel_memory_lock
        /\ lock_status \in [Locks -> {0, 1}] /\ lockcount \in Nat
    BY LockAssumption DEF KernelLocks, LockTypeOK
  <1>2. /\ intr_flag' = (intr_flag \/ (lockcount = 1 /\ release_intr))
        /\ lock_status' = [lock_status EXCEPT ![l] = 0]
        /\ lockcount' = lockcount - 1
        /\ UNCHANGED <<release_intr, lock_warned>>
    BY <1>1, LockReleased
  <1>3. /\ lockcount' = lock_status'[thread_lock] + lock_status'[kernel_memory_lock]
                         + lock_status'[semaphore_lock]
        /\ lockcount > 0
    BY <1>1, <1>2 DEF Balanced, KernelLocks
  <1>4. release_intr /\ ~intr_flag
    BY <1>3 DEF Balanced
  <1>5. intr_flag' <=> lockcount = 1
    BY <1>2, <1>4
  <1>6. intr_flag' <=> lockcount' = 0
    BY <1>1, <1>2, <1>5
  <1>7. release_intr'
    BY <1>2, <1>4
  <1>8. intr_flag' \in BOOLEAN /\ release_intr' \in BOOLEAN /\ lock_warned' \in BOOLEAN
    BY <1>2, Zenon DEF LockTypeOK
  <1>9. lock_status' \in [Locks -> {0, 1}] /\ lockcount' \in Nat
    BY <1>1, <1>2, <1>3
  <1> QED
    BY <1>2, <1>3, <1>6, <1>7, <1>8, <1>9 DEF LockTypeOK, Balanced

(* What the running thread does with the locks, when it goes to q and at   *)
(* most restarts others.                                                   *)
LEMMA ApiMoveLocks ==
    ASSUME ApiInv, mode = "run", NEW t \in Threads, NEW q, current = t, ApiMove(pc[t], q),
           pc'[t] = q, \A u \in Threads : u # t => pc'[u] \in {pc[u], "out"},
           current' = current
    PROVE  LockTypeOK' /\ LocksInv' /\ OthersOpen'
  <1> USE DEF PoolSection, MemorySection, SemSection, OpenPoints
  <1> DEFINE p == pc[t]
  <1>1. /\ thread_lock \in Locks /\ semaphore_lock \in Locks /\ kernel_memory_lock \in Locks
        /\ thread_lock # semaphore_lock /\ thread_lock # kernel_memory_lock
        /\ semaphore_lock # kernel_memory_lock
    BY LockAssumption
  <1>2. pc \in [Threads -> Points] /\ LockTypeOK /\ Here = p
    BY ApiRunning DEF KmtTypeOK
  <1>3. Here' = q
    BY <1>2, ApiRunning DEF Here
  <1>4. OthersOpen'
    BY <1>2, ApiRunning DEF OthersOpen
  <1>5. /\ Balanced
        /\ p \in PoolSection => lock_status[thread_lock] = 1
        /\ lock_status[kernel_memory_lock] = IF p \in MemorySection THEN 1 ELSE 0
        /\ lock_status[semaphore_lock] = IF p \in SemSection THEN 1 ELSE 0
    BY <1>2, ApiRunning DEF LocksInv
  <1> HIDE DEF p
  <1>6. ApiMove(p, q)
    BY DEF p
  <1>7. /\ LockTypeOK' /\ Balanced'
        /\ q \in PoolSection => lock_status'[thread_lock] = 1
        /\ lock_status'[kernel_memory_lock] = IF q \in MemorySection THEN 1 ELSE 0
        /\ lock_status'[semaphore_lock] = IF q \in SemSection THEN 1 ELSE 0
    <2>1. ASSUME NEW l \in KernelLocks, SimpleLockTry(l)
          PROVE  LockTypeOK' /\ Balanced' /\ lock_status' = [lock_status EXCEPT ![l] = 1]
      BY <1>2, <1>5, <2>1, LockCounted
    <2>2. ASSUME NEW l \in KernelLocks, lock_status[l] = 1, SimpleLockUnlock(l)
          PROVE  LockTypeOK' /\ Balanced' /\ lock_status' = [lock_status EXCEPT ![l] = 0]
      BY <1>2, <1>5, <2>2, UnlockCounted
    <2>3. UNCHANGED lockVars => LockTypeOK' /\ Balanced' /\ lock_status' = lock_status
      BY <1>2, <1>5 DEF lockVars, LockTypeOK, Balanced
    <2>4. lock_status \in [Locks -> {0, 1}]
      BY <1>2 DEF LockTypeOK
    <2> HIDE DEF LockTypeOK, Balanced
    <2> QED
      BY <1>1, <1>5, <1>6, <2>1, <2>2, <2>3, <2>4 DEF ApiMove, KernelLocks
  <1> QED
    BY <1>3, <1>4, <1>7 DEF LocksInv


-----------------------------------------------------------------------------
(* What the threads that do not run know stays true, if they stay where    *)
(* they are or are restarted.                                              *)
LEMMA OthersCallOK ==
    ASSUME ApiInv, mode = "run", NEW t \in Threads, current = t,
           \A u \in Threads : u # t => pc'[u] = "out" \/ (pc'[u] = pc[u] /\ arg'[u] = arg[u])
    PROVE  \A u \in Threads : u # t => CallOK(u)'
  <1> SUFFICES ASSUME NEW u \in Threads, u # t PROVE CallOK(u)'
    OBVIOUS
  <1>1. CallOK(u) /\ pc[u] \in OpenPoints
    BY ApiRunning DEF CallInv, OthersOpen
  <1> QED
    BY <1>1 DEF CallOK, OpenPoints

(* A step of the running thread that changes only where it is, its locals  *)
(* and the locks.                                                          *)
LEMMA Moved ==
    ASSUME ApiInv, mode = "run", NEW t \in Threads, NEW q \in Points, current = t,
           ApiMove(pc[t], q), pc' = [pc EXCEPT ![t] = q],
           UNCHANGED <<mode, thread_pool, current_thread_index, current, stack,
                       sleep, current_waiting, count>>,
           arg' \in [Threads -> Threads \cup Sems \cup {NULL}],
           slot' \in [Threads -> Slots \cup {NoIndex}],
           ret' \in [Threads -> {0, -1}],
           \A u \in Threads : u # t => arg'[u] = arg[u],
           sleep[t] = 0,
           {pc[t], q} \cap {"create_stack", "create_make", "tear_drop"} = {},
           CallOK(t)'
    PROVE  ApiInv'
  <1>1. LockTypeOK' /\ LocksInv' /\ OthersOpen'
    BY ApiRunning, ApiMoveLocks
  <1>2. KmtTypeOK'
    BY <1>1, ApiRunning DEF KmtTypeOK
  <1>3. PoolConsistent' /\ Pooled' = Pooled
    BY ApiRunning DEF PoolConsistent, Pooled
  <1>4. SleepInv'
    BY ApiRunning DEF SleepInv
  <1>5. CallInv'
    <2>1. \A u \in Threads : u # t => CallOK(u)'
      BY ApiRunning, OthersCallOK
    <2> QED
      BY <2>1 DEF CallInv
  <1>6. Here' = q
    BY ApiRunning DEF Here
  <1>7. ApiStackInv'
    BY <1>3, <1>6, ApiRunning DEF ApiStackInv
  <1> QED
    BY <1>1, <1>2, <1>3, <1>4, <1>5, <1>7 DEF ApiInv, RunInv

-----------------------------------------------------------------------------
(* A thread that is not in the loop of a wait is awake.                    *)
LEMMA Awake ==
    ASSUME ApiInv, NEW t \in Threads, pc[t] # "wait_spin"
    PROVE  sleep[t] = 0
  BY DEF ApiInv, SleepInv, KmtTypeOK

(* The calls: from outside to the first point behind a lock.               *)
LEMMA ApiCall ==
    ASSUME ApiInv, NEW t \in Threads, NEW l, NEW p \in Points, NEW a \in Threads \cup Sems,
           Call(t, l, p, a), ApiMove("out", p),
           p \in {"wait_test", "signal_post"} => a \in Sems,
           p \in {"create_find", "tear_find"} => a \in Threads,
           p = "create_find" => a \notin Pooled,
           p \in {"create_find", "tear_find", "wait_test", "signal_post"}
    PROVE  ApiInv'
  <1>1. /\ mode = "run" /\ current = t /\ pc[t] = "out"
        /\ pc' = [pc EXCEPT ![t] = p] /\ arg' = [arg EXCEPT ![t] = a]
        /\ ret' = [ret EXCEPT ![t] = 0]
        /\ UNCHANGED <<mode, thread_pool, current_thread_index, current, stack,
                       sleep, current_waiting, count, slot>>
    BY DEF Call, At, dispatchVars, semVars
  <1>2. Pooled' = Pooled
    BY <1>1 DEF Pooled
  <1>3. pc'[t] = p /\ arg'[t] = a /\ t \in Pooled
    BY <1>1, ApiRunning
  <1>5. CallOK(t)'
    <2>1. CASE p \in {"wait_test", "signal_post"}
      BY <1>2, <1>3, <2>1 DEF CallOK
    <2>2. CASE p = "create_find"
      BY <1>2, <1>3, <2>2 DEF CallOK
    <2>3. CASE p = "tear_find"
      BY <1>2, <1>3, <2>3 DEF CallOK
    <2> QED
      BY <2>1, <2>2, <2>3
  <1>6. /\ arg' \in [Threads -> Threads \cup Sems \cup {NULL}]
        /\ slot' \in [Threads -> Slots \cup {NoIndex}]
        /\ ret' \in [Threads -> {0, -1}]
        /\ \A u \in Threads : u # t => arg'[u] = arg[u]
        /\ ApiMove(pc[t], p) /\ sleep[t] = 0
    BY <1>1, ApiRunning, Awake
  <1> QED
    BY <1>1, <1>5, <1>6, Moved

LEMMA ApiCreateCall ==
    ASSUME ApiInv, NEW t \in Threads, NEW u \in Threads \ Pooled, CreateCall(t, u)
    PROVE  ApiInv'
  <1>1. ApiMove("out", "create_find")
    BY DEF CreateCall, Call, ApiMove, OpenPoints, PoolSection, MemorySection
  <1> QED
    BY <1>1, ApiCall DEF CreateCall, Points

LEMMA ApiTeardownCall ==
    ASSUME ApiInv, NEW t \in Threads, NEW u \in Threads, TeardownCall(t, u)
    PROVE  ApiInv'
  <1>1. ApiMove("out", "tear_find")
    BY DEF TeardownCall, Call, ApiMove, OpenPoints, PoolSection, MemorySection
  <1> QED
    BY <1>1, ApiCall DEF TeardownCall, Points

LEMMA ApiSemWaitCall ==
    ASSUME ApiInv, NEW t \in Threads, NEW s \in Sems, SemWaitCall(t, s)
    PROVE  ApiInv'
  <1>1. ApiMove("out", "wait_test")
    BY DEF SemWaitCall, Call, ApiMove, OpenPoints, SemSection
  <1> QED
    BY <1>1, ApiCall DEF SemWaitCall, Points

LEMMA ApiSemSignalCall ==
    ASSUME ApiInv, NEW t \in Threads, NEW s \in Sems, SemSignalCall(t, s)
    PROVE  ApiInv'
  <1>1. ApiMove("out", "signal_post")
    BY DEF SemSignalCall, Call, ApiMove, OpenPoints, SemSection
  <1> QED
    BY <1>1, ApiCall DEF SemSignalCall, Points

LEMMA ApiProcReadCall ==
    ASSUME ApiInv, NEW t \in Threads, NEW i \in Slots, ProcReadCall(t, i)
    PROVE  ApiInv'
  <1>1. /\ mode = "run" /\ current = t /\ pc[t] = "out"
        /\ pc' = [pc EXCEPT ![t] = "proc_check"] /\ arg' = arg
        /\ slot' = [slot EXCEPT ![t] = i] /\ ret' = [ret EXCEPT ![t] = 0]
        /\ UNCHANGED <<mode, thread_pool, current_thread_index, current, stack,
                       sleep, current_waiting, count>>
    BY DEF ProcReadCall, Goto, At, dispatchVars, semVars
  <1>2. ApiMove("out", "proc_check")
    BY DEF ProcReadCall, ApiMove, OpenPoints, PoolSection, MemorySection
  <1>3. Pooled' = Pooled
    BY <1>1 DEF Pooled
  <1>4. CallOK(t)'
    BY <1>1, <1>3, ApiRunning DEF CallOK
  <1> QED
    BY <1>1, <1>2, <1>4, ApiRunning, Awake, Moved DEF Points

-----------------------------------------------------------------------------
(* The returns that change nothing but the locks.                          *)
LEMMA ApiReturn ==
    ASSUME ApiInv, mode = "run", NEW t \in Threads, current = t, NEW v \in {0, -1},
           Return(t, v), ApiMove(pc[t], "out"),
           pc[t] \notin {"create_stack", "create_make", "tear_drop", "wait_spin"},
           UNCHANGED <<mode, thread_pool, dispatchVars, stack, semVars>>
    PROVE  ApiInv'
  <1>1. /\ pc' = [pc EXCEPT ![t] = "out"] /\ arg' = [arg EXCEPT ![t] = NULL]
        /\ slot' = [slot EXCEPT ![t] = NoIndex] /\ ret' = [ret EXCEPT ![t] = v]
        /\ UNCHANGED <<mode, thread_pool, current_thread_index, current, stack,
                       sleep, current_waiting, count>>
    BY DEF Return, dispatchVars, semVars
  <1>2. Pooled' = Pooled
    BY <1>1 DEF Pooled
  <1>3. CallOK(t)'
    BY <1>1, <1>2, ApiRunning DEF CallOK
  <1> QED
    BY <1>1, <1>3, ApiRunning, Awake, Moved DEF Points

LEMMA ApiCreateFull ==
    ASSUME ApiInv, NEW t \in Threads, CreateFull(t)
    PROVE  ApiInv'
  <1>1. ApiMove("create_find", "out")
    BY DEF CreateFull, ApiMove, OpenPoints, PoolSection, MemorySection
  <1> QED
    BY <1>1, ApiReturn DEF CreateFull, At

(* Nothing is released: thread_lock stays taken, and the count knows it.   *)
LEMMA ApiTeardownMissing ==
    ASSUME ApiInv, NEW t \in Threads, TeardownMissing(t)
    PROVE  ApiInv'
  <1>1. ApiMove("tear_find", "out")
    BY DEF TeardownMissing, ApiMove, OpenPoints, PoolSection, MemorySection
  <1> QED
    BY <1>1, ApiReturn DEF TeardownMissing, At

LEMMA ApiProcRead ==
    ASSUME ApiInv, NEW t \in Threads, ProcRead(t)
    PROVE  ApiInv'
  <1>1. CASE ProcReadGone(t)
    <2>1. ApiMove("proc_check", "out")
      BY <1>1 DEF ProcReadGone, ApiMove, OpenPoints, PoolSection, MemorySection
    <2> QED
      BY <1>1, <2>1, ApiReturn DEF ProcReadGone, At
  <1>2. CASE ProcReadFound(t)
    <2>1. /\ mode = "run" /\ current = t /\ pc[t] = "proc_check"
          /\ thread_pool[slot[t]] # NULL
          /\ pc' = [pc EXCEPT ![t] = "proc_text"] /\ arg' = arg
          /\ UNCHANGED <<mode, thread_pool, current_thread_index, current, stack,
                         sleep, current_waiting, count, slot, ret>>
      BY <1>2 DEF ProcReadFound, Goto, At, dispatchVars, semVars
    <2>2. ApiMove("proc_check", "proc_text")
      BY <1>2 DEF ProcReadFound, ApiMove, OpenPoints, PoolSection, MemorySection
    <2>3. Pooled' = Pooled
      BY <2>1 DEF Pooled
    <2>4. CallOK(t)'
      BY <2>1, <2>3, ApiRunning DEF CallOK
    <2> QED
      BY <2>1, <2>2, <2>4, ApiRunning, Awake, Moved DEF Points
  <1>3. CASE ProcReadText(t)
    <2>1. ApiMove("proc_text", "out")
      BY <1>3 DEF ProcReadText, ApiMove, OpenPoints, PoolSection, MemorySection
    <2> QED
      BY <1>3, <2>1, ApiReturn DEF ProcReadText, At
  <1> QED
    BY <1>1, <1>2, <1>3 DEF ProcRead

LEMMA ApiWaitSpin ==
    ASSUME ApiInv, NEW t \in Threads, WaitSpin(t)
    PROVE  ApiInv'
  <1>1. /\ mode = "run" /\ current = t /\ pc[t] = "wait_spin" /\ sleep[Me] = 0
        /\ pc' = [pc EXCEPT ![t] = "wait_test"] /\ arg' = arg
        /\ UNCHANGED <<mode, thread_pool, current_thread_index, current, stack,
                       sleep, current_waiting, count, slot, ret>>
    BY DEF WaitSpin, Goto, At, dispatchVars, semVars
  <1>2. ApiMove("wait_spin", "wait_test")
    BY DEF WaitSpin, ApiMove, OpenPoints, SemSection
  <1>3. Pooled' = Pooled
    BY <1>1 DEF Pooled
  <1>4. CallOK(t)'
    BY <1>1, <1>3, ApiRunning DEF CallOK
  <1> QED
    BY <1>1, <1>2, <1>4, ApiRunning, Moved DEF Points

(* The slot of a thread in the pool is the only one it is in.              *)
LEMMA ApiVictimFound ==
    ASSUME PoolConsistent, NEW t \in Threads, arg[t] \in Pooled
    PROVE  TeardownSlot(t) \in Slots /\ thread_pool[TeardownSlot(t)] = arg[t]
  <1>1. {i \in Slots : thread_pool[i] = arg[t]} # {}
    BY DEF Pooled
  <1>2. TeardownSlot(t) \in {i \in Slots : thread_pool[i] = arg[t]}
    BY <1>1, LowestIn DEF TeardownSlot
  <1> QED
    BY <1>2

LEMMA ApiTeardownFind ==
    ASSUME ApiInv, NEW t \in Threads, TeardownFind(t)
    PROVE  ApiInv'
  <1>1. /\ mode = "run" /\ current = t /\ pc[t] = "tear_find"
        /\ arg[t] \in Pooled /\ TeardownSlot(t) # current_thread_index
        /\ pc' = [pc EXCEPT ![t] = "tear_free"] /\ arg' = arg
        /\ slot' = [slot EXCEPT ![t] = TeardownSlot(t)]
        /\ UNCHANGED <<mode, thread_pool, current_thread_index, current, stack,
                       sleep, current_waiting, count, ret>>
    BY DEF TeardownFind, Panics, Goto, At, dispatchVars, semVars
  <1>2. ApiMove("tear_find", "tear_free")
    BY DEF TeardownFind, ApiMove, PoolSection, MemorySection
  <1>3. Pooled' = Pooled
    BY <1>1 DEF Pooled
  <1>4. TeardownSlot(t) \in Slots /\ thread_pool[TeardownSlot(t)] = arg[t]
    BY <1>1, ApiRunning, ApiVictimFound
  <1>5. arg[t] # t
    BY <1>1, <1>4, ApiRunning DEF PoolConsistent
  <1>6. CallOK(t)'
    BY <1>1, <1>3, <1>4, <1>5, ApiRunning DEF CallOK
  <1> QED
    BY <1>1, <1>2, <1>4, <1>6, ApiRunning, Awake, Moved DEF Points

-----------------------------------------------------------------------------
(* A thread that comes into the pool, leaves it, or has its stack changed  *)
(* there, keeps its fields: one that sleeps stays where it is.             *)
LEMMA OthersKept ==
    ASSUME ApiInv, mode = "run", NEW t \in Threads, current = t,
           NEW q \in Points, pc' = [pc EXCEPT ![t] = q], pc[t] # "wait_spin",
           \A v \in Threads : v # t => arg'[v] = arg[v],
           sleep' = sleep, current_waiting' = current_waiting
    PROVE  SleepInv' /\ \A v \in Threads : v # t => CallOK(v)'
  <1>1. sleep[t] = 0 /\ \A v \in Threads : v # t => pc'[v] = pc[v]
    BY Awake, ApiRunning
  <1>2. SleepInv'
    BY <1>1, ApiRunning DEF SleepInv
  <1>3. \A v \in Threads : v # t => CallOK(v)'
    BY <1>1, OthersCallOK
  <1> QED
    BY <1>2, <1>3

LEMMA ApiCreateFind ==
    ASSUME ApiInv, NEW t \in Threads, CreateFind(t)
    PROVE  ApiInv'
  <1> DEFINE i == Lowest(Free)
             u == arg[t]
  <1>1. /\ mode = "run" /\ current = t /\ pc[t] = "create_find" /\ Free # {}
        /\ pc' = [pc EXCEPT ![t] = "create_stack"] /\ arg' = arg
        /\ slot' = [slot EXCEPT ![t] = i]
        /\ thread_pool' = [thread_pool EXCEPT ![i] = u]
        /\ UNCHANGED <<mode, current_thread_index, current, stack,
                       sleep, current_waiting, count, ret>>
    BY DEF CreateFind, Goto, At, dispatchVars, semVars
  <1>2. i \in Slots /\ thread_pool[i] = NULL
    BY <1>1, LowestIn DEF Free
  <1>3. u \in Threads /\ u \notin Pooled /\ stack[u] = "none" /\ u # t /\ u # NULL
    BY <1>1, ApiRunning, ThreadAssumption DEF CallOK, ApiStackInv
  <1> HIDE DEF i, u
  <1>4. Pooled' = Pooled \cup {u}
    BY <1>1, <1>2, <1>3, ApiRunning DEF Pooled
  <1>5. ApiMove(pc[t], "create_stack")
    BY <1>1 DEF CreateFind, ApiMove, PoolSection, MemorySection
  <1>6. LockTypeOK' /\ LocksInv' /\ OthersOpen'
    BY <1>1, <1>5, ApiMoveLocks, ApiRunning
  <1>7. KmtTypeOK'
    BY <1>1, <1>2, <1>3, <1>6, ApiRunning DEF KmtTypeOK, Points
  <1>8. PoolConsistent'
    <2>1. \A j \in Slots : thread_pool[j] # u
      BY <1>3 DEF Pooled
    <2> QED
      BY <1>1, <1>2, <1>3, <2>1, ApiRunning DEF PoolConsistent
  <1>9. SleepInv' /\ \A v \in Threads : v # t => CallOK(v)'
    BY <1>1, ApiRunning, OthersKept DEF Points
  <1>10. CallOK(t)'
    BY <1>1, <1>3, <1>4, ApiRunning DEF CallOK, u
  <1>11. Here' = "create_stack"
    BY <1>1, ApiRunning DEF Here
  <1>12. ApiStackInv'
    BY <1>1, <1>3, <1>4, <1>11, ApiRunning DEF ApiStackInv, u
  <1> QED
    BY <1>6, <1>7, <1>8, <1>9, <1>10, <1>12 DEF ApiInv, RunInv, CallInv

LEMMA ApiCreateStack ==
    ASSUME ApiInv, NEW t \in Threads, CreateStack(t)
    PROVE  ApiInv'
  <1> DEFINE u == arg[t]
  <1>1. /\ mode = "run" /\ current = t /\ pc[t] = "create_stack"
        /\ pc' = [pc EXCEPT ![t] = "create_make"] /\ arg' = arg
        /\ stack' = [stack EXCEPT ![u] = "raw"]
        /\ UNCHANGED <<mode, thread_pool, current_thread_index, current,
                       sleep, current_waiting, count, slot, ret>>
    BY DEF CreateStack, Goto, At, dispatchVars, semVars
  <1>2. u \in Threads /\ u \in Pooled /\ u # t
    BY <1>1, ApiRunning DEF CallOK
  <1> HIDE DEF u
  <1>3. Pooled' = Pooled
    BY <1>1 DEF Pooled
  <1>4. ApiMove(pc[t], "create_make")
    BY <1>1 DEF CreateStack, ApiMove, PoolSection, MemorySection
  <1>5. LockTypeOK' /\ LocksInv' /\ OthersOpen'
    BY <1>1, <1>4, ApiMoveLocks, ApiRunning
  <1>6. KmtTypeOK'
    BY <1>1, <1>2, <1>5, ApiRunning DEF KmtTypeOK, Points
  <1>7. PoolConsistent'
    BY <1>1, ApiRunning DEF PoolConsistent
  <1>8. SleepInv' /\ \A v \in Threads : v # t => CallOK(v)'
    BY <1>1, ApiRunning, OthersKept DEF Points
  <1>9. CallOK(t)'
    BY <1>1, <1>2, <1>3, ApiRunning DEF CallOK, u
  <1>10. Here' = "create_make"
    BY <1>1, ApiRunning DEF Here
  <1>11. ApiStackInv'
    BY <1>1, <1>2, <1>3, <1>10, ApiRunning DEF ApiStackInv, u
  <1> QED
    BY <1>5, <1>6, <1>7, <1>8, <1>9, <1>11 DEF ApiInv, RunInv, CallInv

(* The new thread is awake and outside, whatever it was torn down in.      *)
LEMMA ApiCreateMake ==
    ASSUME ApiInv, NEW t \in Threads, CreateMake(t)
    PROVE  ApiInv'
  <1> DEFINE u == arg[t]
  <1>1. /\ mode = "run" /\ current = t /\ pc[t] = "create_make"
        /\ pc' = [pc EXCEPT ![t] = "out", ![u] = "out"]
        /\ arg' = [arg EXCEPT ![t] = NULL, ![u] = NULL]
        /\ slot' = [slot EXCEPT ![t] = NoIndex, ![u] = NoIndex]
        /\ ret' = [ret EXCEPT ![t] = 0, ![u] = 0]
        /\ stack' = [stack EXCEPT ![u] = "made"]
        /\ sleep' = [sleep EXCEPT ![u] = 0]
        /\ current_waiting' = [current_waiting EXCEPT ![u] = NULL]
        /\ UNCHANGED <<mode, thread_pool, current_thread_index, current, count>>
    BY DEF CreateMake, ReturnAndRestart, At, dispatchVars, semVars
  <1>2. u \in Threads /\ u \in Pooled /\ u # t
    BY <1>1, ApiRunning DEF CallOK
  <1> HIDE DEF u
  <1>3. /\ pc'[t] = "out" /\ pc'[u] = "out"
        /\ \A v \in Threads : v # t /\ v # u => pc'[v] = pc[v] /\ arg'[v] = arg[v]
    BY <1>1, <1>2, ApiRunning
  <1>4. \A v \in Threads : v # t => pc'[v] = "out" \/ (pc'[v] = pc[v] /\ arg'[v] = arg[v])
    BY <1>3
  <1>5. Pooled' = Pooled
    BY <1>1 DEF Pooled
  <1>6. ApiMove(pc[t], "out")
    BY <1>1 DEF CreateMake, ApiMove, PoolSection, MemorySection, OpenPoints
  <1>7. LockTypeOK' /\ LocksInv' /\ OthersOpen'
    BY <1>1, <1>3, <1>4, <1>6, ApiMoveLocks
  <1>8. KmtTypeOK'
    <2>1. /\ pc' \in [Threads -> Points] /\ stack' \in [Threads -> {"none", "raw", "made", "broken"}]
          /\ slot' \in [Threads -> Slots \cup {NoIndex}] /\ ret' \in [Threads -> {0, -1}]
      BY <1>1, <1>2, ApiRunning DEF Points
    <2>2. /\ arg' \in [Threads -> Threads \cup Sems \cup {NULL}]
          /\ sleep' \in [Threads -> {0, 1}]
          /\ current_waiting' \in [Threads -> Sems \cup {NULL}]
      BY <1>1, <1>2, ApiRunning
    <2> QED
      BY <1>1, <1>7, <2>1, <2>2, ApiRunning DEF KmtTypeOK
  <1>9. PoolConsistent'
    BY <1>1, ApiRunning DEF PoolConsistent
  <1>10. SleepInv'
    <2>1. sleep[t] = 0 /\ SleepInv
      BY <1>1, Awake, ApiRunning
    <2> SUFFICES ASSUME NEW v \in Threads
                 PROVE  /\ sleep'[v] = 1 => pc'[v] = "wait_spin" /\ current_waiting'[v] = arg'[v]
                        /\ sleep'[v] = 0 => current_waiting'[v] = NULL
      BY DEF SleepInv
    <2>2. CASE v = u
      BY <1>1, <1>2, <2>2, ApiRunning
    <2>3. CASE v # u
      <3>1. sleep'[v] = sleep[v] /\ current_waiting'[v] = current_waiting[v]
        BY <1>1, <2>3, ApiRunning
      <3> QED
        BY <1>3, <2>1, <2>3, <3>1 DEF SleepInv
    <2> QED
      BY <2>2, <2>3
  <1>11. CallInv'
    <2>1. \A v \in Threads : v # t => CallOK(v)'
      BY <1>1, <1>4, OthersCallOK
    <2>2. CallOK(t)'
      BY <1>3 DEF CallOK
    <2> QED
      BY <2>1, <2>2 DEF CallInv
  <1>12. ApiStackInv'
    <2>1. Here' = "out"
      BY <1>1, <1>3, ApiRunning DEF Here
    <2> QED
      BY <1>1, <1>2, <1>5, <2>1, ApiRunning DEF ApiStackInv, u
  <1> QED
    BY <1>7, <1>8, <1>9, <1>10, <1>11, <1>12 DEF ApiInv, RunInv

LEMMA ApiTeardownFree ==
    ASSUME ApiInv, NEW t \in Threads, TeardownFree(t)
    PROVE  ApiInv'
  <1> DEFINE u == arg[t]
  <1>1. /\ mode = "run" /\ current = t /\ pc[t] = "tear_free"
        /\ pc' = [pc EXCEPT ![t] = "tear_drop"] /\ arg' = arg
        /\ stack' = [stack EXCEPT ![u] = "none"]
        /\ UNCHANGED <<mode, thread_pool, current_thread_index, current,
                       sleep, current_waiting, count, slot, ret>>
    BY DEF TeardownFree, Goto, At, dispatchVars, semVars
  <1>2. /\ u \in Threads /\ u # t
        /\ slot[t] \in Slots /\ thread_pool[slot[t]] = u
    BY <1>1, ApiRunning DEF CallOK
  <1> HIDE DEF u
  <1>3. Pooled' = Pooled
    BY <1>1 DEF Pooled
  <1>4. ApiMove(pc[t], "tear_drop")
    BY <1>1 DEF TeardownFree, ApiMove, PoolSection, MemorySection
  <1>5. LockTypeOK' /\ LocksInv' /\ OthersOpen'
    BY <1>1, <1>4, ApiMoveLocks, ApiRunning
  <1>6. KmtTypeOK'
    BY <1>1, <1>2, <1>5, ApiRunning DEF KmtTypeOK, Points
  <1>7. PoolConsistent'
    BY <1>1, ApiRunning DEF PoolConsistent
  <1>8. SleepInv' /\ \A v \in Threads : v # t => CallOK(v)'
    BY <1>1, ApiRunning, OthersKept DEF Points
  <1>9. CallOK(t)'
    BY <1>1, <1>2, <1>3, ApiRunning DEF CallOK, u
  <1>10. Here' = "tear_drop"
    BY <1>1, ApiRunning DEF Here
  <1>11. ApiStackInv'
    BY <1>1, <1>2, <1>3, <1>10, ApiRunning DEF ApiStackInv, u
  <1> QED
    BY <1>5, <1>6, <1>7, <1>8, <1>9, <1>11 DEF ApiInv, RunInv, CallInv

LEMMA ApiTeardownDrop ==
    ASSUME ApiInv, NEW t \in Threads, TeardownDrop(t)
    PROVE  ApiInv'
  <1> DEFINE u == arg[t]
             i == slot[t]
  <1>1. /\ mode = "run" /\ current = t /\ pc[t] = "tear_drop"
        /\ pc' = [pc EXCEPT ![t] = "out"] /\ arg' = [arg EXCEPT ![t] = NULL]
        /\ slot' = [slot EXCEPT ![t] = NoIndex] /\ ret' = [ret EXCEPT ![t] = 0]
        /\ thread_pool' = [thread_pool EXCEPT ![i] = NULL]
        /\ UNCHANGED <<mode, current_thread_index, current, stack,
                       sleep, current_waiting, count>>
    BY DEF TeardownDrop, Return, At, dispatchVars, semVars
  <1>2. u \in Threads /\ u # t /\ i \in Slots /\ thread_pool[i] = u /\ u # NULL
    BY <1>1, ApiRunning, ThreadAssumption DEF CallOK
  <1>3. /\ \A v \in Pooled : v = u \/ stack[v] \in {"made", "broken"}
        /\ \A v \in Threads : stack[v] = "broken" => v = current
        /\ \A v \in Threads \ Pooled : stack[v] = "none"
        /\ stack[u] = "none"
    BY <1>1, ApiRunning DEF ApiStackInv
  <1> HIDE DEF u, i
  <1>4. Pooled' = Pooled \ {u}
    <2>1. PoolConsistent /\ thread_pool \in [Slots -> Threads \cup {NULL}]
      BY <1>1, ApiRunning
    <2>2. \A j \in Slots : j # i => thread_pool[j] # u
      BY <1>2, <2>1 DEF PoolConsistent
    <2> QED
      BY <1>1, <1>2, <2>1, <2>2 DEF Pooled
  <1>5. ApiMove(pc[t], "out")
    BY <1>1 DEF TeardownDrop, ApiMove, PoolSection, MemorySection, OpenPoints
  <1>6. LockTypeOK' /\ LocksInv' /\ OthersOpen'
    BY <1>1, <1>5, ApiMoveLocks, ApiRunning
  <1>7. KmtTypeOK'
    BY <1>1, <1>2, <1>6, ApiRunning DEF KmtTypeOK, Points
  <1>8. PoolConsistent'
    BY <1>1, <1>2, ApiRunning DEF PoolConsistent
  <1>9. SleepInv' /\ \A v \in Threads : v # t => CallOK(v)'
    BY <1>1, ApiRunning, OthersKept DEF Points
  <1>10. CallOK(t)'
    BY <1>1, <1>2, <1>4, ApiRunning DEF CallOK
  <1>11. ApiStackInv'
    <2>1. Here' = "out"
      BY <1>1, ApiRunning DEF Here
    <2> QED
      BY <1>1, <1>3, <1>4, <2>1 DEF ApiStackInv
  <1> QED
    BY <1>6, <1>7, <1>8, <1>9, <1>10, <1>11 DEF ApiInv, RunInv, CallInv

-----------------------------------------------------------------------------
(* The steps that end in the semaphore: pool and stacks are as before.     *)
LEMMA SemStep ==
    ASSUME ApiInv, mode = "run", NEW t \in Threads, current = t, NEW q \in OpenPoints,
           pc[t] \in SemSection, SimpleLockUnlock(semaphore_lock),
           pc' = [pc EXCEPT ![t] = q],
           \A u \in Threads : u # t => arg'[u] = arg[u],
           UNCHANGED <<mode, thread_pool, current_thread_index, current, stack>>
    PROVE  /\ LockTypeOK' /\ LocksInv' /\ OthersOpen'
           /\ PoolConsistent' /\ Pooled' = Pooled /\ ApiStackInv'
           /\ \A u \in Threads : u # t => CallOK(u)'
  <1>1. LockTypeOK' /\ LocksInv' /\ OthersOpen'
    BY ApiMoveLocks, ApiRunning DEF ApiMove
  <1>2. PoolConsistent' /\ Pooled' = Pooled
    BY ApiRunning DEF PoolConsistent, Pooled
  <1>3. ApiStackInv'
    <2>1. Here' = q
      BY ApiRunning DEF Here
    <2> QED
      BY <1>2, <2>1, ApiRunning DEF ApiStackInv, SemSection, OpenPoints
  <1>4. \A u \in Threads : u # t => CallOK(u)'
    BY ApiRunning, OthersCallOK
  <1> QED
    BY <1>1, <1>2, <1>3, <1>4

LEMMA ApiWaitSleep ==
    ASSUME ApiInv, NEW t \in Threads, WaitSleep(t)
    PROVE  ApiInv'
  <1>1. PICK s \in Sems : s = arg[t]
    BY ApiRunning DEF WaitSleep, At, CallOK
  <1>2. /\ mode = "run" /\ current = t /\ pc[t] = "wait_test" /\ count[s] = 0
        /\ current_waiting' = [current_waiting EXCEPT ![t] = s]
        /\ sleep' = [sleep EXCEPT ![t] = 1]
        /\ SimpleLockUnlock(semaphore_lock)
        /\ pc' = [pc EXCEPT ![t] = "wait_spin"] /\ arg' = arg
        /\ UNCHANGED <<mode, thread_pool, current_thread_index, current, stack,
                       count, slot, ret>>
    BY <1>1, ApiRunning DEF WaitSleep, Goto, At, dispatchVars
  <1>3. sleep[t] = 0 /\ t \in Pooled
    BY <1>2, ApiRunning, Awake
  <1>4. /\ LockTypeOK' /\ LocksInv' /\ OthersOpen'
        /\ PoolConsistent' /\ Pooled' = Pooled /\ ApiStackInv'
        /\ \A u \in Threads : u # t => CallOK(u)'
    BY <1>2, SemStep DEF SemSection, OpenPoints
  <1>5. KmtTypeOK'
    BY <1>2, <1>3, <1>4, ApiRunning DEF KmtTypeOK, Points
  <1>6. SleepInv'
    BY <1>1, <1>2, ApiRunning DEF SleepInv
  <1>7. CallOK(t)'
    BY <1>1, <1>2, <1>3, <1>4, ApiRunning DEF CallOK
  <1> QED
    BY <1>4, <1>5, <1>6, <1>7 DEF ApiInv, RunInv, CallInv

LEMMA ApiWaitPass ==
    ASSUME ApiInv, NEW t \in Threads, WaitPass(t)
    PROVE  ApiInv'
  <1>1. PICK s \in Sems : s = arg[t]
    BY ApiRunning DEF WaitPass, At, CallOK
  <1>2. /\ mode = "run" /\ current = t /\ pc[t] = "wait_test" /\ count[s] # 0
        /\ count' = [count EXCEPT ![s] = @ - 1]
        /\ SimpleLockUnlock(semaphore_lock)
        /\ pc' = [pc EXCEPT ![t] = "out"] /\ arg' = [arg EXCEPT ![t] = NULL]
        /\ slot' = [slot EXCEPT ![t] = NoIndex] /\ ret' = [ret EXCEPT ![t] = 0]
        /\ UNCHANGED <<mode, thread_pool, current_thread_index, current, stack,
                       sleep, current_waiting>>
    BY <1>1 DEF WaitPass, Return, At, dispatchVars
  <1>3. sleep[t] = 0 /\ t \in Pooled /\ \A u \in Threads : u # t => arg'[u] = arg[u]
    BY <1>2, ApiRunning, Awake
  <1>4. /\ LockTypeOK' /\ LocksInv' /\ OthersOpen'
        /\ PoolConsistent' /\ Pooled' = Pooled /\ ApiStackInv'
        /\ \A u \in Threads : u # t => CallOK(u)'
    BY <1>2, <1>3, SemStep DEF SemSection, OpenPoints
  <1>5. count' \in [Sems -> Nat]
    BY <1>2, <1>3, ApiRunning
  <1>6. KmtTypeOK'
    BY <1>2, <1>4, <1>5, ApiRunning DEF KmtTypeOK, Points
  <1>7. SleepInv'
    BY <1>2, <1>3, ApiRunning DEF SleepInv
  <1>8. CallOK(t)'
    BY <1>2, <1>4, ApiRunning DEF CallOK
  <1> QED
    BY <1>4, <1>6, <1>7, <1>8 DEF ApiInv, RunInv, CallInv

(* The thread a signal wakes: it sleeps in the pool, in the loop.          *)
LEMMA Woken ==
    ASSUME ApiInv, mode = "run", NEW t \in Threads, current = t, pc[t] = "signal_post",
           NEW s \in Sems, SleepersInPool(s) # {}
    PROVE  \E v \in Threads : /\ v = thread_pool[Lowest(SleepersInPool(s))]
                              /\ v \in Pooled /\ sleep[v] = 1 /\ current_waiting[v] = s
                              /\ pc[v] = "wait_spin" /\ arg[v] = s /\ v # t
  <1> DEFINE S == SleepersInPool(s)
  <1>1. Lowest(S) \in S
    BY LowestIn DEF SleepersInPool
  <1>2. PICK v \in Threads : v = thread_pool[Lowest(S)]
    BY <1>1, ApiRunning DEF SleepersInPool
  <1>3. v \in Pooled /\ sleep[v] = 1 /\ current_waiting[v] = s
    BY <1>1, <1>2, ApiRunning DEF SleepersInPool, Pooled
  <1>4. pc[v] = "wait_spin" /\ arg[v] = s /\ v # t
    BY <1>3, ApiRunning DEF SleepInv
  <1> QED
    BY <1>2, <1>3, <1>4

LEMMA ApiSignalPost ==
    ASSUME ApiInv, NEW t \in Threads, SignalPost(t)
    PROVE  ApiInv'
  <1>1. PICK s \in Sems : s = arg[t]
    BY ApiRunning DEF SignalPost, At, CallOK
  <1> DEFINE S == SleepersInPool(s)
             w == thread_pool[Lowest(S)]
  <1>2. /\ mode = "run" /\ current = t /\ pc[t] = "signal_post"
        /\ count' = [count EXCEPT ![s] = @ + 1]
        /\ IF S # {} THEN /\ sleep' = [sleep EXCEPT ![w] = 0]
                          /\ current_waiting' = [current_waiting EXCEPT ![w] = NULL]
                     ELSE UNCHANGED <<sleep, current_waiting>>
        /\ SimpleLockUnlock(semaphore_lock)
        /\ pc' = [pc EXCEPT ![t] = "out"] /\ arg' = [arg EXCEPT ![t] = NULL]
        /\ slot' = [slot EXCEPT ![t] = NoIndex] /\ ret' = [ret EXCEPT ![t] = 0]
        /\ UNCHANGED <<mode, thread_pool, current_thread_index, current, stack>>
    BY <1>1 DEF SignalPost, Return, At, dispatchVars, OneMore
  <1>3. /\ sleep[t] = 0
        /\ \A u \in Threads : u # t => arg'[u] = arg[u] /\ pc'[u] = pc[u]
    BY <1>2, ApiRunning, Awake
  <1>4. /\ LockTypeOK' /\ LocksInv' /\ OthersOpen'
        /\ PoolConsistent' /\ Pooled' = Pooled /\ ApiStackInv'
        /\ \A u \in Threads : u # t => CallOK(u)'
    BY <1>2, <1>3, SemStep DEF SemSection, OpenPoints
  <1>5. count' \in [Sems -> Nat]
    BY <1>2, ApiRunning
  <1>6. CallOK(t)'
    BY <1>2, <1>4, ApiRunning DEF CallOK
  <1>7. /\ sleep' \in [Threads -> {0, 1}]
        /\ current_waiting' \in [Threads -> Sems \cup {NULL}]
        /\ SleepInv'
    <2>1. CASE S = {}
      BY <1>2, <1>3, <2>1, ApiRunning DEF SleepInv
    <2>2. CASE S # {}
      <3>1. PICK v \in Threads : v = w /\ pc[v] = "wait_spin" /\ arg[v] = s /\ v # t
        BY <1>2, <2>2, Woken
      <3>2. /\ sleep' = [sleep EXCEPT ![v] = 0]
            /\ current_waiting' = [current_waiting EXCEPT ![v] = NULL]
        BY <1>2, <2>2, <3>1
      <3> HIDE DEF w, S
      <3>3. sleep' \in [Threads -> {0, 1}]
        BY <1>2, <3>2, ApiRunning
      <3>4. current_waiting' \in [Threads -> Sems \cup {NULL}]
        BY <1>2, <3>2, ApiRunning
      <3>5. SleepInv'
        BY <1>2, <1>3, <3>1, <3>2, ApiRunning DEF SleepInv
      <3> QED
        BY <3>3, <3>4, <3>5
    <2> QED
      BY <2>1, <2>2
  <1>8. KmtTypeOK'
    BY <1>2, <1>4, <1>5, <1>7, ApiRunning DEF KmtTypeOK, Points
  <1> QED
    BY <1>4, <1>6, <1>7, <1>8 DEF ApiInv, RunInv, CallInv

-----------------------------------------------------------------------------
(* Only the thread that has the CPU can run over its stack.                *)
LEMMA ApiOverflow ==
    ASSUME ApiInv, NEW t \in Threads, Overflow(t)
    PROVE  ApiInv'
  <1>1. /\ mode = "run" /\ current = t /\ pc[t] = "out"
        /\ stack' = [stack EXCEPT ![t] = "broken"]
        /\ UNCHANGED <<mode, thread_pool, current_thread_index, current, sleep,
                       current_waiting, count, pc, arg, slot, ret, intr_flag, lock_status,
                       lockcount, release_intr, lock_warned>>
    BY DEF Overflow, At, dispatchVars, semVars, lockVars
  <1>2. Pooled' = Pooled /\ Here' = Here
    BY <1>1 DEF Pooled, Here
  <1>3. KmtTypeOK'
    BY <1>1, ApiRunning DEF KmtTypeOK, LockTypeOK
  <1>4. PoolConsistent'
    BY <1>1, ApiRunning DEF PoolConsistent
  <1>5. SleepInv'
    BY <1>1, ApiRunning DEF SleepInv
  <1>6. LocksInv' /\ OthersOpen'
    BY <1>1, <1>2, ApiRunning DEF LocksInv, Balanced, OthersOpen
  <1>7. CallInv'
    BY <1>1, <1>2, ApiRunning DEF CallInv, CallOK
  <1>8. ApiStackInv'
    BY <1>1, <1>2, ApiRunning DEF ApiStackInv
  <1> QED
    BY <1>3, <1>4, <1>5, <1>6, <1>7, <1>8 DEF ApiInv, RunInv

(* The timer strikes only where no lock is taken, so nobody is inside of a *)
(* section, and nothing is half done.                                      *)
LEMMA ApiDispatch ==
    ASSUME ApiInv, NEW i \in Slots, Dispatch(i)
    PROVE  ApiInv'
  <1>1. /\ mode = "run" /\ intr_flag /\ FencesHold
        /\ thread_pool[i] # NULL
        /\ current_thread_index' = i /\ current' = thread_pool[i]
        /\ UNCHANGED <<mode, thread_pool, stack, sleep, current_waiting, count, pc, arg,
                       slot, ret, intr_flag, lock_status, lockcount, release_intr, lock_warned>>
    BY DEF Dispatch, Runnable, semVars, lockVars
  <1>2. /\ KmtTypeOK /\ PoolConsistent /\ SleepInv
        /\ LocksInv /\ OthersOpen /\ CallInv /\ ApiStackInv
    BY <1>1 DEF ApiInv, RunInv
  <1>3. PICK v \in Threads : v = thread_pool[i]
    BY <1>1, <1>2 DEF KmtTypeOK
  <1>4. Pooled' = Pooled
    BY <1>1 DEF Pooled
  <1>5. Here \in OpenPoints
    <2>1. /\ lock_status[thread_lock] \in {0, 1} /\ lock_status[kernel_memory_lock] \in {0, 1}
          /\ lock_status[semaphore_lock] \in {0, 1}
      BY <1>2, LockAssumption DEF KmtTypeOK, LockTypeOK
    <2>2. lock_status[thread_lock] + lock_status[kernel_memory_lock]
             + lock_status[semaphore_lock] = 0
      BY <1>1, <1>2 DEF LocksInv, Balanced
    <2>3. Here \notin PoolSection \cup MemorySection \cup SemSection
      BY <1>2, <2>1, <2>2 DEF LocksInv, MemorySection, PoolSection
    <2>4. Here \in Points
      BY <1>2 DEF Here, Points, KmtTypeOK
    <2> QED
      BY <2>3, <2>4 DEF Points, PoolSection, MemorySection, SemSection, OpenPoints
  <1>6. \A t \in Threads : pc[t] \in OpenPoints
    BY <1>2, <1>5, ThreadAssumption DEF OthersOpen, Here
  <1>7. Here' \in OpenPoints
    BY <1>1, <1>3, <1>6 DEF Here, OpenPoints
  <1>8. KmtTypeOK'
    BY <1>1, <1>2, <1>3 DEF KmtTypeOK, LockTypeOK
  <1>9. PoolConsistent'
    BY <1>1, <1>2, <1>3, ThreadAssumption DEF PoolConsistent
  <1>10. SleepInv'
    BY <1>1, <1>2 DEF SleepInv
  <1>11. LocksInv'
    <2>1. Balanced'
      BY <1>1, <1>2 DEF LocksInv, Balanced
    <2> QED
      BY <1>1, <1>2, <1>5, <1>7, <2>1
      DEF LocksInv, PoolSection, MemorySection, SemSection, OpenPoints
  <1>12. OthersOpen'
    BY <1>1, <1>6 DEF OthersOpen
  <1>13. CallInv'
    BY <1>1, <1>2, <1>4 DEF CallInv, CallOK
  <1>14. \A t \in Threads : stack[t] # "broken"
    BY <1>1, <1>2, PoolAssumption, ThreadAssumption
    DEF ApiStackInv, FencesHold, PoolConsistent, Slots
  <1>15. ApiStackInv'
    BY <1>1, <1>2, <1>4, <1>5, <1>7, <1>14 DEF ApiStackInv, OpenPoints
  <1> QED
    BY <1>8, <1>9, <1>10, <1>11, <1>12, <1>13, <1>15 DEF ApiInv, RunInv

(* Where the kernel stops, only the mode and the flag change.              *)
LEMMA ApiStop ==
    ASSUME ApiInv, mode' \in {"hung", "panic"},
           intr_flag' \in BOOLEAN,
           UNCHANGED <<lock_status, lockcount, release_intr, lock_warned, thread_pool,
                       current_thread_index, current, stack, sleep, current_waiting, count,
                       pc, arg, slot, ret>>
    PROVE  ApiInv'
  <1>1. KmtTypeOK'
    BY DEF ApiInv, KmtTypeOK, LockTypeOK
  <1>2. Pooled' = Pooled
    BY DEF Pooled
  <1>3. PoolConsistent' /\ SleepInv'
    BY DEF ApiInv, PoolConsistent, SleepInv
  <1>4. RunInv'
    BY DEF RunInv
  <1> QED
    BY <1>1, <1>3, <1>4 DEF ApiInv

LEMMA ApiTeardownPanic ==
    ASSUME ApiInv, NEW t \in Threads, TeardownPanic(t)
    PROVE  ApiInv'
  <1>1. intr_flag' \in BOOLEAN
    BY DEF TeardownPanic, lockVars, ApiInv, KmtTypeOK, LockTypeOK
  <1> QED
    BY <1>1, ApiStop DEF TeardownPanic, dispatchVars, semVars, lockVars

LEMMA ApiTimer ==
    ASSUME ApiInv, TimerInterrupt
    PROVE  ApiInv'
  <1>1. CASE Timer
    BY <1>1, ApiDispatch DEF Timer
  <1>2. CASE TimerHang
    BY <1>2, ApiStop DEF TimerHang, dispatchVars, semVars
  <1>3. CASE FencePanic
    <2>1. intr_flag' \in BOOLEAN
      BY <1>3 DEF FencePanic, lockVars, ApiInv, KmtTypeOK, LockTypeOK
    <2> QED
      BY <1>3, <2>1, ApiStop DEF FencePanic, dispatchVars, semVars, lockVars
  <1> QED
    BY <1>1, <1>2, <1>3 DEF TimerInterrupt

LEMMA ApiStep == ApiInv /\ [ApiNext]_apiVars => ApiInv'
  <1> SUFFICES ASSUME ApiInv, [ApiNext]_apiVars PROVE ApiInv'
    OBVIOUS
  <1>1. ASSUME NEW t \in Threads, CallOperation(t) PROVE ApiInv'
    BY <1>1, ApiCreateCall, ApiTeardownCall, ApiSemWaitCall, ApiSemSignalCall,
       ApiProcReadCall DEF CallOperation
  <1>2. ASSUME NEW t \in Threads, Proceed(t) PROVE ApiInv'
    BY <1>2, ApiCreateFull, ApiCreateFind, ApiCreateStack, ApiCreateMake,
       ApiTeardownMissing, ApiTeardownPanic, ApiTeardownFind, ApiTeardownFree,
       ApiTeardownDrop, ApiWaitSleep, ApiWaitSpin, ApiWaitPass, ApiSignalPost
    DEF Proceed
  <1>3. CASE UNCHANGED apiVars
    <2>1. KmtTypeOK'
      BY <1>3 DEF apiVars, ApiInv, KmtTypeOK, LockTypeOK
    <2>2. Pooled' = Pooled /\ Here' = Here
      BY <1>3 DEF apiVars, Pooled, Here
    <2>3. PoolConsistent' /\ SleepInv'
      BY <1>3 DEF apiVars, ApiInv, PoolConsistent, SleepInv
    <2>4. RunInv => RunInv'
      BY <1>3, <2>2 DEF apiVars, RunInv, LocksInv, Balanced, OthersOpen, CallInv, CallOK, ApiStackInv
    <2> QED
      BY <2>1, <2>3, <2>4 DEF ApiInv
  <1> QED
    BY <1>1, <1>2, <1>3, ApiProcRead, ApiOverflow, ApiTimer DEF ApiNext

LEMMA ApiInvariant == ApiSpec => []ApiInv
  BY InitApi, ApiStep, PTL DEF ApiSpec

-----------------------------------------------------------------------------
(* What a step does to the units that no thread is about to take.          *)
CrowdOK ==
    /\ Alive \subseteq Pooled /\ Pooled \subseteq Threads
    /\ \A s \in Sems :
          /\ count[s] \in Nat
          /\ IsFiniteSet(Contenders(s)) /\ Cardinality(Contenders(s)) \in Nat
          /\ Unattended(s) \in Nat

LEMMA CrowdTypes == ApiInv => CrowdOK
  <1> SUFFICES ASSUME ApiInv PROVE CrowdOK
    OBVIOUS
  <1>1. Alive \subseteq Pooled /\ Pooled \subseteq Threads
    BY DEF ApiInv, KmtTypeOK, Alive, Pooled
  <1>2. ASSUME NEW s \in Sems
        PROVE  /\ count[s] \in Nat
               /\ IsFiniteSet(Contenders(s)) /\ Cardinality(Contenders(s)) \in Nat
               /\ Unattended(s) \in Nat
    <2>1. count[s] \in Nat
      BY <1>2 DEF ApiInv, KmtTypeOK
    <2>2. IsFiniteSet(Contenders(s)) /\ Cardinality(Contenders(s)) \in Nat
      BY <1>1, PooledFinite, FS_Subset, FS_CardinalityType DEF Contenders
    <2> QED
      BY <2>1, <2>2 DEF Unattended
  <1> QED
    BY <1>1, <1>2 DEF CrowdOK

LEMMA CrowdTypesNext == ApiInv' => CrowdOK'
  BY CrowdTypes, PTL

(* There are no more of them when nobody sleeps or nothing is there after  *)
(* the step, or when the contenders grew as much as the count did.         *)
LEMMA NoneMoreUnattended ==
    ASSUME NEW s \in Sems, ApiInv, ApiInv',
           \/ Sleepers(s)' = {}
           \/ count'[s] = 0
           \/ /\ Sleepers(s) # {}
              /\ count'[s] - Cardinality(Contenders(s)') <= count[s] - Cardinality(Contenders(s))
    PROVE  Unattended(s)' <= Unattended(s)
  <1>1. /\ count[s] \in Nat /\ Cardinality(Contenders(s)) \in Nat /\ Unattended(s) \in Nat
    BY CrowdTypes DEF CrowdOK
  <1>2. /\ count'[s] \in Nat /\ Cardinality(Contenders(s)') \in Nat /\ Unattended(s)' \in Nat
    BY CrowdTypesNext DEF CrowdOK
  <1>3. CASE Sleepers(s)' = {} \/ count'[s] = 0
    BY <1>1, <1>2, <1>3 DEF Unattended
  <1>4. CASE /\ Sleepers(s) # {}
             /\ count'[s] - Cardinality(Contenders(s)') <= count[s] - Cardinality(Contenders(s))
    BY <1>1, <1>2, <1>4 DEF Unattended
  <1> QED
    BY <1>3, <1>4

LEMMA CrowdKept ==
    ASSUME NEW s \in Sems, ApiInv, ApiInv', count'[s] = count[s],
           Sleepers(s)' \subseteq Sleepers(s), Contenders(s) \subseteq Contenders(s)'
    PROVE  Unattended(s)' <= Unattended(s)
  <1>1. count[s] \in Nat /\ Cardinality(Contenders(s)) \in Nat
    BY CrowdTypes DEF CrowdOK
  <1>2. IsFiniteSet(Contenders(s)') /\ Cardinality(Contenders(s)') \in Nat
    BY CrowdTypesNext DEF CrowdOK
  <1>3. Cardinality(Contenders(s)) <= Cardinality(Contenders(s)')
    BY <1>2, FS_Subset
  <1>4. count'[s] - Cardinality(Contenders(s)') <= count[s] - Cardinality(Contenders(s))
    BY <1>1, <1>2, <1>3
  <1> QED
    BY <1>4, NoneMoreUnattended

(* No thread comes to life or dies, and who is in a wait stays there.      *)
LEMMA CrowdUnmoved ==
    ASSUME NEW s \in Sems, ApiInv, ApiInv', Alive' = Alive,
           sleep' = sleep, current_waiting' = current_waiting, count' = count,
           \A v \in Contenders(s) : pc'[v] \in {"wait_spin", "wait_test"} /\ arg'[v] = arg[v]
    PROVE  Unattended(s)' <= Unattended(s)
  <1>1. Sleepers(s)' \subseteq Sleepers(s) /\ Contenders(s) \subseteq Contenders(s)'
    BY DEF Sleepers, Contenders
  <1> QED
    BY <1>1, CrowdKept

LEMMA QuietStep ==
    ASSUME NEW s \in Sems, ApiInv, ApiInv', NEW t \in Threads,
           \/ \E l, p, a : Call(t, l, p, a)
           \/ \E i : ProcReadCall(t, i)
           \/ CreateFull(t) \/ TeardownMissing(t) \/ TeardownFind(t)
           \/ ProcRead(t) \/ WaitSpin(t)
    PROVE  Unattended(s)' <= Unattended(s)
  <1>1. /\ mode = "run" /\ current = t
        /\ UNCHANGED <<thread_pool, stack, sleep, current_waiting, count>>
    BY DEF Call, ProcReadCall, CreateFull, TeardownMissing, TeardownFind, ProcRead, ProcReadGone,
           ProcReadFound, ProcReadText, WaitSpin, At, semVars
  <1>2. Alive' = Alive
    BY <1>1 DEF Alive, Pooled
  <1>3. \/ \E p, a : /\ pc' = [pc EXCEPT ![t] = p] /\ arg' = [arg EXCEPT ![t] = a]
                     /\ pc[t] \notin {"wait_spin", "wait_test"}
        \/ \E p : /\ pc' = [pc EXCEPT ![t] = p] /\ arg' = arg
                  /\ pc[t] \notin {"wait_spin", "wait_test"}
        \/ pc' = [pc EXCEPT ![t] = "wait_test"] /\ arg' = arg
    BY DEF Call, ProcReadCall, CreateFull, TeardownMissing, TeardownFind, ProcRead, ProcReadGone,
           ProcReadFound, ProcReadText, WaitSpin, At, Goto, Return
  <1>4. \A v \in Contenders(s) : pc'[v] \in {"wait_spin", "wait_test"} /\ arg'[v] = arg[v]
    <2> SUFFICES ASSUME NEW v \in Contenders(s)
                 PROVE  pc'[v] \in {"wait_spin", "wait_test"} /\ arg'[v] = arg[v]
      OBVIOUS
    <2>1. v \in Threads /\ pc[v] \in {"wait_spin", "wait_test"}
      BY CrowdTypes DEF CrowdOK, Contenders
    <2>2. /\ pc \in [Threads -> Points]
          /\ arg \in [Threads -> Threads \cup Sems \cup {NULL}]
      BY <1>1, ApiRunning
    <2> QED
      BY <1>3, <2>1, <2>2
  <1> QED
    BY <1>1, <1>2, <1>4, CrowdUnmoved

(* A thread halfway through kmt_create or kmt_teardown is not alive.       *)
LEMMA CreateAttended ==
    ASSUME NEW s \in Sems, ApiInv, ApiInv', NEW t \in Threads,
           CreateFind(t) \/ CreateStack(t) \/ CreateMake(t) \/ TeardownDrop(t)
    PROVE  Unattended(s)' <= Unattended(s)
  <1> DEFINE u == arg[t]
  <1>1. /\ mode = "run" /\ current = t /\ count' = count
        /\ pc[t] \in {"create_find", "create_stack", "create_make", "tear_drop"}
    BY DEF CreateFind, CreateStack, CreateMake, TeardownDrop, At, semVars
  <1>2. u \in Threads /\ u # NULL
    BY <1>1, ApiRunning, ThreadAssumption DEF CallOK
  <1>3. stack[u] \in {"none", "raw"}
    BY <1>1, <1>2, ApiRunning DEF ApiStackInv, CallOK
  <1>4. /\ \A v \in Threads : v # t /\ v # u => pc'[v] = pc[v] /\ arg'[v] = arg[v]
        /\ \A v \in Threads : v # u => /\ sleep'[v] = sleep[v] /\ stack'[v] = stack[v]
                                       /\ current_waiting'[v] = current_waiting[v]
    BY <1>1, <1>2, ApiRunning
    DEF CreateFind, CreateStack, CreateMake, TeardownDrop, Goto, Return, ReturnAndRestart, semVars
  <1>5. \A v \in Threads : v # u => (v \in Pooled' <=> v \in Pooled)
    <2>1. CASE CreateFind(t)
      <3>1. Lowest(Free) \in Slots /\ thread_pool[Lowest(Free)] = NULL
        BY <2>1, LowestIn DEF CreateFind, Free
      <3>2. thread_pool' = [thread_pool EXCEPT ![Lowest(Free)] = u]
        BY <2>1 DEF CreateFind
      <3> HIDE DEF u
      <3> QED
        BY <1>1, <1>2, <3>1, <3>2, ApiRunning DEF Pooled
    <2>2. CASE CreateStack(t) \/ CreateMake(t)
      BY <2>2 DEF CreateStack, CreateMake, Pooled
    <2>3. CASE TeardownDrop(t)
      <3>1. slot[t] \in Slots /\ thread_pool[slot[t]] = u
        BY <1>1, <2>3, ApiRunning DEF TeardownDrop, At, CallOK
      <3>2. thread_pool' = [thread_pool EXCEPT ![slot[t]] = NULL]
        BY <2>3 DEF TeardownDrop
      <3> HIDE DEF u
      <3> QED
        BY <1>1, <1>2, <3>1, <3>2, ApiRunning DEF Pooled
    <2> QED
      BY <2>1, <2>2, <2>3
  <1>6. u \notin Sleepers(s)'
    <2>1. CASE CreateMake(t)
      BY <1>1, <1>2, <2>1, ApiRunning DEF CreateMake, Sleepers
    <2>2. CASE CreateFind(t) \/ CreateStack(t) \/ TeardownDrop(t)
      <3>1. stack'[u] \in {"none", "raw"}
        BY <1>1, <1>2, <1>3, <2>2, ApiRunning DEF CreateFind, CreateStack, TeardownDrop
      <3> QED
        BY <3>1 DEF Sleepers, Alive
    <2> QED
      BY <2>1, <2>2
  <1>7. u \notin Contenders(s) /\ t \notin Contenders(s)
    BY <1>1, <1>3 DEF Contenders, Alive
  <1>8. \A v \in Sleepers(s)' : v \in Sleepers(s)
    <2> SUFFICES ASSUME NEW v \in Sleepers(s)' PROVE v \in Sleepers(s)
      OBVIOUS
    <2>1. v \in Alive' /\ sleep'[v] = 1 /\ current_waiting'[v] = s
      BY DEF Sleepers
    <2>2. v \in Threads
      <3>1. Alive' \subseteq Pooled' /\ Pooled' \subseteq Threads
        BY CrowdTypesNext DEF CrowdOK
      <3> QED
        BY <2>1, <3>1
    <2>3. v \in Alive
      BY <1>4, <1>5, <1>6, <2>1, <2>2 DEF Alive
    <2> QED
      BY <1>4, <1>6, <2>1, <2>2, <2>3 DEF Sleepers
  <1>9. \A v \in Contenders(s) : v \in Contenders(s)'
    <2> SUFFICES ASSUME NEW v \in Contenders(s) PROVE v \in Contenders(s)'
      OBVIOUS
    <2>1. /\ v \in Alive /\ v \in Threads /\ v # t /\ v # u
          /\ pc[v] \in {"wait_spin", "wait_test"} /\ arg[v] = s /\ sleep[v] = 0
      BY <1>7, CrowdTypes DEF CrowdOK, Contenders
    <2>2. v \in Alive'
      BY <1>4, <1>5, <2>1 DEF Alive
    <2> QED
      BY <1>4, <2>1, <2>2 DEF Contenders
  <1> QED
    BY <1>1, <1>8, <1>9, CrowdKept

(* kmt_teardown loses a wake-up only with a thread that was on its way.    *)
LEMMA TeardownAttended ==
    ASSUME NEW s \in Sems, ApiInv, ApiInv', NEW t \in Threads, TeardownFree(t),
           arg[t] \notin Contenders(s)
    PROVE  Unattended(s)' <= Unattended(s)
  <1> DEFINE u == arg[t]
  <1>1. /\ mode = "run" /\ current = t /\ pc[t] = "tear_free"
        /\ pc' = [pc EXCEPT ![t] = "tear_drop"] /\ arg' = arg
        /\ stack' = [stack EXCEPT ![u] = "none"]
        /\ UNCHANGED <<thread_pool, sleep, current_waiting, count>>
    BY DEF TeardownFree, At, Goto, semVars
  <1>2. u \in Threads
    BY <1>1, ApiRunning DEF CallOK
  <1>3. Pooled' = Pooled
    BY <1>1 DEF Pooled
  <1> HIDE DEF u
  <1>4. Alive' = Alive \ {u}
    <2>1. stack \in [Threads -> {"none", "raw", "made", "broken"}] /\ Pooled \subseteq Threads
      BY <1>1, ApiRunning, CrowdTypes DEF CrowdOK
    <2> QED
      BY <1>1, <1>2, <1>3, <2>1 DEF Alive
  <1>5. Sleepers(s)' \subseteq Sleepers(s)
    BY <1>1, <1>4 DEF Sleepers
  <1>6. Contenders(s) \subseteq Contenders(s)'
    <2> SUFFICES ASSUME NEW v \in Contenders(s) PROVE v \in Contenders(s)'
      OBVIOUS
    <2>1. /\ v \in Alive /\ v \in Threads /\ v # t /\ v # u
          /\ pc[v] \in {"wait_spin", "wait_test"} /\ arg[v] = s /\ sleep[v] = 0
      BY <1>1, CrowdTypes DEF CrowdOK, Contenders, u
    <2> QED
      BY <1>1, <1>4, <2>1, ApiRunning DEF Contenders
  <1> QED
    BY <1>1, <1>5, <1>6, CrowdKept

(* Who goes to sleep found no unit.                                        *)
LEMMA SleepAttended ==
    ASSUME NEW r \in Sems, ApiInv, ApiInv', NEW t \in Threads, WaitSleep(t)
    PROVE  Unattended(r)' <= Unattended(r)
  <1>1. PICK s \in Sems : s = arg[t]
    BY ApiRunning DEF WaitSleep, At, CallOK
  <1>2. /\ mode = "run" /\ current = t /\ pc[t] = "wait_test" /\ count[s] = 0
        /\ current_waiting' = [current_waiting EXCEPT ![t] = s]
        /\ sleep' = [sleep EXCEPT ![t] = 1]
        /\ pc' = [pc EXCEPT ![t] = "wait_spin"] /\ arg' = arg
        /\ UNCHANGED <<thread_pool, stack, count>>
    BY <1>1, ApiRunning DEF WaitSleep, Goto, At
  <1>3. Alive' = Alive /\ Alive \subseteq Threads
    BY <1>2, CrowdTypes DEF CrowdOK, Alive, Pooled
  <1>4. CASE r = s
    BY <1>2, <1>4, NoneMoreUnattended
  <1>5. CASE r # s
    <2>1. Sleepers(r)' \subseteq Sleepers(r)
      BY <1>1, <1>2, <1>3, <1>5, ApiRunning DEF Sleepers
    <2>2. Contenders(r) \subseteq Contenders(r)'
      BY <1>1, <1>2, <1>3, <1>5, ApiRunning DEF Contenders
    <2> QED
      BY <1>2, <2>1, <2>2, CrowdKept
  <1> QED
    BY <1>4, <1>5

(* A unit and a thread on its way to it go together.                       *)
LEMMA PassAttended ==
    ASSUME NEW r \in Sems, ApiInv, ApiInv', NEW t \in Threads, WaitPass(t)
    PROVE  Unattended(r)' <= Unattended(r)
  <1>1. PICK s \in Sems : s = arg[t]
    BY ApiRunning DEF WaitPass, At, CallOK
  <1>2. /\ mode = "run" /\ current = t /\ pc[t] = "wait_test" /\ count[s] # 0
        /\ count' = [count EXCEPT ![s] = @ - 1]
        /\ pc' = [pc EXCEPT ![t] = "out"] /\ arg' = [arg EXCEPT ![t] = NULL]
        /\ UNCHANGED <<thread_pool, stack, sleep, current_waiting>>
    BY <1>1 DEF WaitPass, Return, At
  <1>3. /\ sleep[t] = 0 /\ t \in Alive /\ Alive' = Alive /\ Alive \subseteq Threads
    <2>1. sleep[t] = 0 /\ t \in Pooled
      BY <1>2, Awake, ApiRunning
    <2>2. stack[t] \in {"made", "broken"}
      BY <1>2, <2>1, ApiRunning DEF ApiStackInv
    <2> QED
      BY <1>2, <2>1, <2>2, CrowdTypes DEF CrowdOK, Alive, Pooled
  <1>4. Sleepers(r)' = Sleepers(r)
    BY <1>2, <1>3 DEF Sleepers
  <1>5. CASE r = s
    <2>1. t \in Contenders(r)
      BY <1>1, <1>2, <1>3, <1>5 DEF Contenders
    <2>2. Contenders(r)' = Contenders(r) \ {t}
      BY <1>2, <1>3, ApiRunning DEF Contenders
    <2>3. /\ Cardinality(Contenders(r)') = Cardinality(Contenders(r)) - 1
          /\ Cardinality(Contenders(r)) \in Nat
      BY <2>1, <2>2, CrowdTypes, FS_RemoveElement DEF CrowdOK
    <2>4. count'[r] = count[r] - 1 /\ count[r] \in Nat
      BY <1>2, <1>5, ApiRunning
    <2> QED
      BY <1>4, <2>3, <2>4, NoneMoreUnattended
  <1>6. CASE r # s
    <2>1. Contenders(r) \subseteq Contenders(r)'
      BY <1>1, <1>2, <1>3, <1>6, ApiRunning DEF Contenders
    <2>2. count'[r] = count[r]
      BY <1>2, <1>6, ApiRunning
    <2> QED
      BY <1>4, <2>1, <2>2, CrowdKept
  <1> QED
    BY <1>5, <1>6

(* The new unit goes with the sleeper that is woken, or nobody sleeps.     *)
LEMMA SignalAttended ==
    ASSUME NEW r \in Sems, ApiInv, ApiInv', NEW t \in Threads, SignalPost(t)
    PROVE  Unattended(r)' <= Unattended(r)
  <1>1. PICK s \in Sems : s = arg[t]
    BY ApiRunning DEF SignalPost, At, CallOK
  <1> DEFINE S == SleepersInPool(s)
             w == thread_pool[Lowest(S)]
  <1>2. /\ mode = "run" /\ current = t /\ pc[t] = "signal_post"
        /\ count' = [count EXCEPT ![s] = @ + 1]
        /\ IF S # {} THEN /\ sleep' = [sleep EXCEPT ![w] = 0]
                          /\ current_waiting' = [current_waiting EXCEPT ![w] = NULL]
                     ELSE UNCHANGED <<sleep, current_waiting>>
        /\ pc' = [pc EXCEPT ![t] = "out"] /\ arg' = [arg EXCEPT ![t] = NULL]
        /\ UNCHANGED <<thread_pool, stack>>
    BY <1>1 DEF SignalPost, Return, At, OneMore
  <1>3. /\ Alive = Pooled /\ Alive' = Alive /\ Alive \subseteq Threads
        /\ \A u \in Threads : u # t => arg'[u] = arg[u] /\ pc'[u] = pc[u]
    <2>1. \A u \in Pooled : stack[u] \in {"made", "broken"}
      BY <1>2, ApiRunning DEF ApiStackInv
    <2>2. Alive = Pooled
      BY <2>1 DEF Alive
    <2>3. Alive' = Alive
      BY <1>2 DEF Alive, Pooled
    <2> QED
      BY <1>2, <2>2, <2>3, CrowdTypes, ApiRunning DEF CrowdOK
  <1>4. /\ count[r] \in Nat
        /\ count'[r] = IF r = s THEN count[r] + 1 ELSE count[r]
    BY <1>2, ApiRunning
  <1>5. CASE S = {}
    <2>1. UNCHANGED <<sleep, current_waiting>>
      BY <1>2, <1>5
    <2>2. Sleepers(s) = {}
      BY <1>3, <1>5 DEF Sleepers, SleepersInPool, Pooled
    <2>3. Sleepers(r)' = Sleepers(r)
      BY <1>3, <2>1 DEF Sleepers
    <2>4. Contenders(r) \subseteq Contenders(r)'
      BY <1>2, <1>3, <2>1 DEF Contenders
    <2>5. CASE r = s
      BY <2>2, <2>3, <2>5, NoneMoreUnattended
    <2>6. CASE r # s
      BY <1>4, <2>3, <2>4, <2>6, CrowdKept
    <2> QED
      BY <2>5, <2>6
  <1>6. CASE S # {}
    <2>1. PICK v \in Threads : /\ v = w /\ v \in Pooled /\ sleep[v] = 1 /\ current_waiting[v] = s
                               /\ pc[v] = "wait_spin" /\ arg[v] = s /\ v # t
      BY <1>2, <1>6, Woken
    <2>2. /\ sleep' = [sleep EXCEPT ![v] = 0]
          /\ current_waiting' = [current_waiting EXCEPT ![v] = NULL]
      BY <1>2, <1>6, <2>1
    <2> HIDE DEF w, S
    <2>3. Sleepers(r)' \subseteq Sleepers(r)
      BY <1>2, <1>3, <2>2, ApiRunning DEF Sleepers
    <2>4. CASE r # s
      <3>1. Contenders(r) \subseteq Contenders(r)'
        BY <1>2, <1>3, <2>1, <2>2, <2>4, ApiRunning DEF Contenders
      <3> QED
        BY <1>4, <2>3, <2>4, <3>1, CrowdKept
    <2>5. CASE r = s
      <3>1. Contenders(r)' \subseteq Contenders(r) \cup {v}
        BY <1>2, <1>3, <2>2, ApiRunning DEF Contenders
      <3>2. Contenders(r) \subseteq Contenders(r)'
        BY <1>2, <1>3, <2>2, ApiRunning DEF Contenders
      <3>3. v \in Contenders(r)'
        BY <1>2, <1>3, <2>1, <2>2, <2>5, ApiRunning DEF Contenders
      <3>4. Contenders(r)' = Contenders(r) \cup {v}
        BY <3>1, <3>2, <3>3
      <3>5. v \notin Contenders(r) /\ v \in Sleepers(r)
        BY <1>3, <2>1, <2>5 DEF Contenders, Sleepers
      <3>6. /\ Cardinality(Contenders(r)') = Cardinality(Contenders(r)) + 1
            /\ Cardinality(Contenders(r)) \in Nat
        BY <3>4, <3>5, CrowdTypes, FS_AddElement DEF CrowdOK
      <3>7. count'[r] - Cardinality(Contenders(r)') <= count[r] - Cardinality(Contenders(r))
        BY <1>4, <2>5, <3>6
      <3> QED
        BY <3>5, <3>7, NoneMoreUnattended
    <2> QED
      BY <2>4, <2>5
  <1> QED
    BY <1>5, <1>6

(* Interrupts, faults and stops move nobody.                               *)
LEMMA StopAttended ==
    ASSUME NEW s \in Sems, ApiInv, ApiInv',
           \/ TimerInterrupt
           \/ \E t \in Threads : TeardownPanic(t) \/ Overflow(t)
           \/ UNCHANGED apiVars
    PROVE  Unattended(s)' <= Unattended(s)
  <1>1. UNCHANGED <<thread_pool, sleep, current_waiting, count, pc, arg>>
    BY DEF TimerInterrupt, Timer, Dispatch, TimerHang, FencePanic, TeardownPanic, Overflow,
           semVars, apiVars
  <1>2. Pooled' = Pooled
    BY <1>1 DEF Pooled
  <1>3. CASE stack' = stack
    <2>1. Alive' = Alive
      BY <1>2, <1>3 DEF Alive
    <2> QED
      BY <1>1, <2>1, CrowdUnmoved DEF Contenders
  <1>4. CASE \E t \in Threads : Overflow(t)
    <2>1. PICK t \in Threads : /\ mode = "run" /\ current = t /\ pc[t] = "out"
                               /\ stack' = [stack EXCEPT ![t] = "broken"]
      BY <1>4 DEF Overflow, At
    <2>2. stack[t] \in {"made", "broken"} /\ Pooled \subseteq Threads
          /\ stack \in [Threads -> {"none", "raw", "made", "broken"}]
      BY <2>1, ApiRunning, CrowdTypes DEF CrowdOK, ApiStackInv
    <2>3. Alive' = Alive
      BY <1>2, <2>1, <2>2 DEF Alive
    <2> QED
      BY <1>1, <2>3, CrowdUnmoved DEF Contenders
  <1> QED
    BY <1>3, <1>4
    DEF TimerInterrupt, Timer, Dispatch, TimerHang, FencePanic, TeardownPanic, apiVars

LEMMA AttendedStep ==
    ASSUME NEW s \in Sems, ApiInv, ApiInv', [ApiNext]_apiVars
    PROVE  \/ Unattended(s)' <= Unattended(s)
           \/ \E t \in Threads : TeardownFree(t) /\ arg[t] \in Contenders(s)
  <1>1. ASSUME NEW t \in Threads, CallOperation(t) PROVE Unattended(s)' <= Unattended(s)
    BY <1>1, QuietStep DEF CallOperation, CreateCall, TeardownCall, SemWaitCall, SemSignalCall
  <1>2. ASSUME NEW t \in Threads, Proceed(t), ~(TeardownFree(t) /\ arg[t] \in Contenders(s))
        PROVE  Unattended(s)' <= Unattended(s)
    BY <1>2, QuietStep, CreateAttended, TeardownAttended, SleepAttended, PassAttended,
       SignalAttended, StopAttended DEF Proceed
  <1>3. ASSUME NEW t \in Threads, ProcRead(t) \/ Overflow(t)
        PROVE  Unattended(s)' <= Unattended(s)
    BY <1>3, QuietStep, StopAttended
  <1> QED
    BY <1>1, <1>2, <1>3, StopAttended DEF ApiNext

(* Under any sequence of calls, kmt_sem_wait and kmt_sem_signal lose no    *)
(* wake-up.  What loses one is the teardown of a thread that was woken for *)
(* a unit and has not come to take it.                                     *)
THEOREM WakeupsLostByTeardown == ApiSpec => LostByTeardownOnly
  <1>1. ASSUME ApiInv, ApiInv', [ApiNext]_apiVars
        PROVE  [\A s \in Sems :
                   Unattended(s)' > Unattended(s) =>
                      \E t \in Threads : TeardownFree(t) /\ arg[t] \in Contenders(s)]_apiVars
    <2> SUFFICES ASSUME NEW s \in Sems, Unattended(s)' > Unattended(s)
                 PROVE  \E t \in Threads : TeardownFree(t) /\ arg[t] \in Contenders(s)
      OBVIOUS
    <2>1. Unattended(s) \in Nat
      BY <1>1, CrowdTypes DEF CrowdOK
    <2>2. Unattended(s)' \in Nat
      BY <1>1, CrowdTypesNext DEF CrowdOK
    <2> QED
      BY <1>1, <2>1, <2>2, AttendedStep
  <1> QED
    BY <1>1, ApiInvariant, PTL DEF ApiSpec, LostByTeardownOnly

-----------------------------------------------------------------------------
(* What kmt.c keeps about threads fits together: a thread is in one slot   *)
(* at most, the index leads to the running one, and who sleeps stands in   *)
(* the loop of the semaphore it waits for.                                 *)
THEOREM ApiConsistent == ApiSpec => []KmtInv
  <1>1. ApiInv => KmtInv
    <2> SUFFICES ASSUME ApiInv PROVE SleepConsistent
      BY DEF ApiInv, KmtInv
    <2>1. Pooled \subseteq Threads
      BY DEF ApiInv, KmtTypeOK, Pooled
    <2> QED
      BY <2>1 DEF ApiInv, SleepInv, SleepConsistent, KmtTypeOK
  <1> QED
    BY <1>1, ApiInvariant, PTL

(* No thread is dispatched that has no stack or no frame, whatever the     *)
(* threads call, also after an early return that leaves a lock taken.      *)
THEOREM DispatchIsSafe == ApiSpec => []DispatchSafe
  <1>1. ApiInv => DispatchSafe
    <2> SUFFICES ASSUME ApiInv, mode = "run", intr_flag, NEW t \in Pooled
                 PROVE  stack[t] \in {"made", "broken"}
      BY DEF DispatchSafe
    <2>1. lockcount = 0 /\ LocksInv /\ ApiStackInv /\ KmtTypeOK
      BY DEF ApiInv, RunInv, LocksInv, Balanced
    <2>2. Here \notin PoolSection
      BY <2>1, LockAssumption DEF LocksInv, Balanced, KmtTypeOK, LockTypeOK, MemorySection, SemSection
    <2> QED
      BY <2>1, <2>2 DEF ApiStackInv, PoolSection
  <1> QED
    BY <1>1, ApiInvariant, PTL

(* A thread that ran over its stack is found before another one runs.      *)
THEOREM OverflowIsCaught == ApiSpec => []OverflowCaught
  <1>1. ApiInv => OverflowCaught
    BY DEF ApiInv, RunInv, ApiStackInv, OverflowCaught
  <1> QED
    BY <1>1, ApiInvariant, PTL

(* The thread a procfs file describes is there, complete, until the text   *)
(* is made.                                                                *)
THEOREM ProcReadIsSafe == ApiSpec => []ProcReadSafe
  <1>1. ApiInv => ProcReadSafe
    <2> SUFFICES ASSUME ApiInv, mode = "run", NEW t \in Threads, pc[t] = "proc_text"
                 PROVE  /\ thread_pool[slot[t]] # NULL
                        /\ stack[thread_pool[slot[t]]] \in {"made", "broken"}
      BY DEF ProcReadSafe
    <2>1. CallOK(t) /\ OthersOpen /\ ApiStackInv /\ ThreadAssumption
      BY ThreadAssumption DEF ApiInv, RunInv, CallInv
    <2>2. current = t /\ t # NULL
      BY <2>1, ThreadAssumption DEF OthersOpen, OpenPoints
    <2>3. Here = "proc_text"
      BY <2>2 DEF Here
    <2>4. slot[t] \in Slots /\ thread_pool[slot[t]] # NULL
      BY <2>1 DEF CallOK
    <2>5. thread_pool[slot[t]] \in Pooled
      BY <2>4 DEF Pooled
    <2> QED
      BY <2>1, <2>3, <2>4, <2>5 DEF ApiStackInv
  <1> QED
    BY <1>1, ApiInvariant, PTL

-----------------------------------------------------------------------------
(* What a step does to the semaphores as their callers see them.           *)
WaitPoints == {"wait_test", "wait_spin"}

LEMMA WaitingOf ==
    /\ waiting = [u \in Threads |-> waiting[u]]
    /\ \A u \in Threads : waiting[u] = IF pc[u] \in WaitPoints THEN arg[u] ELSE NULL
  BY DEF waiting, WaitPoints

LEMMA WaitingMoves ==
    ASSUME NEW t \in Threads, pc \in [Threads -> Points], NEW p, pc' = [pc EXCEPT ![t] = p],
           \A u \in Threads : u # t => arg'[u] = arg[u]
    PROVE  waiting' = [waiting EXCEPT ![t] = IF p \in WaitPoints THEN arg'[t] ELSE NULL]
  <1>1. waiting' = [u \in Threads |-> IF pc'[u] \in WaitPoints THEN arg'[u] ELSE NULL]
    BY DEF waiting, WaitPoints
  <1>2. \A u \in Threads : pc'[u] = IF u = t THEN p ELSE pc[u]
    OBVIOUS
  <1>3. \A u \in Threads : waiting'[u] = IF u = t THEN (IF p \in WaitPoints THEN arg'[t] ELSE NULL)
                                                 ELSE waiting[u]
    BY <1>1, <1>2, WaitingOf
  <1> QED
    BY <1>1, <1>3, WaitingOf

(* Outside of kmt_sem_wait a move is not seen, nor is one inside.          *)
LEMMA WaitingStays ==
    ASSUME NEW t \in Threads, pc \in [Threads -> Points], NEW p, pc' = [pc EXCEPT ![t] = p],
           \A u \in Threads : u # t => arg'[u] = arg[u],
           pc[t] \in WaitPoints <=> p \in WaitPoints,
           p \in WaitPoints => arg'[t] = arg[t]
    PROVE  waiting' = waiting
  <1>1. waiting' = [waiting EXCEPT ![t] = IF p \in WaitPoints THEN arg'[t] ELSE NULL]
    BY WaitingMoves
  <1>2. waiting[t] = IF p \in WaitPoints THEN arg'[t] ELSE NULL
    BY WaitingOf
  <1> QED
    BY <1>1, <1>2, WaitingOf

LEMMA ApiTypes ==
    ASSUME ApiInv
    PROVE  /\ pc \in [Threads -> Points]
           /\ arg \in [Threads -> Threads \cup Sems \cup {NULL}]
           /\ count \in [Sems -> Nat]
  BY DEF ApiInv, KmtTypeOK

(* A call of anything but kmt_sem_wait.                                    *)
LEMMA SemCallUnseen ==
    ASSUME ApiInv, NEW t \in Threads, NEW l, NEW p, NEW a, Call(t, l, p, a), p \notin WaitPoints
    PROVE  UNCHANGED Sem!vars
  <1>1. /\ pc[t] = "out" /\ pc' = [pc EXCEPT ![t] = p] /\ arg' = [arg EXCEPT ![t] = a]
        /\ count' = count
    BY DEF Call, At, semVars
  <1>2. \A u \in Threads : u # t => arg'[u] = arg[u]
    BY <1>1, ApiTypes
  <1>3. waiting' = waiting
    BY <1>1, <1>2, ApiTypes, WaitingStays DEF WaitPoints
  <1> QED
    BY <1>1, <1>3 DEF Sem!vars

LEMMA SemRequest ==
    ASSUME ApiInv, NEW t \in Threads, NEW s \in Sems, SemWaitCall(t, s)
    PROVE  Sem!Request(t, s)
  <1>1. /\ pc[t] = "out" /\ pc' = [pc EXCEPT ![t] = "wait_test"]
        /\ arg' = [arg EXCEPT ![t] = s] /\ count' = count
    BY DEF SemWaitCall, Call, At, semVars
  <1>2. arg'[t] = s /\ \A u \in Threads : u # t => arg'[u] = arg[u]
    BY <1>1, ApiTypes
  <1>3. waiting' = [waiting EXCEPT ![t] = s]
    <2>1. waiting' = [waiting EXCEPT ![t] = IF "wait_test" \in WaitPoints THEN arg'[t] ELSE NULL]
      BY <1>1, <1>2, ApiTypes, WaitingMoves
    <2> QED
      BY <1>2, <2>1 DEF WaitPoints
  <1>4. waiting[t] = NULL
    BY <1>1, WaitingOf DEF WaitPoints
  <1> QED
    BY <1>1, <1>3, <1>4 DEF Sem!Request

(* Inside of create, teardown and a read of procfs, and going round in     *)
(* kmt_sem_wait.                                                           *)
LEMMA SemMoveUnseen ==
    ASSUME ApiInv, NEW t \in Threads, count' = count,
           \/ \E p : Goto(t, p) /\ (pc[t] \in WaitPoints <=> p \in WaitPoints)
           \/ \E v : Return(t, v) /\ pc[t] \notin WaitPoints
    PROVE  UNCHANGED Sem!vars
  <1>1. CASE \E p : Goto(t, p) /\ (pc[t] \in WaitPoints <=> p \in WaitPoints)
    <2>1. PICK p : pc' = [pc EXCEPT ![t] = p] /\ arg' = arg /\ (pc[t] \in WaitPoints <=> p \in WaitPoints)
      BY <1>1 DEF Goto
    <2>2. waiting' = waiting
      BY <2>1, ApiTypes, WaitingStays
    <2> QED
      BY <2>2 DEF Sem!vars
  <1>2. CASE \E v : Return(t, v) /\ pc[t] \notin WaitPoints
    <2>1. pc' = [pc EXCEPT ![t] = "out"] /\ arg' = [arg EXCEPT ![t] = NULL] /\ pc[t] \notin WaitPoints
      BY <1>2 DEF Return
    <2>2. \A u \in Threads : u # t => arg'[u] = arg[u]
      BY <2>1, ApiTypes
    <2>3. waiting' = waiting
      BY <2>1, <2>2, ApiTypes, WaitingStays DEF WaitPoints
    <2> QED
      BY <2>3 DEF Sem!vars
  <1> QED
    BY <1>1, <1>2

LEMMA SemReturns ==
    ASSUME ApiInv, NEW t \in Threads, NEW v, Return(t, v)
    PROVE  waiting' = [waiting EXCEPT ![t] = NULL]
  <1>1. pc' = [pc EXCEPT ![t] = "out"] /\ arg' = [arg EXCEPT ![t] = NULL]
    BY DEF Return
  <1>2. \A u \in Threads : u # t => arg'[u] = arg[u]
    BY <1>1, ApiTypes
  <1>3. waiting' = [waiting EXCEPT ![t] = IF "out" \in WaitPoints THEN arg'[t] ELSE NULL]
    BY <1>1, <1>2, ApiTypes, WaitingMoves
  <1> QED
    BY <1>3 DEF WaitPoints

LEMMA SemPass ==
    ASSUME ApiInv, NEW t \in Threads, WaitPass(t)
    PROVE  arg[t] \in Sems /\ Sem!Pass(t, arg[t])
  <1>1. /\ mode = "run" /\ pc[t] = "wait_test" /\ count[arg[t]] # 0
        /\ count' = [count EXCEPT ![arg[t]] = @ - 1] /\ Return(t, 0)
    BY DEF WaitPass, At
  <1>2. arg[t] \in Sems
    BY <1>1 DEF ApiInv, RunInv, CallInv, CallOK
  <1>3. waiting' = [waiting EXCEPT ![t] = NULL] /\ waiting[t] = arg[t]
    BY <1>1, SemReturns, WaitingOf DEF WaitPoints
  <1>4. count[arg[t]] > 0
    BY <1>1, <1>2, ApiTypes
  <1> QED
    BY <1>1, <1>2, <1>3, <1>4 DEF Sem!Pass

LEMMA SemSignal ==
    ASSUME ApiInv, NEW t \in Threads, SignalPost(t)
    PROVE  arg[t] \in Sems /\ Sem!Signal(arg[t])
  <1>1. /\ mode = "run" /\ pc[t] = "signal_post"
        /\ count' = [count EXCEPT ![arg[t]] = @ + 1] /\ Return(t, 0)
    BY DEF SignalPost, At, OneMore
  <1>2. arg[t] \in Sems
    BY <1>1 DEF ApiInv, RunInv, CallInv, CallOK
  <1>3. waiting' = [waiting EXCEPT ![t] = NULL] /\ waiting[t] = NULL
    BY <1>1, SemReturns, WaitingOf DEF WaitPoints
  <1>4. waiting' = waiting
    BY <1>3, WaitingOf
  <1> QED
    BY <1>1, <1>2, <1>4 DEF Sem!Signal

(* A thread made anew has left the wait it was torn down in.               *)
LEMMA SemRestart ==
    ASSUME ApiInv, NEW t \in Threads, CreateMake(t)
    PROVE  [\E u \in Threads : Sem!Quit(u)]_(Sem!vars)
  <1>1. PICK u \in Threads : u = arg[t]
    BY ApiRunning DEF CreateMake, At, CallOK
  <1>2. /\ pc[t] = "create_make" /\ count' = count
        /\ pc' = [pc EXCEPT ![t] = "out", ![u] = "out"]
        /\ arg' = [arg EXCEPT ![t] = NULL, ![u] = NULL]
    BY <1>1 DEF CreateMake, ReturnAndRestart, At
  <1>3. \A v \in Threads : waiting'[v] = IF v = u THEN NULL ELSE waiting[v]
    <2> SUFFICES ASSUME NEW v \in Threads
                 PROVE  waiting'[v] = IF v = u THEN NULL ELSE waiting[v]
      OBVIOUS
    <2>1. waiting'[v] = IF pc'[v] \in WaitPoints THEN arg'[v] ELSE NULL
      BY DEF waiting, WaitPoints
    <2>2. waiting[v] = IF pc[v] \in WaitPoints THEN arg[v] ELSE NULL
      BY WaitingOf
    <2> QED
      BY <1>2, <2>1, <2>2, ApiTypes DEF WaitPoints
  <1>4. waiting' = [v \in Threads |-> waiting'[v]]
    BY DEF waiting
  <1>5. waiting' = [waiting EXCEPT ![u] = NULL]
    BY <1>3, <1>4, WaitingOf
  <1>6. CASE waiting[u] = NULL
    <2>1. waiting' = waiting
      BY <1>5, <1>6, WaitingOf
    <2> QED
      BY <1>2, <2>1 DEF Sem!vars
  <1>7. CASE waiting[u] # NULL
    BY <1>2, <1>5, <1>7 DEF Sem!Quit
  <1> QED
    BY <1>6, <1>7

LEMMA SemaphoreStep ==
    ASSUME ApiInv, [ApiNext]_apiVars
    PROVE  [Sem!Next \/ \E u \in Threads : Sem!Quit(u)]_(Sem!vars)
  <1>1. ASSUME UNCHANGED <<pc, arg, count>> PROVE UNCHANGED Sem!vars
    BY <1>1 DEF Sem!vars, waiting
  <1>2. ASSUME NEW t \in Threads, CallOperation(t) PROVE [Sem!Next]_(Sem!vars)
    <2>1. ASSUME NEW s \in Sems, SemWaitCall(t, s) PROVE Sem!Next
      BY <2>1, SemRequest DEF Sem!Next
    <2>2. ASSUME NEW u, CreateCall(t, u) \/ TeardownCall(t, u) \/ SemSignalCall(t, u)
          PROVE  UNCHANGED Sem!vars
      BY <2>2, SemCallUnseen DEF CreateCall, TeardownCall, SemSignalCall, WaitPoints
    <2>3. ASSUME NEW i \in Slots, ProcReadCall(t, i) PROVE UNCHANGED Sem!vars
      <3>1. count' = count /\ Goto(t, "proc_check") /\ pc[t] = "out"
        BY <2>3 DEF ProcReadCall, At, semVars
      <3> QED
        BY <3>1, SemMoveUnseen DEF WaitPoints
    <2> QED
      BY <1>2, <2>1, <2>2, <2>3 DEF CallOperation
  <1>3. ASSUME NEW t \in Threads,
               \/ CreateFull(t) \/ CreateFind(t) \/ CreateStack(t)
               \/ TeardownMissing(t) \/ TeardownFind(t) \/ TeardownFree(t) \/ TeardownDrop(t)
               \/ WaitSleep(t) \/ WaitSpin(t) \/ ProcRead(t)
        PROVE  UNCHANGED Sem!vars
    <2>1. count' = count
      BY <1>3 DEF CreateFull, CreateFind, CreateStack, TeardownMissing, TeardownFind,
             TeardownFree, TeardownDrop, WaitSleep, WaitSpin, ProcRead, ProcReadGone,
             ProcReadFound, ProcReadText, semVars
    <2>2. \/ \E p : Goto(t, p) /\ (pc[t] \in WaitPoints <=> p \in WaitPoints)
          \/ \E v : Return(t, v) /\ pc[t] \notin WaitPoints
      <3>1. CASE WaitSleep(t)
        <4>1. Goto(t, "wait_spin") /\ pc[t] = "wait_test"
          BY <3>1 DEF WaitSleep, At
        <4> QED
          BY <4>1 DEF WaitPoints
      <3>2. CASE WaitSpin(t)
        <4>1. Goto(t, "wait_test") /\ pc[t] = "wait_spin"
          BY <3>2 DEF WaitSpin, At
        <4> QED
          BY <4>1 DEF WaitPoints
      <3>3. CASE ~WaitSleep(t) /\ ~WaitSpin(t)
        <4>1. /\ pc[t] \in PoolSection
              /\ \/ \E p \in PoolSection : Goto(t, p)
                 \/ \E v \in {0, -1} : Return(t, v)
          BY <1>3, <3>3 DEF CreateFull, CreateFind, CreateStack, TeardownMissing,
             TeardownFind, TeardownFree, TeardownDrop, ProcRead, ProcReadGone,
             ProcReadFound, ProcReadText, At, PoolSection
        <4>2. \A p \in PoolSection : p \notin WaitPoints
          BY DEF PoolSection, WaitPoints
        <4> QED
          BY <4>1, <4>2
      <3> QED
        BY <3>1, <3>2, <3>3
    <2> QED
      BY <2>1, <2>2, SemMoveUnseen
  <1>4. ASSUME NEW t \in Threads, TeardownPanic(t) \/ Overflow(t) PROVE UNCHANGED Sem!vars
    BY <1>1, <1>4 DEF TeardownPanic, Overflow, semVars
  <1>5. ASSUME NEW t \in Threads, WaitPass(t) PROVE Sem!Next
    BY <1>5, SemPass DEF Sem!Next
  <1>6. ASSUME NEW t \in Threads, SignalPost(t) PROVE Sem!Next
    BY <1>6, SemSignal DEF Sem!Next
  <1>7. ASSUME TimerInterrupt PROVE UNCHANGED Sem!vars
    BY <1>1, <1>7 DEF TimerInterrupt, Timer, Dispatch, TimerHang, FencePanic, semVars
  <1>8. ASSUME UNCHANGED apiVars PROVE UNCHANGED Sem!vars
    BY <1>1, <1>8 DEF apiVars
  <1>9. ASSUME NEW t \in Threads, CreateMake(t)
        PROVE  [\E u \in Threads : Sem!Quit(u)]_(Sem!vars)
    BY <1>9, SemRestart
  <1> QED
    BY <1>2, <1>3, <1>4, <1>5, <1>6, <1>7, <1>8, <1>9 DEF ApiNext, Proceed

(* For any number of semaphores and threads, and every sequence of calls:  *)
(* however the steps of kmt_sem_wait and kmt_sem_signal are interrupted    *)
(* and repeated, each call takes or adds one unit, once, and a wait only   *)
(* returns by taking one.  A thread torn down in a wait and created again  *)
(* has left the wait and taken nothing.                                    *)
THEOREM SemaphoresImplemented == ApiSpec => Sem!KillSpec
  <1>1. KmtInit => Sem!Init
    BY DEF KmtInit, Sem!Init, waiting
  <1>2. ApiInv /\ [ApiNext]_apiVars
           => [Sem!Next \/ \E t \in Threads : Sem!Quit(t)]_(Sem!vars)
    BY SemaphoreStep
  <1> QED
    BY <1>1, <1>2, ApiInvariant, PTL DEF ApiSpec, Sem!KillSpec

-----------------------------------------------------------------------------
(* The callers of vfs.c.                                                   *)

(* The running thread is in the pool, found through its index.             *)
LEMMA CurrentPooled ==
    ASSUME GateInv, current # NULL
    PROVE  /\ current \in Threads
           /\ current \in Pooled
           /\ current_thread_index \in Slots
           /\ Me = current
  BY DEF GateInv, GateType, KmtTypeOK, PoolInv, PoolConsistent, Me, Pooled

LEMMA InitGate ==
    ASSUME GateOpen
    PROVE  Init => GateInv
  <1> SUFFICES ASSUME Init PROVE GateInv
    OBVIOUS
  <1> USE DEF Init, KmtInit, LockInit
  <1>1. GateType
    BY ThreadAssumption, PoolAssumption, CountAssumption, GateAssumption
    DEF GateType, KmtTypeOK, LockTypeOK, Points, Slots
  <1>2. LocksByPoint
    BY LockAssumption DEF LocksByPoint, Here, ThreadSection, MemorySection, SemSection, OpenPoints
  <1>3. Pooled = {launchd}
    BY ThreadAssumption, PoolAssumption DEF Pooled, Slots
  <1>4. PoolInv
    BY <1>3, ThreadAssumption, PoolAssumption DEF PoolInv, PoolConsistent, Slots, ThreadSection
  <1>5. ThreadInv
    BY DEF ThreadInv, ThreadOK, ThreadSection
  <1>6. StackInv
    BY <1>3, ThreadAssumption DEF StackInv
  <1>7. UnitInv
    BY GateAssumption, CountAssumption DEF GateOpen, UnitInv, Holders
  <1> QED
    BY <1>1, <1>2, <1>4, <1>5, <1>6, <1>7 DEF GateInv

-----------------------------------------------------------------------------
(* What a lock call of the running thread does to the lock state, by the   *)
(* points it leads from and to: the six kinds of moves through kmt.c.      *)
Move(p, q) ==
    \/ /\ p \in OpenPoints /\ q \in ThreadSection \ MemorySection
       /\ SimpleLockTry(thread_lock)
    \/ /\ p \in OpenPoints /\ q \in SemSection
       /\ SimpleLockTry(semaphore_lock)
    \/ /\ p \in ThreadSection \ MemorySection /\ q \in MemorySection
       /\ SimpleLockTry(kernel_memory_lock)
    \/ /\ p \in MemorySection /\ q \in ThreadSection \ MemorySection
       /\ SimpleLockUnlock(kernel_memory_lock)
    \/ /\ p \in ThreadSection \ MemorySection /\ q \in OpenPoints
       /\ SimpleLockUnlock(thread_lock)
    \/ /\ p \in SemSection /\ q \in OpenPoints
       /\ SimpleLockUnlock(semaphore_lock)

LEMMA MoveLocks ==
    ASSUME GateInv, NEW t \in Threads, NEW p, NEW q,
           current = t, pc[t] = p, Move(p, q),
           pc' = [pc EXCEPT ![t] = q], current' = current
    PROVE  LockTypeOK' /\ LocksByPoint'
  <1> USE DEF ThreadSection, MemorySection, SemSection, OpenPoints
  <1>1. /\ thread_lock \in Locks /\ semaphore_lock \in Locks /\ kernel_memory_lock \in Locks
        /\ thread_lock # semaphore_lock /\ thread_lock # kernel_memory_lock
        /\ semaphore_lock # kernel_memory_lock
    BY LockAssumption
  <1>2. t # NULL /\ pc \in [Threads -> Points] /\ LockTypeOK
    BY ThreadAssumption DEF GateInv, GateType, KmtTypeOK
  <1>3. Here = p /\ Here' = q
    BY <1>2 DEF Here
  <1>4. \A u \in Threads : u # current => pc[u] \in OpenPoints
    BY DEF GateInv, LocksByPoint
  <1>5. \A u \in Threads : u # current' => pc'[u] \in OpenPoints
    BY <1>2, <1>4
  <1>6. /\ lock_status[thread_lock] = IF p \in ThreadSection THEN 1 ELSE 0
        /\ lock_status[kernel_memory_lock] = IF p \in MemorySection THEN 1 ELSE 0
        /\ lock_status[semaphore_lock] = IF p \in SemSection THEN 1 ELSE 0
        /\ lockcount = IF p \in OpenPoints THEN 0 ELSE IF p \in MemorySection THEN 2 ELSE 1
        /\ intr_flag <=> p \in OpenPoints
        /\ ~intr_flag => release_intr
        /\ ~lock_warned
    BY <1>3 DEF GateInv, LocksByPoint
  <1>7. /\ lock_status' \in [Locks -> {0, 1}] /\ lockcount' \in Nat
        /\ intr_flag' \in BOOLEAN /\ release_intr' \in BOOLEAN /\ lock_warned' \in BOOLEAN
        /\ lock_status'[thread_lock] = IF q \in ThreadSection THEN 1 ELSE 0
        /\ lock_status'[kernel_memory_lock] = IF q \in MemorySection THEN 1 ELSE 0
        /\ lock_status'[semaphore_lock] = IF q \in SemSection THEN 1 ELSE 0
        /\ lockcount' = IF q \in OpenPoints THEN 0 ELSE IF q \in MemorySection THEN 2 ELSE 1
        /\ intr_flag' <=> q \in OpenPoints
        /\ ~intr_flag' => release_intr'
        /\ ~lock_warned'
    <2>1. CASE p \in OpenPoints /\ q \in ThreadSection \ MemorySection /\ SimpleLockTry(thread_lock)
      <3>1. lock_status[thread_lock] = 0
        BY <1>6, <2>1
      <3>2. /\ intr_flag' = FALSE
            /\ lock_status' = [lock_status EXCEPT ![thread_lock] = 1]
            /\ lockcount' = lockcount + 1
            /\ release_intr' = IF lockcount = 0 THEN intr_flag ELSE release_intr
            /\ lock_warned' = lock_warned
        BY <1>1, <2>1, <3>1, LockTaken
      <3>3. intr_flag' = FALSE /\ lockcount' = 1 /\ release_intr' = TRUE /\ lock_warned' = FALSE
        BY <1>2, <1>6, <2>1, <3>2 DEF LockTypeOK
      <3>4. intr_flag' <=> q \in OpenPoints
        BY <2>1, <3>3
      <3>5. /\ lock_status' \in [Locks -> {0, 1}]
            /\ lock_status'[thread_lock] = IF q \in ThreadSection THEN 1 ELSE 0
            /\ lock_status'[kernel_memory_lock] = IF q \in MemorySection THEN 1 ELSE 0
            /\ lock_status'[semaphore_lock] = IF q \in SemSection THEN 1 ELSE 0
        BY <1>1, <1>2, <1>6, <2>1, <3>2 DEF LockTypeOK
      <3>6. lockcount' = IF q \in OpenPoints THEN 0 ELSE IF q \in MemorySection THEN 2 ELSE 1
        BY <2>1, <3>3
      <3>7. /\ intr_flag' \in BOOLEAN /\ release_intr' \in BOOLEAN /\ lock_warned' \in BOOLEAN
            /\ release_intr' /\ ~lock_warned'
        BY <3>3, Zenon
      <3>8. lockcount' \in Nat
        BY <3>3
      <3> QED
        BY <3>4, <3>5, <3>6, <3>7, <3>8, Zenon
    <2>2. CASE p \in OpenPoints /\ q \in SemSection /\ SimpleLockTry(semaphore_lock)
      <3>1. lock_status[semaphore_lock] = 0
        BY <1>6, <2>2
      <3>2. /\ intr_flag' = FALSE
            /\ lock_status' = [lock_status EXCEPT ![semaphore_lock] = 1]
            /\ lockcount' = lockcount + 1
            /\ release_intr' = IF lockcount = 0 THEN intr_flag ELSE release_intr
            /\ lock_warned' = lock_warned
        BY <1>1, <2>2, <3>1, LockTaken
      <3>3. intr_flag' = FALSE /\ lockcount' = 1 /\ release_intr' = TRUE /\ lock_warned' = FALSE
        BY <1>2, <1>6, <2>2, <3>2 DEF LockTypeOK
      <3>4. intr_flag' <=> q \in OpenPoints
        BY <2>2, <3>3
      <3>5. /\ lock_status' \in [Locks -> {0, 1}]
            /\ lock_status'[thread_lock] = IF q \in ThreadSection THEN 1 ELSE 0
            /\ lock_status'[kernel_memory_lock] = IF q \in MemorySection THEN 1 ELSE 0
            /\ lock_status'[semaphore_lock] = IF q \in SemSection THEN 1 ELSE 0
        BY <1>1, <1>2, <1>6, <2>2, <3>2 DEF LockTypeOK
      <3>6. lockcount' = IF q \in OpenPoints THEN 0 ELSE IF q \in MemorySection THEN 2 ELSE 1
        BY <2>2, <3>3
      <3>7. /\ intr_flag' \in BOOLEAN /\ release_intr' \in BOOLEAN /\ lock_warned' \in BOOLEAN
            /\ release_intr' /\ ~lock_warned'
        BY <3>3, Zenon
      <3>8. lockcount' \in Nat
        BY <3>3
      <3> QED
        BY <3>4, <3>5, <3>6, <3>7, <3>8, Zenon
    <2>3. CASE /\ p \in ThreadSection \ MemorySection /\ q \in MemorySection
               /\ SimpleLockTry(kernel_memory_lock)
      <3>1. lock_status[kernel_memory_lock] = 0
        BY <1>6, <2>3
      <3>2. /\ intr_flag' = FALSE
            /\ lock_status' = [lock_status EXCEPT ![kernel_memory_lock] = 1]
            /\ lockcount' = lockcount + 1
            /\ release_intr' = IF lockcount = 0 THEN intr_flag ELSE release_intr
            /\ lock_warned' = lock_warned
        BY <1>1, <2>3, <3>1, LockTaken
      <3>3. intr_flag' = FALSE /\ lockcount' = 2 /\ release_intr' = TRUE /\ lock_warned' = FALSE
        BY <1>2, <1>6, <2>3, <3>2 DEF LockTypeOK
      <3>4. intr_flag' <=> q \in OpenPoints
        BY <2>3, <3>3
      <3>5. /\ lock_status' \in [Locks -> {0, 1}]
            /\ lock_status'[thread_lock] = IF q \in ThreadSection THEN 1 ELSE 0
            /\ lock_status'[kernel_memory_lock] = IF q \in MemorySection THEN 1 ELSE 0
            /\ lock_status'[semaphore_lock] = IF q \in SemSection THEN 1 ELSE 0
        BY <1>1, <1>2, <1>6, <2>3, <3>2 DEF LockTypeOK
      <3>6. lockcount' = IF q \in OpenPoints THEN 0 ELSE IF q \in MemorySection THEN 2 ELSE 1
        BY <2>3, <3>3
      <3>7. /\ intr_flag' \in BOOLEAN /\ release_intr' \in BOOLEAN /\ lock_warned' \in BOOLEAN
            /\ release_intr' /\ ~lock_warned'
        BY <3>3, Zenon
      <3>8. lockcount' \in Nat
        BY <3>3
      <3> QED
        BY <3>4, <3>5, <3>6, <3>7, <3>8, Zenon
    <2>4. CASE /\ p \in MemorySection /\ q \in ThreadSection \ MemorySection
               /\ SimpleLockUnlock(kernel_memory_lock)
      <3>1. lock_status[kernel_memory_lock] = 1
        BY <1>6, <2>4
      <3>2. /\ intr_flag' = (intr_flag \/ (lockcount = 1 /\ release_intr))
            /\ lock_status' = [lock_status EXCEPT ![kernel_memory_lock] = 0]
            /\ lockcount' = lockcount - 1
            /\ UNCHANGED <<release_intr, lock_warned>>
        BY <1>1, <2>4, <3>1, LockReleased
      <3> QED
        BY <1>1, <1>2, <1>6, <2>4, <3>2 DEF LockTypeOK
    <2>5. CASE /\ p \in ThreadSection \ MemorySection /\ q \in OpenPoints
               /\ SimpleLockUnlock(thread_lock)
      <3>1. lock_status[thread_lock] = 1
        BY <1>6, <2>5
      <3>2. /\ intr_flag' = (intr_flag \/ (lockcount = 1 /\ release_intr))
            /\ lock_status' = [lock_status EXCEPT ![thread_lock] = 0]
            /\ lockcount' = lockcount - 1
            /\ UNCHANGED <<release_intr, lock_warned>>
        BY <1>1, <2>5, <3>1, LockReleased
      <3> QED
        BY <1>1, <1>2, <1>6, <2>5, <3>2 DEF LockTypeOK
    <2>6. CASE p \in SemSection /\ q \in OpenPoints /\ SimpleLockUnlock(semaphore_lock)
      <3>1. lock_status[semaphore_lock] = 1
        BY <1>6, <2>6
      <3>2. /\ intr_flag' = (intr_flag \/ (lockcount = 1 /\ release_intr))
            /\ lock_status' = [lock_status EXCEPT ![semaphore_lock] = 0]
            /\ lockcount' = lockcount - 1
            /\ UNCHANGED <<release_intr, lock_warned>>
        BY <1>1, <2>6, <3>1, LockReleased
      <3> QED
        BY <1>1, <1>2, <1>6, <2>6, <3>2 DEF LockTypeOK
    <2> QED
      BY <2>1, <2>2, <2>3, <2>4, <2>5, <2>6 DEF Move
  <1> QED
    BY <1>3, <1>5, <1>7 DEF LockTypeOK, LocksByPoint

(* The running thread, and the types of what its steps change.             *)
LEMMA Running ==
    ASSUME GateInv, NEW t \in Threads, current = t
    PROVE  /\ t # NULL /\ t \in Pooled /\ Me = t
           /\ vfs_sem \in Sems /\ vfs_sem # NULL
           /\ launchd \in Threads
           /\ pc \in [Threads -> Points]
           /\ arg \in [Threads -> Threads \cup Sems \cup {NULL}]
           /\ sleep \in [Threads -> {0, 1}]
           /\ current_waiting \in [Threads -> Sems \cup {NULL}]
           /\ count \in [Sems -> Nat]
  BY CurrentPooled, ThreadAssumption, GateAssumption DEF GateInv, GateType, KmtTypeOK

(* Outside of kmt_create and kmt_teardown nobody is inside of them, and    *)
(* the pool and the stacks are as before.                                  *)
LEMMA PoolUntouched ==
    ASSUME GateInv, NEW t \in Threads, NEW q, current = t, pc[t] \notin ThreadSection,
           q \notin ThreadSection, pc' = [pc EXCEPT ![t] = q],
           UNCHANGED <<mode, thread_pool, current_thread_index, current, stack>>
    PROVE  /\ pc[launchd] \notin ThreadSection /\ pc'[launchd] \notin ThreadSection
           /\ Pooled' = Pooled
           /\ PoolInv' /\ StackInv'
  <1>1. /\ \A u \in Threads : u # current => pc[u] \in OpenPoints
        /\ launchd \in Threads /\ pc \in [Threads -> Points]
    BY Running DEF GateInv, LocksByPoint
  <1>2. \A u \in Threads : pc[u] \notin ThreadSection /\ pc'[u] \notin ThreadSection
    BY <1>1 DEF OpenPoints, ThreadSection
  <1>3. Pooled' = Pooled /\ PoolConsistent'
    BY DEF Pooled, GateInv, PoolInv, PoolConsistent
  <1>4. PoolInv'
    BY <1>1, <1>2, <1>3 DEF GateInv, PoolInv, ThreadSection
  <1>5. \A u \in Pooled : stack[u] = "made"
    BY <1>1, <1>2 DEF GateInv, StackInv, ThreadSection
  <1>6. StackInv'
    BY <1>3, <1>5 DEF StackInv
  <1> QED
    BY <1>1, <1>2, <1>3, <1>4, <1>6

-----------------------------------------------------------------------------
(* The threads at the gate.                                                *)
LEMMA StepVfsCall ==
    ASSUME GateInv, NEW t \in Threads, VfsCall(t)
    PROVE  GateInv'
  <1>1. /\ current = t /\ pc[t] = "out"
        /\ SimpleLockTry(semaphore_lock)
        /\ pc' = [pc EXCEPT ![t] = "wait_test"]
        /\ arg' = [arg EXCEPT ![t] = vfs_sem]
        /\ ret' = [ret EXCEPT ![t] = 0]
        /\ UNCHANGED <<mode, thread_pool, current_thread_index, current, stack, sleep,
                       current_waiting, count, slot, in_vfs, parked>>
        /\ t \notin in_vfs \cup parked
    BY DEF VfsCall, SemWaitCall, Call, At, clientVars, dispatchVars, semVars
  <1>2. /\ t \in Pooled /\ t # NULL /\ vfs_sem \in Sems
        /\ pc \in [Threads -> Points]
        /\ arg \in [Threads -> Threads \cup Sems \cup {NULL}]
    BY <1>1, Running
  <1>3. Move("out", "wait_test")
    BY <1>1 DEF Move, SemSection, OpenPoints
  <1>4. LockTypeOK' /\ LocksByPoint'
    BY <1>1, <1>3, MoveLocks
  <1>5. GateType'
    BY <1>1, <1>2, <1>4 DEF GateInv, GateType, KmtTypeOK, Points
  <1>6. "out" \notin ThreadSection /\ "wait_test" \notin ThreadSection
    BY DEF ThreadSection
  <1>7. /\ pc[launchd] \notin ThreadSection /\ pc'[launchd] \notin ThreadSection
        /\ Pooled' = Pooled /\ PoolInv' /\ StackInv'
    BY <1>1, <1>6, PoolUntouched
  <1>8. ThreadInv'
    <2> SUFFICES ASSUME NEW u \in Threads PROVE ThreadOK(u)'
      BY DEF ThreadInv
    <2>1. ThreadOK(u)
      BY DEF GateInv, ThreadInv
    <2> QED
      BY <1>1, <1>2, <1>7, <2>1 DEF ThreadOK
  <1>9. Holders' = Holders
    BY <1>1, <1>2 DEF Holders
  <1>10. sleep[t] = 0
    BY <1>1, <1>2, Running DEF GateInv, ThreadInv, ThreadOK
  <1>11. UnitInv'
    BY <1>1, <1>2, <1>9, <1>10 DEF GateInv, UnitInv
  <1> QED
    BY <1>4, <1>5, <1>7, <1>8, <1>11 DEF GateInv

LEMMA StepVfsEnd ==
    ASSUME GateInv, NEW t \in Threads, VfsEnd(t)
    PROVE  GateInv'
  <1>1. /\ current = t /\ pc[t] = "out"
        /\ SimpleLockTry(semaphore_lock)
        /\ pc' = [pc EXCEPT ![t] = "signal_post"]
        /\ arg' = [arg EXCEPT ![t] = vfs_sem]
        /\ ret' = [ret EXCEPT ![t] = 0]
        /\ UNCHANGED <<mode, thread_pool, current_thread_index, current, stack, sleep,
                       current_waiting, count, slot, parked>>
        /\ t \in in_vfs /\ in_vfs' = in_vfs \ {t}
    BY DEF VfsEnd, SemSignalCall, Call, At, dispatchVars, semVars
  <1>2. /\ t \in Pooled /\ t # NULL /\ vfs_sem \in Sems
        /\ pc \in [Threads -> Points]
        /\ arg \in [Threads -> Threads \cup Sems \cup {NULL}]
    BY <1>1, Running
  <1>3. Move("out", "signal_post")
    BY <1>1 DEF Move, SemSection, OpenPoints
  <1>4. LockTypeOK' /\ LocksByPoint'
    BY <1>1, <1>3, MoveLocks
  <1>5. GateType'
    BY <1>1, <1>2, <1>4 DEF GateInv, GateType, KmtTypeOK, Points
  <1>6. "out" \notin ThreadSection /\ "signal_post" \notin ThreadSection
    BY DEF ThreadSection
  <1>7. /\ pc[launchd] \notin ThreadSection /\ pc'[launchd] \notin ThreadSection
        /\ Pooled' = Pooled /\ PoolInv' /\ StackInv'
    BY <1>1, <1>6, PoolUntouched
  <1>8. t \notin parked /\ sleep[t] = 0
    BY <1>1, <1>2, Running DEF GateInv, ThreadInv, ThreadOK
  <1>9. ThreadInv'
    <2> SUFFICES ASSUME NEW u \in Threads PROVE ThreadOK(u)'
      BY DEF ThreadInv
    <2>1. ThreadOK(u)
      BY DEF GateInv, ThreadInv
    <2> QED
      BY <1>1, <1>2, <1>7, <1>8, <2>1 DEF ThreadOK
  <1>10. Holders' = Holders
    BY <1>1, <1>2 DEF Holders, GateInv, GateType
  <1>11. t \in Holders
    BY <1>1 DEF Holders
  <1>12. UnitInv'
    BY <1>1, <1>2, <1>10, <1>11 DEF GateInv, UnitInv
  <1> QED
    BY <1>4, <1>5, <1>7, <1>9, <1>12 DEF GateInv

LEMMA StepVfsBegin ==
    ASSUME GateInv, NEW t \in Threads, VfsBegin(t)
    PROVE  GateInv'
  <1>1. /\ current = t /\ pc[t] = "wait_test"
        /\ count[arg[t]] # 0
        /\ count' = [count EXCEPT ![arg[t]] = @ - 1]
        /\ SimpleLockUnlock(semaphore_lock)
        /\ pc' = [pc EXCEPT ![t] = "out"]
        /\ arg' = [arg EXCEPT ![t] = NULL]
        /\ slot' = [slot EXCEPT ![t] = NoIndex]
        /\ ret' = [ret EXCEPT ![t] = 0]
        /\ UNCHANGED <<mode, thread_pool, current_thread_index, current, stack, sleep,
                       current_waiting, parked>>
        /\ in_vfs' = in_vfs \cup {t}
    BY DEF VfsBegin, WaitPass, Return, At, dispatchVars
  <1>2. /\ t \in Pooled /\ t # NULL /\ vfs_sem \in Sems
        /\ pc \in [Threads -> Points]
        /\ arg \in [Threads -> Threads \cup Sems \cup {NULL}]
        /\ count \in [Sems -> Nat] /\ sleep \in [Threads -> {0, 1}]
    BY <1>1, Running
  <1>3. Move("wait_test", "out")
    BY <1>1 DEF Move, SemSection, OpenPoints
  <1>4. LockTypeOK' /\ LocksByPoint'
    BY <1>1, <1>3, MoveLocks
  <1>5. /\ arg[t] = vfs_sem /\ sleep[t] = 0 /\ t \notin parked /\ t \notin in_vfs
    BY <1>1, <1>2 DEF GateInv, ThreadInv, ThreadOK
  <1>6. count[vfs_sem] = 1 /\ count' = [count EXCEPT ![vfs_sem] = 0] /\ Holders = {}
    <2>1. count[vfs_sem] = 1 /\ Holders = {}
      BY <1>1, <1>5 DEF GateInv, UnitInv
    <2> QED
      BY <1>1, <1>2, <1>5, <2>1
  <1>7. GateType'
    BY <1>1, <1>2, <1>4, <1>6 DEF GateInv, GateType, KmtTypeOK, Points
  <1>8. "out" \notin ThreadSection /\ "wait_test" \notin ThreadSection
    BY DEF ThreadSection
  <1>9. /\ pc[launchd] \notin ThreadSection /\ pc'[launchd] \notin ThreadSection
        /\ Pooled' = Pooled /\ PoolInv' /\ StackInv'
    BY <1>1, <1>8, PoolUntouched
  <1>10. ThreadInv'
    <2> SUFFICES ASSUME NEW u \in Threads PROVE ThreadOK(u)'
      BY DEF ThreadInv
    <2>1. ThreadOK(u)
      BY DEF GateInv, ThreadInv
    <2> QED
      BY <1>1, <1>2, <1>5, <1>9, <2>1 DEF ThreadOK
  <1>11. Holders' = {t}
    BY <1>1, <1>2, <1>6 DEF Holders
  <1>12. UnitInv'
    BY <1>2, <1>6, <1>11 DEF UnitInv
  <1> QED
    BY <1>4, <1>7, <1>9, <1>10, <1>12 DEF GateInv

LEMMA StepPark ==
    ASSUME GateInv, NEW t \in Threads, Park(t)
    PROVE  GateInv'
  <1>1. /\ current = t /\ pc[t] = "out" /\ t # launchd
        /\ t \notin in_vfs \cup parked
        /\ parked' = parked \cup {t}
        /\ UNCHANGED <<mode, thread_pool, current_thread_index, current, stack, sleep,
                       current_waiting, count, pc, arg, slot, ret, in_vfs,
                       intr_flag, lock_status, lockcount, release_intr, lock_warned>>
    BY DEF Park, At, dispatchVars, semVars, lockVars
  <1>2. GateType'
    BY <1>1 DEF GateInv, GateType, KmtTypeOK, LockTypeOK
  <1>3. LocksByPoint'
    BY <1>1 DEF GateInv, LocksByPoint, Here
  <1>4. Pooled' = Pooled /\ PoolConsistent'
    BY <1>1 DEF Pooled, GateInv, PoolInv, PoolConsistent
  <1>5. PoolInv'
    BY <1>1, <1>4 DEF GateInv, PoolInv
  <1>6. ThreadInv'
    BY <1>1, <1>4 DEF GateInv, ThreadInv, ThreadOK
  <1>7. StackInv'
    BY <1>1, <1>4 DEF GateInv, StackInv
  <1>8. UnitInv'
    BY <1>1 DEF GateInv, UnitInv, Holders
  <1> QED
    BY <1>2, <1>3, <1>5, <1>6, <1>7, <1>8 DEF GateInv

-----------------------------------------------------------------------------
(* The semaphore.                                                          *)
LEMMA StepWaitSleep ==
    ASSUME GateInv, NEW t \in Threads, WaitSleep(t), UNCHANGED clientVars
    PROVE  GateInv'
  <1>1. /\ current = t /\ pc[t] = "wait_test"
        /\ count[arg[t]] = 0
        /\ current_waiting' = [current_waiting EXCEPT ![Me] = arg[t]]
        /\ sleep' = [sleep EXCEPT ![Me] = 1]
        /\ SimpleLockUnlock(semaphore_lock)
        /\ pc' = [pc EXCEPT ![t] = "wait_spin"]
        /\ UNCHANGED <<mode, thread_pool, current_thread_index, current, stack,
                       count, arg, slot, ret, in_vfs, parked>>
    BY DEF WaitSleep, Goto, At, dispatchVars, clientVars
  <1>2. /\ t \in Pooled /\ t # NULL /\ Me = t /\ vfs_sem \in Sems
        /\ vfs_sem # NULL
        /\ pc \in [Threads -> Points]
        /\ sleep \in [Threads -> {0, 1}]
        /\ current_waiting \in [Threads -> Sems \cup {NULL}]
    BY <1>1, Running
  <1>3. Move("wait_test", "wait_spin")
    BY <1>1 DEF Move, SemSection, OpenPoints
  <1>4. LockTypeOK' /\ LocksByPoint'
    BY <1>1, <1>3, MoveLocks
  <1>5. /\ arg[t] = vfs_sem /\ t \notin parked /\ t \notin in_vfs
        /\ count[vfs_sem] = 0
    BY <1>1, <1>2 DEF GateInv, ThreadInv, ThreadOK
  <1>6. GateType'
    BY <1>1, <1>2, <1>4, <1>5 DEF GateInv, GateType, KmtTypeOK, Points
  <1>7. "wait_spin" \notin ThreadSection /\ "wait_test" \notin ThreadSection
    BY DEF ThreadSection
  <1>8. /\ pc[launchd] \notin ThreadSection /\ pc'[launchd] \notin ThreadSection
        /\ Pooled' = Pooled /\ PoolInv' /\ StackInv'
    BY <1>1, <1>7, PoolUntouched
  <1>9. ThreadInv'
    <2> SUFFICES ASSUME NEW u \in Threads PROVE ThreadOK(u)'
      BY DEF ThreadInv
    <2>1. ThreadOK(u)
      BY DEF GateInv, ThreadInv
    <2> QED
      BY <1>1, <1>2, <1>5, <1>8, <2>1 DEF ThreadOK
  <1>10. Holders' = Holders
    BY <1>1, <1>2 DEF Holders
  <1>11. UnitInv'
    BY <1>1, <1>5, <1>10 DEF GateInv, UnitInv
  <1> QED
    BY <1>4, <1>6, <1>8, <1>9, <1>11 DEF GateInv

LEMMA StepWaitSpin ==
    ASSUME GateInv, NEW t \in Threads, WaitSpin(t), UNCHANGED clientVars
    PROVE  GateInv'
  <1>1. /\ current = t /\ pc[t] = "wait_spin"
        /\ sleep[Me] = 0
        /\ SimpleLockTry(semaphore_lock)
        /\ pc' = [pc EXCEPT ![t] = "wait_test"]
        /\ UNCHANGED <<mode, thread_pool, current_thread_index, current, stack, sleep,
                       current_waiting, count, arg, slot, ret, in_vfs, parked>>
    BY DEF WaitSpin, Goto, At, dispatchVars, semVars, clientVars
  <1>2. /\ t \in Pooled /\ t # NULL /\ Me = t
        /\ pc \in [Threads -> Points]
    BY <1>1, Running
  <1>3. Move("wait_spin", "wait_test")
    BY <1>1 DEF Move, SemSection, OpenPoints
  <1>4. LockTypeOK' /\ LocksByPoint'
    BY <1>1, <1>3, MoveLocks
  <1>5. arg[t] = vfs_sem /\ t \notin parked /\ t \notin in_vfs
    BY <1>1, <1>2 DEF GateInv, ThreadInv, ThreadOK
  <1>6. GateType'
    BY <1>1, <1>2, <1>4 DEF GateInv, GateType, KmtTypeOK, Points
  <1>7. "wait_spin" \notin ThreadSection /\ "wait_test" \notin ThreadSection
    BY DEF ThreadSection
  <1>8. /\ pc[launchd] \notin ThreadSection /\ pc'[launchd] \notin ThreadSection
        /\ Pooled' = Pooled /\ PoolInv' /\ StackInv'
    BY <1>1, <1>7, PoolUntouched
  <1>9. ThreadInv'
    <2> SUFFICES ASSUME NEW u \in Threads PROVE ThreadOK(u)'
      BY DEF ThreadInv
    <2>1. ThreadOK(u)
      BY DEF GateInv, ThreadInv
    <2> QED
      BY <1>1, <1>2, <1>5, <1>8, <2>1 DEF ThreadOK
  <1>10. Holders' = Holders
    BY <1>1, <1>2 DEF Holders
  <1>11. UnitInv'
    BY <1>1, <1>2, <1>10 DEF GateInv, UnitInv
  <1> QED
    BY <1>4, <1>6, <1>8, <1>9, <1>11 DEF GateInv

LEMMA StepSignalPost ==
    ASSUME GateInv, NEW t \in Threads, SignalPost(t), UNCHANGED clientVars
    PROVE  GateInv'
  <1> DEFINE S == SleepersInPool(vfs_sem)
             w == thread_pool[Lowest(S)]
  <1>1. /\ current = t /\ pc[t] = "signal_post"
        /\ SimpleLockUnlock(semaphore_lock)
        /\ pc' = [pc EXCEPT ![t] = "out"]
        /\ arg' = [arg EXCEPT ![t] = NULL]
        /\ slot' = [slot EXCEPT ![t] = NoIndex]
        /\ ret' = [ret EXCEPT ![t] = 0]
        /\ UNCHANGED <<mode, thread_pool, current_thread_index, current, stack,
                       in_vfs, parked>>
    BY DEF SignalPost, OneMore, Return, At, dispatchVars, clientVars
  <1>2. /\ t \in Pooled /\ t # NULL /\ vfs_sem \in Sems
        /\ vfs_sem # NULL
        /\ pc \in [Threads -> Points]
        /\ arg \in [Threads -> Threads \cup Sems \cup {NULL}]
        /\ count \in [Sems -> Nat] /\ sleep \in [Threads -> {0, 1}]
        /\ current_waiting \in [Threads -> Sems \cup {NULL}]
    BY <1>1, Running
  <1>3. Move("signal_post", "out")
    BY <1>1 DEF Move, SemSection, OpenPoints
  <1>4. LockTypeOK' /\ LocksByPoint'
    BY <1>1, <1>3, MoveLocks
  <1>5. arg[t] = vfs_sem /\ sleep[t] = 0 /\ t \notin parked /\ t \notin in_vfs
    BY <1>1, <1>2 DEF GateInv, ThreadInv, ThreadOK
  <1>6. count[vfs_sem] = 0 /\ Holders = {t}
    BY <1>1 DEF GateInv, UnitInv, Holders
  <1>7. /\ count' = [count EXCEPT ![vfs_sem] = 1]
        /\ S # {} => /\ sleep' = [sleep EXCEPT ![w] = 0]
                     /\ current_waiting' = [current_waiting EXCEPT ![w] = NULL]
        /\ S = {} => UNCHANGED <<sleep, current_waiting>>
    BY <1>2, <1>5, <1>6 DEF SignalPost, OneMore
  <1>8. S # {} => w \in Pooled /\ w \in Threads /\ sleep[w] = 1
    <2> SUFFICES ASSUME S # {} PROVE w \in Pooled /\ w \in Threads /\ sleep[w] = 1
      OBVIOUS
    <2>1. S \in SUBSET Slots
      BY DEF SleepersInPool
    <2>2. Lowest(S) \in S
      BY <2>1, LowestIn
    <2>3. w # NULL /\ sleep[w] # 0 /\ Lowest(S) \in Slots
      BY <2>2 DEF SleepersInPool
    <2>4. w \in Threads
      BY <2>3 DEF GateInv, GateType, KmtTypeOK
    <2> QED
      BY <1>2, <2>3, <2>4 DEF Pooled
  <1>9. /\ sleep' \in [Threads -> {0, 1}]
        /\ current_waiting' \in [Threads -> Sems \cup {NULL}]
        /\ \A u \in Threads :
              \/ sleep'[u] = sleep[u] /\ current_waiting'[u] = current_waiting[u]
              \/ sleep[u] = 1 /\ sleep'[u] = 0 /\ current_waiting'[u] = NULL
    <2> HIDE DEF S, w
    <2>1. CASE S = {}
      <3>1. sleep' = sleep /\ current_waiting' = current_waiting
        BY <1>7, <2>1
      <3> QED
        BY <1>2, <3>1
    <2>2. CASE S # {}
      <3>1. /\ sleep' = [sleep EXCEPT ![w] = 0] /\ w \in Threads /\ sleep[w] = 1
            /\ current_waiting' = [current_waiting EXCEPT ![w] = NULL]
        BY <1>7, <1>8, <2>2
      <3> QED
        BY <1>2, <3>1
    <2> QED
      BY <2>1, <2>2
  <1>10. GateType'
    BY <1>1, <1>2, <1>4, <1>7, <1>9 DEF GateInv, GateType, KmtTypeOK, Points
  <1>11. "out" \notin ThreadSection /\ "signal_post" \notin ThreadSection
    BY DEF ThreadSection
  <1>12. /\ pc[launchd] \notin ThreadSection /\ pc'[launchd] \notin ThreadSection
         /\ Pooled' = Pooled /\ PoolInv' /\ StackInv'
    BY <1>1, <1>11, PoolUntouched
  <1>13. ThreadInv'
    <2> SUFFICES ASSUME NEW u \in Threads PROVE ThreadOK(u)'
      BY DEF ThreadInv
    <2>1. ThreadOK(u)
      BY DEF GateInv, ThreadInv
    <2> QED
      BY <1>1, <1>2, <1>5, <1>9, <1>12, <2>1 DEF ThreadOK
  <1>14. Holders' = {}
    BY <1>1, <1>2, <1>5, <1>6 DEF Holders
  <1>15. ASSUME NEW u \in Threads, sleep'[u] = 1
         PROVE  \E v \in Threads : pc'[v] \in {"wait_test", "wait_spin"} /\ sleep'[v] = 0
    <2>1. sleep[u] = 1
      BY <1>9, <1>15
    <2>2. u \in Pooled /\ current_waiting[u] = vfs_sem
      BY <2>1 DEF GateInv, ThreadInv, ThreadOK
    <2>3. S # {}
      BY <2>1, <2>2 DEF Pooled, SleepersInPool
    <2>4. w \in Threads /\ sleep[w] = 1 /\ sleep'[w] = 0
      BY <1>2, <1>7, <1>8, <2>3
    <2>5. pc[w] = "wait_spin" /\ pc'[w] = "wait_spin"
      BY <1>1, <1>2, <1>5, <2>4 DEF GateInv, ThreadInv, ThreadOK
    <2> QED
      BY <2>4, <2>5
  <1>16. UnitInv'
    BY <1>2, <1>7, <1>14, <1>15 DEF UnitInv
  <1> QED
    BY <1>4, <1>10, <1>12, <1>13, <1>16 DEF GateInv

-----------------------------------------------------------------------------
(* kmt_create and kmt_teardown: launchd is inside, all the others stand    *)
(* where interrupts are on.                                                *)
LEMMA LaunchdInside ==
    ASSUME GateInv, NEW t \in Threads, current = t, pc[t] \in ThreadSection
    PROVE  /\ t = launchd
           /\ arg[t] \in Threads /\ arg[t] # t /\ pc[arg[t]] = "out"
           /\ sleep[arg[t]] = 0 /\ current_waiting[arg[t]] = NULL
           /\ arg[t] \notin in_vfs /\ t \notin in_vfs /\ t \notin parked
           /\ \A u \in Threads : u # t => pc[u] \in OpenPoints
           /\ sleep[t] = 0
  <1>1. t = launchd /\ arg[t] \in Threads \ {launchd}
    BY DEF GateInv, PoolInv
  <1>2. \A u \in Threads : u # t => pc[u] \in OpenPoints
    BY DEF GateInv, LocksByPoint
  <1>3. pc[arg[t]] = "out"
    <2>1. CASE pc[t] = "create_find"
      BY <1>1, <2>1 DEF GateInv, PoolInv, ThreadInv, ThreadOK
    <2>2. CASE pc[t] \in {"create_stack", "create_make"}
      BY <1>1, <2>2 DEF GateInv, PoolInv
    <2>3. CASE pc[t] \in {"tear_find", "tear_free", "tear_drop"}
      BY <1>1, <2>3 DEF GateInv, PoolInv, ThreadInv, ThreadOK
    <2> QED
      BY <2>1, <2>2, <2>3 DEF ThreadSection
  <1>4. sleep \in [Threads -> {0, 1}]
    BY Running
  <1>5. /\ sleep[arg[t]] = 0 /\ current_waiting[arg[t]] = NULL /\ sleep[t] = 0
    BY <1>1, <1>3, <1>4 DEF GateInv, ThreadInv, ThreadOK, ThreadSection
  <1>6. arg[t] \notin in_vfs /\ t \notin in_vfs /\ t \notin parked
    BY <1>1 DEF GateInv, GateType, ThreadInv, ThreadOK
  <1> QED
    BY <1>1, <1>2, <1>3, <1>5, <1>6

(* Steps of these two operations leave the gate as it is.                  *)
LEMMA GateUntouched ==
    ASSUME GateInv, NEW t \in Threads, NEW q, current = t,
           pc[t] \in ThreadSection \cup {"out"}, q \in ThreadSection \cup {"out"},
           pc' = [pc EXCEPT ![t] = q],
           UNCHANGED <<sleep, current_waiting, count, in_vfs>>
    PROVE  UnitInv'
  <1>1. pc \in [Threads -> Points]
    BY Running
  <1>2. Holders' = Holders
    BY <1>1 DEF Holders, ThreadSection
  <1>3. \A u \in Threads : pc'[u] \in {"wait_test", "wait_spin"} <=> pc[u] \in {"wait_test", "wait_spin"}
    BY <1>1 DEF ThreadSection
  <1> QED
    BY <1>2, <1>3 DEF GateInv, UnitInv

LEMMA StepLaunchdCreate ==
    ASSUME GateInv, NEW u \in Threads, LaunchdCreate(u)
    PROVE  GateInv'
  <1> DEFINE t == launchd
  <1>1. /\ t \in Threads /\ current = t /\ pc[t] = "out"
        /\ SimpleLockTry(thread_lock)
        /\ pc' = [pc EXCEPT ![t] = "create_find"]
        /\ arg' = [arg EXCEPT ![t] = u]
        /\ ret' = [ret EXCEPT ![t] = 0]
        /\ UNCHANGED <<mode, thread_pool, current_thread_index, current, stack, sleep,
                       current_waiting, count, slot, in_vfs, parked>>
        /\ u \notin Pooled /\ t \notin in_vfs
    BY ThreadAssumption
    DEF LaunchdCreate, CreateCall, Call, At, clientVars, dispatchVars, semVars
  <1> HIDE DEF t
  <1>2. /\ t \in Pooled /\ t # NULL
        /\ pc \in [Threads -> Points]
        /\ arg \in [Threads -> Threads \cup Sems \cup {NULL}]
    BY <1>1, Running
  <1>3. Move("out", "create_find")
    BY <1>1 DEF Move, ThreadSection, MemorySection, OpenPoints
  <1>4. LockTypeOK' /\ LocksByPoint'
    BY <1>1, <1>3, MoveLocks
  <1>5. GateType'
    BY <1>1, <1>2, <1>4 DEF GateInv, GateType, KmtTypeOK, Points
  <1>6. Pooled' = Pooled /\ PoolConsistent'
    BY <1>1 DEF Pooled, GateInv, PoolInv, PoolConsistent
  <1>7. t = launchd /\ u # t
    BY <1>1, <1>2 DEF t
  <1>8. PoolInv'
    BY <1>1, <1>2, <1>6, <1>7 DEF GateInv, PoolInv, ThreadSection
  <1>9. ThreadInv'
    <2>1. u \notin in_vfs
      BY <1>1 DEF GateInv, ThreadInv, ThreadOK
    <2> SUFFICES ASSUME NEW v \in Threads PROVE ThreadOK(v)'
      BY DEF ThreadInv
    <2>2. ThreadOK(v)
      BY DEF GateInv, ThreadInv
    <2>3. t \notin parked
      BY <1>7 DEF GateInv, GateType
    <2> QED
      BY <1>1, <1>2, <1>6, <1>7, <2>1, <2>2, <2>3 DEF ThreadOK
  <1>10. StackInv'
    BY <1>1, <1>2, <1>6, <1>7 DEF GateInv, StackInv
  <1>11. UnitInv'
    <2>1. pc[t] \in ThreadSection \cup {"out"} /\ "create_find" \in ThreadSection \cup {"out"}
      BY <1>1 DEF ThreadSection
    <2> QED
      BY <1>1, <2>1, GateUntouched
  <1> QED
    BY <1>4, <1>5, <1>8, <1>9, <1>10, <1>11 DEF GateInv

LEMMA StepLaunchdTeardown ==
    ASSUME GateInv, NEW u \in Threads, LaunchdTeardown(u)
    PROVE  GateInv'
  <1> DEFINE t == launchd
  <1>1. /\ t \in Threads /\ current = t /\ pc[t] = "out"
        /\ SimpleLockTry(thread_lock)
        /\ pc' = [pc EXCEPT ![t] = "tear_find"]
        /\ arg' = [arg EXCEPT ![t] = u]
        /\ ret' = [ret EXCEPT ![t] = 0]
        /\ UNCHANGED <<mode, thread_pool, current_thread_index, current, stack, sleep,
                       current_waiting, count, slot, in_vfs, parked>>
        /\ u \in parked \cap Pooled /\ t \notin in_vfs
    BY ThreadAssumption
    DEF LaunchdTeardown, Finished, TeardownCall, Call, At, clientVars, dispatchVars, semVars
  <1> HIDE DEF t
  <1>2. /\ t \in Pooled /\ t # NULL
        /\ pc \in [Threads -> Points]
        /\ arg \in [Threads -> Threads \cup Sems \cup {NULL}]
    BY <1>1, Running
  <1>3. Move("out", "tear_find")
    BY <1>1 DEF Move, ThreadSection, MemorySection, OpenPoints
  <1>4. LockTypeOK' /\ LocksByPoint'
    BY <1>1, <1>3, MoveLocks
  <1>5. GateType'
    BY <1>1, <1>2, <1>4 DEF GateInv, GateType, KmtTypeOK, Points
  <1>6. Pooled' = Pooled /\ PoolConsistent'
    BY <1>1 DEF Pooled, GateInv, PoolInv, PoolConsistent
  <1>7. t = launchd /\ u # t /\ t \notin parked
    BY <1>1 DEF t, GateInv, GateType
  <1>8. PoolInv'
    BY <1>1, <1>2, <1>6, <1>7 DEF GateInv, PoolInv, ThreadSection
  <1>9. ThreadInv'
    <2>1. u \notin in_vfs
      BY <1>1 DEF GateInv, ThreadInv, ThreadOK
    <2> SUFFICES ASSUME NEW v \in Threads PROVE ThreadOK(v)'
      BY DEF ThreadInv
    <2>2. ThreadOK(v)
      BY DEF GateInv, ThreadInv
    <2> QED
      BY <1>1, <1>2, <1>6, <1>7, <2>1, <2>2 DEF ThreadOK
  <1>10. StackInv'
    BY <1>1, <1>2, <1>6, <1>7 DEF GateInv, StackInv
  <1>11. UnitInv'
    <2>1. pc[t] \in ThreadSection \cup {"out"} /\ "tear_find" \in ThreadSection \cup {"out"}
      BY <1>1 DEF ThreadSection
    <2> QED
      BY <1>1, <2>1, GateUntouched
  <1> QED
    BY <1>4, <1>5, <1>8, <1>9, <1>10, <1>11 DEF GateInv

LEMMA StepCreateFull ==
    ASSUME GateInv, NEW t \in Threads, CreateFull(t), UNCHANGED clientVars
    PROVE  GateInv'
  <1>1. /\ current = t /\ pc[t] = "create_find"
        /\ SimpleLockUnlock(thread_lock)
        /\ pc' = [pc EXCEPT ![t] = "out"]
        /\ arg' = [arg EXCEPT ![t] = NULL]
        /\ slot' = [slot EXCEPT ![t] = NoIndex]
        /\ ret' = [ret EXCEPT ![t] = -1]
        /\ UNCHANGED <<mode, thread_pool, current_thread_index, current, stack, sleep,
                       current_waiting, count, in_vfs, parked>>
    BY DEF CreateFull, Return, At, dispatchVars, semVars, clientVars
  <1>2. /\ t \in Pooled /\ t # NULL
        /\ pc \in [Threads -> Points]
        /\ arg \in [Threads -> Threads \cup Sems \cup {NULL}]
    BY <1>1, Running
  <1>3. Move("create_find", "out")
    BY <1>1 DEF Move, ThreadSection, MemorySection, OpenPoints
  <1>4. LockTypeOK' /\ LocksByPoint'
    BY <1>1, <1>3, MoveLocks
  <1>5. pc[t] \in ThreadSection
    BY <1>1 DEF ThreadSection
  <1>6. /\ t = launchd /\ \A u \in Threads : u # t => pc[u] \in OpenPoints
    BY <1>1, <1>5, LaunchdInside
  <1>7. GateType'
    BY <1>1, <1>2, <1>4 DEF GateInv, GateType, KmtTypeOK, Points
  <1>8. Pooled' = Pooled /\ PoolConsistent'
    BY <1>1 DEF Pooled, GateInv, PoolInv, PoolConsistent
  <1>9. PoolInv'
    BY <1>1, <1>2, <1>6, <1>8 DEF GateInv, PoolInv, ThreadSection, OpenPoints
  <1>10. ThreadInv'
    BY <1>1, <1>2, <1>6, <1>8 DEF GateInv, ThreadInv, ThreadOK, ThreadSection
  <1>11. StackInv'
    BY <1>1, <1>2, <1>6, <1>8 DEF GateInv, StackInv
  <1>12. UnitInv'
    <2>1. pc[t] \in ThreadSection \cup {"out"} /\ "out" \in ThreadSection \cup {"out"}
      BY <1>1, <1>5 DEF ThreadSection
    <2> QED
      BY <1>1, <1>5, <2>1, GateUntouched
  <1> QED
    BY <1>4, <1>7, <1>9, <1>10, <1>11, <1>12 DEF GateInv

LEMMA StepCreateFind ==
    ASSUME GateInv, NEW t \in Threads, CreateFind(t), UNCHANGED clientVars
    PROVE  GateInv'
  <1> DEFINE i == Lowest(Free)
  <1>1. /\ current = t /\ pc[t] = "create_find"
        /\ SimpleLockTry(kernel_memory_lock)
        /\ pc' = [pc EXCEPT ![t] = "create_stack"]
        /\ slot' = [slot EXCEPT ![t] = i]
        /\ thread_pool' = [thread_pool EXCEPT ![i] = arg[t]]
        /\ Free # {}
        /\ UNCHANGED <<mode, current_thread_index, current, stack, sleep,
                       current_waiting, count, arg, ret, in_vfs, parked>>
    BY DEF CreateFind, Goto, At, dispatchVars, semVars, clientVars
  <1>2. i \in Slots /\ thread_pool[i] = NULL
    BY <1>1, LowestIn DEF Free
  <1> HIDE DEF i
  <1>3. /\ t \in Pooled /\ t # NULL
        /\ pc \in [Threads -> Points]
        /\ thread_pool \in [Slots -> Threads \cup {NULL}]
        /\ arg[t] \notin Pooled
    BY <1>1, Running DEF GateInv, GateType, KmtTypeOK, PoolInv, ThreadSection
  <1>4. Move("create_find", "create_stack")
    BY <1>1 DEF Move, ThreadSection, MemorySection
  <1>5. LockTypeOK' /\ LocksByPoint'
    BY <1>1, <1>4, MoveLocks
  <1>6. pc[t] \in ThreadSection
    BY <1>1 DEF ThreadSection
  <1>7. /\ t = launchd /\ arg[t] \in Threads /\ arg[t] # t /\ pc[arg[t]] = "out"
        /\ arg[t] \notin in_vfs /\ arg[t] # NULL
        /\ \A u \in Threads : u # t => pc[u] \in OpenPoints
    BY <1>1, <1>6, LaunchdInside, ThreadAssumption
  <1>8. GateType'
    BY <1>1, <1>2, <1>3, <1>5, <1>7 DEF GateInv, GateType, KmtTypeOK, Points
  <1>9. Pooled' = Pooled \cup {arg[t]}
    BY <1>1, <1>2, <1>3, <1>7 DEF Pooled
  <1>10. PoolConsistent'
    BY <1>1, <1>2, <1>3, <1>7 DEF Pooled, GateInv, PoolInv, PoolConsistent
  <1>11. PoolInv'
    BY <1>1, <1>3, <1>7, <1>9, <1>10 DEF GateInv, PoolInv, ThreadSection, OpenPoints
  <1>12. ThreadInv'
    BY <1>1, <1>3, <1>7, <1>9 DEF GateInv, ThreadInv, ThreadOK, ThreadSection
  <1>13. StackInv'
    BY <1>1, <1>3, <1>7, <1>9 DEF GateInv, StackInv
  <1>14. UnitInv'
    <2>1. pc[t] \in ThreadSection \cup {"out"} /\ "create_stack" \in ThreadSection \cup {"out"}
      BY <1>1, <1>6 DEF ThreadSection
    <2> QED
      BY <1>1, <1>6, <2>1, GateUntouched
  <1> QED
    BY <1>5, <1>8, <1>11, <1>12, <1>13, <1>14 DEF GateInv

LEMMA StepCreateStack ==
    ASSUME GateInv, NEW t \in Threads, CreateStack(t), UNCHANGED clientVars
    PROVE  GateInv'
  <1>1. /\ current = t /\ pc[t] = "create_stack"
        /\ SimpleLockUnlock(kernel_memory_lock)
        /\ pc' = [pc EXCEPT ![t] = "create_make"]
        /\ stack' = [stack EXCEPT ![arg[t]] = "raw"]
        /\ UNCHANGED <<mode, thread_pool, current_thread_index, current, sleep,
                       current_waiting, count, arg, slot, ret, in_vfs, parked>>
    BY DEF CreateStack, Goto, At, dispatchVars, semVars, clientVars
  <1>2. /\ t \in Pooled /\ t # NULL
        /\ pc \in [Threads -> Points]
    BY <1>1, Running
  <1>3. Move("create_stack", "create_make")
    BY <1>1 DEF Move, ThreadSection, MemorySection
  <1>4. LockTypeOK' /\ LocksByPoint'
    BY <1>1, <1>3, MoveLocks
  <1>5. pc[t] \in ThreadSection
    BY <1>1 DEF ThreadSection
  <1>6. /\ t = launchd /\ arg[t] \in Threads /\ arg[t] # t /\ pc[arg[t]] = "out"
        /\ \A u \in Threads : u # t => pc[u] \in OpenPoints
    BY <1>1, <1>5, LaunchdInside
  <1>7. GateType'
    BY <1>1, <1>2, <1>4, <1>6 DEF GateInv, GateType, KmtTypeOK, Points
  <1>8. Pooled' = Pooled /\ PoolConsistent'
    BY <1>1 DEF Pooled, GateInv, PoolInv, PoolConsistent
  <1>9. PoolInv'
    BY <1>1, <1>2, <1>6, <1>8 DEF GateInv, PoolInv, ThreadSection, OpenPoints
  <1>10. ThreadInv'
    BY <1>1, <1>2, <1>6, <1>8 DEF GateInv, ThreadInv, ThreadOK, ThreadSection
  <1>11. StackInv'
    BY <1>1, <1>2, <1>6, <1>8 DEF GateInv, GateType, KmtTypeOK, StackInv
  <1>12. UnitInv'
    <2>1. pc[t] \in ThreadSection \cup {"out"} /\ "create_make" \in ThreadSection \cup {"out"}
      BY <1>1, <1>5 DEF ThreadSection
    <2> QED
      BY <1>1, <1>5, <2>1, GateUntouched
  <1> QED
    BY <1>4, <1>7, <1>9, <1>10, <1>11, <1>12 DEF GateInv

(* The new thread was not asleep, so clearing its fields changes nothing.  *)
LEMMA StepStarted ==
    ASSUME GateInv, NEW t \in Threads, Started(t)
    PROVE  GateInv'
  <1> DEFINE u == arg[t]
  <1>1. /\ current = t /\ pc[t] = "create_make"
        /\ SimpleLockUnlock(thread_lock)
        /\ pc' = [pc EXCEPT ![t] = "out", ![u] = "out"]
        /\ arg' = [arg EXCEPT ![t] = NULL, ![u] = NULL]
        /\ slot' = [slot EXCEPT ![t] = NoIndex, ![u] = NoIndex]
        /\ ret' = [ret EXCEPT ![t] = 0, ![u] = 0]
        /\ stack' = [stack EXCEPT ![u] = "made"]
        /\ sleep' = [sleep EXCEPT ![u] = 0]
        /\ current_waiting' = [current_waiting EXCEPT ![u] = NULL]
        /\ parked' = parked \ {u}
        /\ UNCHANGED <<mode, thread_pool, current_thread_index, current, count, in_vfs>>
    BY DEF Started, CreateMake, ReturnAndRestart, At, dispatchVars
  <1>2. /\ t \in Pooled /\ t # NULL
        /\ pc \in [Threads -> Points]
        /\ arg \in [Threads -> Threads \cup Sems \cup {NULL}]
        /\ sleep \in [Threads -> {0, 1}]
        /\ current_waiting \in [Threads -> Sems \cup {NULL}]
    BY <1>1, Running
  <1>3. pc[t] \in ThreadSection
    BY <1>1 DEF ThreadSection
  <1>4. /\ t = launchd /\ u \in Threads /\ u # t /\ pc[u] = "out"
        /\ sleep[u] = 0 /\ current_waiting[u] = NULL
        /\ \A v \in Threads : v # t => pc[v] \in OpenPoints
    BY <1>1, <1>3, LaunchdInside
  <1>5. u \in Pooled
    BY <1>1, <1>4 DEF GateInv, PoolInv
  <1> HIDE DEF u
  <1>6. pc' = [pc EXCEPT ![t] = "out"] /\ UNCHANGED <<sleep, current_waiting>>
    BY <1>1, <1>2, <1>4
  <1>7. Move("create_make", "out")
    BY <1>1 DEF Move, ThreadSection, MemorySection, OpenPoints
  <1>8. LockTypeOK' /\ LocksByPoint'
    BY <1>1, <1>6, <1>7, MoveLocks
  <1>9. GateType'
    BY <1>1, <1>2, <1>4, <1>6, <1>8 DEF GateInv, GateType, KmtTypeOK, Points
  <1>10. Pooled' = Pooled /\ PoolConsistent'
    BY <1>1, <1>4 DEF Pooled, GateInv, PoolInv, PoolConsistent
  <1>11. PoolInv'
    BY <1>1, <1>2, <1>4, <1>6, <1>10 DEF GateInv, PoolInv, ThreadSection, OpenPoints
  <1>12. ThreadInv'
    <2> SUFFICES ASSUME NEW v \in Threads PROVE ThreadOK(v)'
      BY DEF ThreadInv
    <2>1. ThreadOK(v)
      BY DEF GateInv, ThreadInv
    <2> QED
      BY <1>1, <1>2, <1>4, <1>5, <1>6, <1>10, <2>1 DEF ThreadOK, ThreadSection
  <1>13. StackInv'
    BY <1>1, <1>2, <1>4, <1>5, <1>6, <1>10 DEF u, GateInv, GateType, KmtTypeOK, StackInv
  <1>14. UnitInv'
    <2>1. pc[t] \in ThreadSection \cup {"out"} /\ "out" \in ThreadSection \cup {"out"}
      BY <1>3
    <2> QED
      BY <1>1, <1>6, <2>1, GateUntouched
  <1> QED
    BY <1>8, <1>9, <1>11, <1>12, <1>13, <1>14 DEF GateInv

(* launchd finds the thread it kills, in a slot that is not its own.       *)
LEMMA VictimFound ==
    ASSUME GateInv, NEW t \in Threads, current = t, pc[t] = "tear_find"
    PROVE  /\ arg[t] \in Pooled
           /\ TeardownSlot(t) \in Slots /\ thread_pool[TeardownSlot(t)] = arg[t]
           /\ ~Panics(t)
  <1> DEFINE S == {i \in Slots : thread_pool[i] = arg[t]}
  <1>1. t # NULL /\ Me = t
    BY Running
  <1>2. t = launchd /\ arg[t] # t
    BY LaunchdInside DEF ThreadSection
  <1>3. arg[t] \in Pooled
    BY <1>2 DEF GateInv, PoolInv
  <1>4. S \in SUBSET Slots /\ S # {}
    BY <1>3 DEF Pooled
  <1>5. Lowest(S) \in S
    BY <1>4, LowestIn
  <1>6. TeardownSlot(t) \in Slots /\ thread_pool[TeardownSlot(t)] = arg[t]
    BY <1>5 DEF TeardownSlot
  <1>7. stack[arg[t]] = "made"
    BY <1>2, <1>3 DEF GateInv, StackInv
  <1> QED
    BY <1>1, <1>2, <1>3, <1>6, <1>7 DEF Me, Panics

LEMMA StepTeardownEarlyReturns ==
    ASSUME GateInv, NEW t \in Threads, TeardownMissing(t) \/ TeardownPanic(t)
    PROVE  FALSE
  <1>1. current = t /\ pc[t] = "tear_find"
    BY DEF TeardownMissing, TeardownPanic, At
  <1>2. arg[t] \in Pooled /\ ~Panics(t)
    BY <1>1, VictimFound
  <1> QED
    BY <1>2 DEF TeardownMissing, TeardownPanic

LEMMA StepTeardownFind ==
    ASSUME GateInv, NEW t \in Threads, TeardownFind(t), UNCHANGED clientVars
    PROVE  GateInv'
  <1> DEFINE i == TeardownSlot(t)
  <1>1. /\ current = t /\ pc[t] = "tear_find"
        /\ SimpleLockTry(kernel_memory_lock)
        /\ pc' = [pc EXCEPT ![t] = "tear_free"]
        /\ slot' = [slot EXCEPT ![t] = i]
        /\ UNCHANGED <<mode, thread_pool, current_thread_index, current, stack, sleep,
                       current_waiting, count, arg, ret, in_vfs, parked>>
    BY DEF TeardownFind, Goto, At, dispatchVars, semVars, clientVars
  <1>2. i \in Slots /\ thread_pool[i] = arg[t]
    BY <1>1, VictimFound
  <1> HIDE DEF i
  <1>3. /\ t \in Pooled /\ t # NULL
        /\ pc \in [Threads -> Points]
    BY <1>1, Running
  <1>4. Move("tear_find", "tear_free")
    BY <1>1 DEF Move, ThreadSection, MemorySection
  <1>5. LockTypeOK' /\ LocksByPoint'
    BY <1>1, <1>4, MoveLocks
  <1>6. pc[t] \in ThreadSection
    BY <1>1 DEF ThreadSection
  <1>7. /\ t = launchd /\ arg[t] \in Threads /\ arg[t] # t /\ pc[arg[t]] = "out"
        /\ \A u \in Threads : u # t => pc[u] \in OpenPoints
    BY <1>1, <1>6, LaunchdInside
  <1>8. GateType'
    BY <1>1, <1>2, <1>3, <1>5 DEF GateInv, GateType, KmtTypeOK, Points
  <1>9. slot'[t] = i
    BY <1>1 DEF GateInv, GateType, KmtTypeOK
  <1>10. Pooled' = Pooled /\ PoolConsistent'
    BY <1>1 DEF Pooled, GateInv, PoolInv, PoolConsistent
  <1>11. PoolInv'
    BY <1>1, <1>2, <1>3, <1>7, <1>9, <1>10 DEF GateInv, PoolInv, ThreadSection, OpenPoints
  <1>12. ThreadInv'
    BY <1>1, <1>3, <1>7, <1>10 DEF GateInv, ThreadInv, ThreadOK, ThreadSection
  <1>13. StackInv'
    BY <1>1, <1>3, <1>7, <1>10 DEF GateInv, StackInv
  <1>14. UnitInv'
    <2>1. pc[t] \in ThreadSection \cup {"out"} /\ "tear_free" \in ThreadSection \cup {"out"}
      BY <1>1 DEF ThreadSection
    <2> QED
      BY <1>1, <2>1, GateUntouched
  <1> QED
    BY <1>5, <1>8, <1>11, <1>12, <1>13, <1>14 DEF GateInv

LEMMA StepTeardownFree ==
    ASSUME GateInv, NEW t \in Threads, TeardownFree(t), UNCHANGED clientVars
    PROVE  GateInv'
  <1>1. /\ current = t /\ pc[t] = "tear_free"
        /\ SimpleLockUnlock(kernel_memory_lock)
        /\ pc' = [pc EXCEPT ![t] = "tear_drop"]
        /\ stack' = [stack EXCEPT ![arg[t]] = "none"]
        /\ UNCHANGED <<mode, thread_pool, current_thread_index, current, sleep,
                       current_waiting, count, arg, slot, ret, in_vfs, parked>>
    BY DEF TeardownFree, Goto, At, dispatchVars, semVars, clientVars
  <1>2. /\ t \in Pooled /\ t # NULL
        /\ pc \in [Threads -> Points]
    BY <1>1, Running
  <1>3. Move("tear_free", "tear_drop")
    BY <1>1 DEF Move, ThreadSection, MemorySection
  <1>4. LockTypeOK' /\ LocksByPoint'
    BY <1>1, <1>3, MoveLocks
  <1>5. pc[t] \in ThreadSection
    BY <1>1 DEF ThreadSection
  <1>6. /\ t = launchd /\ arg[t] \in Threads /\ arg[t] # t /\ pc[arg[t]] = "out"
        /\ \A u \in Threads : u # t => pc[u] \in OpenPoints
    BY <1>1, <1>5, LaunchdInside
  <1>7. GateType'
    BY <1>1, <1>2, <1>4, <1>6 DEF GateInv, GateType, KmtTypeOK, Points
  <1>8. Pooled' = Pooled /\ PoolConsistent'
    BY <1>1 DEF Pooled, GateInv, PoolInv, PoolConsistent
  <1>9. PoolInv'
    BY <1>1, <1>2, <1>6, <1>8 DEF GateInv, PoolInv, ThreadSection, OpenPoints
  <1>10. ThreadInv'
    BY <1>1, <1>2, <1>6, <1>8 DEF GateInv, ThreadInv, ThreadOK, ThreadSection
  <1>11. StackInv'
    BY <1>1, <1>2, <1>6, <1>8 DEF GateInv, GateType, KmtTypeOK, StackInv
  <1>12. UnitInv'
    <2>1. pc[t] \in ThreadSection \cup {"out"} /\ "tear_drop" \in ThreadSection \cup {"out"}
      BY <1>1 DEF ThreadSection
    <2> QED
      BY <1>1, <2>1, GateUntouched
  <1> QED
    BY <1>4, <1>7, <1>9, <1>10, <1>11, <1>12 DEF GateInv

LEMMA StepTeardownDrop ==
    ASSUME GateInv, NEW t \in Threads, TeardownDrop(t), UNCHANGED clientVars
    PROVE  GateInv'
  <1> DEFINE i == slot[t]
  <1>1. /\ current = t /\ pc[t] = "tear_drop"
        /\ SimpleLockUnlock(thread_lock)
        /\ pc' = [pc EXCEPT ![t] = "out"]
        /\ arg' = [arg EXCEPT ![t] = NULL]
        /\ slot' = [slot EXCEPT ![t] = NoIndex]
        /\ ret' = [ret EXCEPT ![t] = 0]
        /\ thread_pool' = [thread_pool EXCEPT ![i] = NULL]
        /\ UNCHANGED <<mode, current_thread_index, current, stack, sleep,
                       current_waiting, count, in_vfs, parked>>
    BY DEF TeardownDrop, Return, At, dispatchVars, semVars, clientVars
  <1>2. pc[t] \in ThreadSection
    BY <1>1 DEF ThreadSection
  <1>3. /\ t = launchd /\ arg[t] \in Threads /\ arg[t] # t /\ pc[arg[t]] = "out"
        /\ arg[t] \notin in_vfs
        /\ \A u \in Threads : u # t => pc[u] \in OpenPoints
    BY <1>1, <1>2, LaunchdInside
  <1>4. /\ t \in Pooled /\ t # NULL /\ Me = t
        /\ pc \in [Threads -> Points]
        /\ arg \in [Threads -> Threads \cup Sems \cup {NULL}]
        /\ thread_pool \in [Slots -> Threads \cup {NULL}]
    BY <1>1, Running DEF GateInv, GateType, KmtTypeOK
  <1>5. i \in Slots /\ thread_pool[i] = arg[t] /\ arg[t] # NULL /\ i # current_thread_index
    BY <1>1, <1>3, <1>4, ThreadAssumption DEF GateInv, PoolInv, Me
  <1> HIDE DEF i
  <1>6. Move("tear_drop", "out")
    BY <1>1 DEF Move, ThreadSection, MemorySection, OpenPoints
  <1>7. LockTypeOK' /\ LocksByPoint'
    BY <1>1, <1>6, MoveLocks
  <1>8. GateType'
    BY <1>1, <1>4, <1>5, <1>7 DEF GateInv, GateType, KmtTypeOK, Points
  <1>9. Pooled' = Pooled \ {arg[t]}
    BY <1>1, <1>4, <1>5 DEF Pooled, GateInv, PoolInv, PoolConsistent
  <1>10. PoolConsistent'
    BY <1>1, <1>4, <1>5 DEF GateInv, PoolInv, PoolConsistent
  <1>11. PoolInv'
    BY <1>1, <1>3, <1>4, <1>9, <1>10 DEF GateInv, PoolInv, ThreadSection, OpenPoints
  <1>12. ThreadInv'
    BY <1>1, <1>3, <1>4, <1>9 DEF GateInv, ThreadInv, ThreadOK, ThreadSection
  <1>13. StackInv'
    BY <1>1, <1>3, <1>4, <1>9 DEF GateInv, StackInv
  <1>14. UnitInv'
    <2>1. pc[t] \in ThreadSection \cup {"out"} /\ "out" \in ThreadSection \cup {"out"}
      BY <1>1 DEF ThreadSection
    <2> QED
      BY <1>1, <2>1, GateUntouched
  <1> QED
    BY <1>7, <1>8, <1>11, <1>12, <1>13, <1>14 DEF GateInv

-----------------------------------------------------------------------------
(* The timer.                                                              *)
LEMMA StepDispatch ==
    ASSUME GateInv, NEW i \in Slots, Dispatch(i), UNCHANGED clientVars
    PROVE  GateInv'
  <1>1. /\ intr_flag
        /\ thread_pool[i] # NULL
        /\ current_thread_index' = i /\ current' = thread_pool[i]
        /\ UNCHANGED <<mode, thread_pool, stack, sleep, current_waiting, count, pc, arg,
                       slot, ret, in_vfs, parked,
                       intr_flag, lock_status, lockcount, release_intr, lock_warned>>
    BY DEF Dispatch, Runnable, semVars, lockVars, clientVars
  <1>2. thread_pool[i] \in Threads /\ NULL \notin Threads
    BY <1>1, ThreadAssumption DEF GateInv, GateType, KmtTypeOK
  <1>3. Here \in OpenPoints
    BY <1>1 DEF GateInv, LocksByPoint
  <1>4. \A t \in Threads : pc[t] \in OpenPoints
    BY <1>2, <1>3 DEF GateInv, LocksByPoint, Here
  <1>5. Here' \in OpenPoints
    BY <1>1, <1>2, <1>4 DEF Here
  <1>6. LocksByPoint'
    <2>1. \A p \in OpenPoints : p \notin ThreadSection /\ p \notin MemorySection /\ p \notin SemSection
      BY DEF OpenPoints, ThreadSection, MemorySection, SemSection
    <2>2. /\ lock_status[thread_lock] = 0 /\ lock_status[kernel_memory_lock] = 0
          /\ lock_status[semaphore_lock] = 0 /\ lockcount = 0 /\ ~lock_warned
      BY <1>3, <2>1 DEF GateInv, LocksByPoint
    <2> QED
      BY <1>1, <1>4, <1>5, <2>1, <2>2 DEF LocksByPoint
  <1>7. GateType'
    BY <1>1, <1>2 DEF GateInv, GateType, KmtTypeOK, LockTypeOK
  <1>8. Pooled' = Pooled
    BY <1>1 DEF Pooled
  <1>9. PoolConsistent'
    BY <1>1, <1>2 DEF GateInv, PoolInv, PoolConsistent
  <1>10. PoolInv'
    BY <1>1, <1>8, <1>9 DEF GateInv, PoolInv
  <1>11. ThreadInv'
    BY <1>1, <1>8 DEF GateInv, ThreadInv, ThreadOK
  <1>12. StackInv'
    BY <1>1, <1>8 DEF GateInv, StackInv
  <1>13. UnitInv'
    BY <1>1 DEF GateInv, UnitInv, Holders
  <1> QED
    BY <1>6, <1>7, <1>10, <1>11, <1>12, <1>13 DEF GateInv

(* The search of kmt_schedule ends: if everybody slept, the holder of the  *)
(* file system, or the contender for it, would sleep too.                  *)
LEMMA SomeoneRunnable ==
    ASSUME GateInv
    PROVE  \E i \in Slots : Runnable(i)
  <1> SUFFICES ASSUME \A i \in Slots : ~Runnable(i) PROVE FALSE
    OBVIOUS
  <1>1. sleep \in [Threads -> {0, 1}] /\ thread_pool \in [Slots -> Threads \cup {NULL}]
    BY DEF GateInv, GateType, KmtTypeOK
  <1>2. \A t \in Pooled : t \in Threads /\ sleep[t] = 1
    BY <1>1 DEF Pooled, Runnable
  <1>3. launchd \in Pooled
    BY DEF GateInv, PoolInv
  <1>4. \A t \in Threads : pc[t] # "out" \/ t \in in_vfs => t \in Pooled
    BY DEF GateInv, ThreadInv, ThreadOK
  <1>5. \A t \in Threads : sleep[t] = 1 => pc[t] = "wait_spin" /\ t \notin in_vfs
    BY DEF GateInv, ThreadInv, ThreadOK
  <1>6. Holders = {}
    BY <1>2, <1>4, <1>5 DEF Holders, GateInv, GateType
  <1>7. count[vfs_sem] = 1
    BY <1>6 DEF GateInv, UnitInv
  <1>8. PICK t \in Threads : pc[t] \in {"wait_test", "wait_spin"} /\ sleep[t] = 0
    BY <1>2, <1>3, <1>7 DEF GateInv, UnitInv
  <1> QED
    BY <1>2, <1>4, <1>8

(* While interrupts are on, nobody is halfway through kmt_create or        *)
(* kmt_teardown, so all stacks in the pool are good.                       *)
LEMMA StacksMade ==
    ASSUME GateInv, intr_flag
    PROVE  \A t \in Pooled : stack[t] = "made"
  <1>1. Here \in OpenPoints
    BY DEF GateInv, LocksByPoint
  <1>2. pc[launchd] \in OpenPoints
    BY <1>1, ThreadAssumption DEF GateInv, LocksByPoint, Here
  <1> QED
    BY <1>2 DEF GateInv, StackInv, OpenPoints

LEMMA NoFencePanic ==
    ASSUME GateInv
    PROVE  ~FencePanic
  <1> SUFFICES ASSUME FencePanic PROVE FALSE
    OBVIOUS
  <1>1. /\ current_thread_index # NoIndex
        /\ stack[thread_pool[current_thread_index]] = "broken"
        /\ intr_flag
    BY DEF FencePanic, FencesHold
  <1>2. current # NULL
    BY <1>1 DEF GateInv, PoolInv, PoolConsistent
  <1>3. current \in Pooled /\ thread_pool[current_thread_index] = current
    BY <1>2, CurrentPooled DEF Me
  <1> QED
    BY <1>1, <1>3, StacksMade

-----------------------------------------------------------------------------
LEMMA StepGate == GateInv /\ [Next]_vars => GateInv'
  <1> SUFFICES ASSUME GateInv, [Next]_vars PROVE GateInv'
    OBVIOUS
  <1>1. ASSUME NEW t \in Threads, VfsCall(t) PROVE GateInv'
    BY <1>1, StepVfsCall
  <1>2. ASSUME NEW t \in Threads, Park(t) PROVE GateInv'
    BY <1>2, StepPark
  <1>3. ASSUME NEW t \in Threads, VfsEnd(t) PROVE GateInv'
    BY <1>3, StepVfsEnd
  <1>4. ASSUME NEW t \in Threads, VfsBegin(t) PROVE GateInv'
    BY <1>4, StepVfsBegin
  <1>5. ASSUME NEW t \in Threads, Started(t) PROVE GateInv'
    BY <1>5, StepStarted
  <1>6. ASSUME NEW t \in Threads, Kernel(t) PROVE GateInv'
    BY <1>6, StepCreateFull, StepCreateFind, StepCreateStack, StepTeardownEarlyReturns,
       StepTeardownFind, StepTeardownFree, StepTeardownDrop, StepWaitSleep, StepWaitSpin,
       StepSignalPost DEF Kernel
  <1>7. ASSUME NEW u \in Threads, LaunchdCreate(u) PROVE GateInv'
    BY <1>7, StepLaunchdCreate
  <1>8. ASSUME NEW u \in Threads, LaunchdTeardown(u) PROVE GateInv'
    BY <1>8, StepLaunchdTeardown
  <1>9. ASSUME Interrupt PROVE GateInv'
    <2>1. ~TimerHang /\ ~FencePanic
      BY SomeoneRunnable, NoFencePanic DEF TimerHang
    <2> QED
      BY <1>9, <2>1, StepDispatch DEF Interrupt, TimerInterrupt, Timer
  <1>10. ASSUME UNCHANGED vars PROVE GateInv'
    <2>1. /\ Here' = Here /\ Pooled' = Pooled /\ Holders' = Holders
      BY <1>10 DEF vars, Here, Pooled, Holders
    <2>2. GateType'
      BY <1>10 DEF vars, GateInv, GateType, KmtTypeOK, LockTypeOK
    <2>3. LocksByPoint'
      BY <1>10, <2>1 DEF vars, GateInv, LocksByPoint
    <2>4. PoolInv'
      BY <1>10, <2>1 DEF vars, GateInv, PoolInv, PoolConsistent
    <2>5. ThreadInv' /\ StackInv'
      BY <1>10, <2>1 DEF vars, GateInv, ThreadInv, ThreadOK, StackInv
    <2>6. UnitInv'
      BY <1>10, <2>1 DEF vars, GateInv, UnitInv
    <2> QED
      BY <2>2, <2>3, <2>4, <2>5, <2>6 DEF GateInv
  <1> QED
    BY <1>1, <1>2, <1>3, <1>4, <1>5, <1>6, <1>7, <1>8, <1>9, <1>10 DEF Next, ThreadStep

(* The inductive invariant holds in every state of the kernel, however     *)
(* many threads there are and however large the pool is.                   *)
THEOREM GateInvariant ==
    ASSUME GateOpen
    PROVE  Spec => []GateInv
  BY InitGate, StepGate, PTL DEF Spec

(* At most one thread is between sem_wait(&vfs_sem) and sem_signal: vfs.c  *)
(* may use its tables without a lock of their own.                         *)
THEOREM OneInsideVfs ==
    ASSUME GateOpen
    PROVE  Spec => []VfsExclusive
  <1>1. GateInv => VfsExclusive
    BY DEF GateInv, GateType, UnitInv, Holders, VfsExclusive
  <1> QED
    BY <1>1, GateInvariant, PTL

(* kmt_schedule always finds a thread to run.                              *)
THEOREM SchedulerReturns ==
    ASSUME GateOpen
    PROVE  Spec => []NeverHung
  <1>1. GateInv => NeverHung
    BY DEF GateInv, PoolInv, NeverHung
  <1> QED
    BY <1>1, GateInvariant, PTL

(* The callers in the repository never make a lock be found taken.         *)
THEOREM LocksBalanced ==
    ASSUME GateOpen
    PROVE  Spec => []NoLockWarning
  <1>1. GateInv => NoLockWarning
    BY DEF GateInv, LocksByPoint, NoLockWarning
  <1> QED
    BY <1>1, GateInvariant, PTL

(* A thread inside of the file system is alive, awake and has its stack.   *)
THEOREM HoldersLive ==
    ASSUME GateOpen
    PROVE  Spec => []HolderAlive
  <1>1. ASSUME GateInv PROVE HolderAlive
    <2> SUFFICES ASSUME NEW t \in in_vfs
                 PROVE  t \in Pooled /\ sleep[t] = 0 /\ stack[t] = "made"
      BY DEF HolderAlive
    <2>1. t \in Threads /\ sleep \in [Threads -> {0, 1}]
      BY <1>1 DEF GateInv, GateType, KmtTypeOK
    <2>2. t \in Pooled /\ sleep[t] = 0
      BY <1>1, <2>1 DEF GateInv, ThreadInv, ThreadOK
    <2>3. stack[t] = "made"
      BY <1>1, <2>1, <2>2 DEF GateInv, ThreadInv, ThreadOK, StackInv, ThreadSection
    <2> QED
      BY <2>2, <2>3
  <1> QED
    BY <1>1, GateInvariant, PTL

(* Whenever the timer may strike, every thread it may choose has a frame.  *)
THEOREM DispatchAlwaysSafe ==
    ASSUME GateOpen
    PROVE  Spec => []DispatchSafe
  <1>1. ASSUME GateInv PROVE DispatchSafe
    BY <1>1, StacksMade DEF DispatchSafe
  <1> QED
    BY <1>1, GateInvariant, PTL
-----------------------------------------------------------------------------
(* A step of the callers of vfs.c is one that KmtApi allows, or none.      *)
LEMMA GateStepIsApi ==
    ASSUME GateInv, MaxCount \in [Sems -> Nat \ {0}], [Next]_vars
    PROVE  [ApiNext]_apiVars
  <1>1. ASSUME NEW t \in Threads, VfsCall(t) PROVE ApiNext
    BY <1>1, GateAssumption DEF VfsCall, ApiNext, CallOperation
  <1>2. ASSUME NEW t \in Threads, VfsEnd(t) PROVE ApiNext
    <2>1. count[vfs_sem] = 0
      BY <1>2 DEF VfsEnd, GateInv, UnitInv, Holders
    <2>2. count[vfs_sem] < MaxCount[vfs_sem]
      BY <2>1, GateAssumption
    <2> QED
      BY <1>2, <2>2, GateAssumption DEF VfsEnd, ApiNext, CallOperation
  <1>3. ASSUME NEW t \in Threads, VfsBegin(t) \/ Started(t) \/ Kernel(t) PROVE ApiNext
    <2>1. Proceed(t)
      BY <1>3 DEF VfsBegin, Started, Kernel, Proceed
    <2> QED
      BY <2>1 DEF ApiNext
  <1>4. ASSUME NEW u \in Threads, LaunchdCreate(u) PROVE ApiNext
    BY <1>4, ThreadAssumption DEF LaunchdCreate, ApiNext, CallOperation
  <1>5. ASSUME NEW u \in Threads, LaunchdTeardown(u) PROVE ApiNext
    BY <1>5, ThreadAssumption DEF LaunchdTeardown, ApiNext, CallOperation
  <1>6. ASSUME NEW t \in Threads, Park(t) PROVE UNCHANGED apiVars
    BY <1>6 DEF Park, apiVars, dispatchVars, semVars, lockVars
  <1>7. ASSUME UNCHANGED vars PROVE UNCHANGED apiVars
    BY <1>7 DEF vars, apiVars
  <1>8. ASSUME Interrupt PROVE ApiNext
    BY <1>8 DEF Interrupt, ApiNext
  <1> QED
    BY <1>1, <1>2, <1>3, <1>4, <1>5, <1>6, <1>7, <1>8 DEF Next, ThreadStep

(* The callers of vfs.c make no call that KmtApi leaves out: whatever      *)
(* holds under every sequence of calls holds under theirs.                 *)
THEOREM GateImplementsApi ==
    ASSUME GateOpen, MaxCount \in [Sems -> Nat \ {0}]
    PROVE  Spec => ApiSpec
  <1>1. Init => KmtInit
    BY DEF Init
  <1>2. GateInv /\ [Next]_vars => [ApiNext]_apiVars
    BY GateStepIsApi
  <1> QED
    BY <1>1, <1>2, GateInvariant, PTL DEF Spec, ApiSpec

(* At the gate no signal is lost at all: launchd tears down only threads   *)
(* that have reached their final while (1), never one on its way to the    *)
(* unit of vfs_sem.                                                        *)
THEOREM NoWakeupLostAtGate ==
    ASSUME GateOpen, MaxCount \in [Sems -> Nat \ {0}]
    PROVE  Spec => []NoLostWakeup
  <1>1. Init => NoLostWakeup
    <2> SUFFICES ASSUME Init, NEW s \in Sems PROVE Unattended(s) = 0
      BY DEF NoLostWakeup
    <2>1. Sleepers(s) = {}
      <3>1. Pooled \subseteq Threads
        <4>1. \A i \in Slots : thread_pool[i] \in {launchd, NULL}
          BY DEF Init, KmtInit
        <4> QED
          BY <4>1, ThreadAssumption DEF Pooled
      <3>2. \A t \in Threads : sleep[t] = 0
        BY DEF Init, KmtInit
      <3> QED
        BY <3>1, <3>2 DEF Sleepers, Alive
    <2> QED
      BY <2>1 DEF Unattended
  <1>2. ASSUME GateInv, ApiInv, ApiInv', [ApiNext]_apiVars, NoLostWakeup
        PROVE  NoLostWakeup'
    <2> SUFFICES ASSUME NEW s \in Sems PROVE Unattended(s)' = 0
      BY DEF NoLostWakeup
    <2>1. Unattended(s) = 0
      BY <1>2 DEF NoLostWakeup
    <2>2. Unattended(s)' \in Nat
      BY <1>2, CrowdTypesNext DEF CrowdOK
    <2>3. ASSUME NEW t \in Threads, TeardownFree(t) PROVE arg[t] \notin Contenders(s)
      <3>1. current = t /\ pc[t] \in ThreadSection
        BY <2>3 DEF TeardownFree, At, ThreadSection
      <3>2. pc[arg[t]] = "out"
        BY <1>2, <3>1, LaunchdInside
      <3> QED
        BY <3>2 DEF Contenders
    <2>4. Unattended(s)' <= Unattended(s)
      BY <1>2, <2>3, AttendedStep
    <2> QED
      BY <2>1, <2>2, <2>4
  <1>3. Init => KmtInit
    BY DEF Init
  <1>4. GateInv /\ [Next]_vars => [ApiNext]_apiVars
    BY GateStepIsApi
  <1> QED
    BY <1>1, <1>2, <1>3, <1>4, InitApi, ApiStep, GateInvariant, PTL DEF Spec
=============================================================================
