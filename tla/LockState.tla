----------------------------- MODULE LockState -----------------------------
(***************************************************************************)
(* The state of src/libos/simple_lock.c and what its two operations do to  *)
(* it.  The machine has one CPU: a lock keeps other threads out by masking *)
(* the timer interrupt, so besides the status byte of each lock the file   *)
(* keeps how many locks are taken and whether the release of the last one  *)
(* must unmask the interrupts again.                                       *)
(*                                                                         *)
(* SimpleLock interleaves the statements of the two functions; Kmt calls   *)
(* each function as one step.                                              *)
(***************************************************************************)
EXTENDS Integers

CONSTANT Locks          \* the spinlock_t objects of the kernel

VARIABLES
    intr_flag,          \* EFLAGS.IF, read and written by _intr_read, _intr_write
    lock_status,        \* status byte of every lock
    lockcount,          \* number of locks taken
    release_intr,       \* interrupts go on again when lockcount returns to 0
    lock_warned         \* the "locked lock" or "unlocked lock" diagnostic was logged

lockVars == <<intr_flag, lock_status, lockcount, release_intr, lock_warned>>

LockTypeOK ==
    /\ intr_flag \in BOOLEAN
    /\ lock_status \in [Locks -> {0, 1}]
    /\ lockcount \in Nat
    /\ release_intr \in BOOLEAN
    /\ lock_warned \in BOOLEAN

LockInit(enabled) ==
    /\ intr_flag = enabled
    /\ lock_status = [l \in Locks |-> 0]
    /\ lockcount = 0
    /\ release_intr = FALSE
    /\ lock_warned = FALSE

-----------------------------------------------------------------------------
(* Mutant: the nested lock overwrites the flag to restore.                 *)
Overwritten(intr) == intr

(* What the release of the last lock will restore.                         *)
Remembered(intr) == IF lockcount = 0 THEN intr ELSE release_intr

(* simple_lock_try once interrupts are masked; intr is what _intr_read     *)
(* returned before.  A lock found taken is reported and left as it is: the *)
(* caller goes on as if it had taken it.                                   *)
Take(l, intr) ==
    \/ /\ lock_status[l] = 1
       /\ lock_warned' = TRUE
       /\ UNCHANGED <<lock_status, lockcount, release_intr>>
    \/ /\ lock_status[l] # 1
       /\ release_intr' = Remembered(intr)
       /\ lock_status' = [lock_status EXCEPT ![l] = 1]
       /\ lockcount' = lockcount + 1
       /\ UNCHANGED lock_warned

(* Mutant: every release restores the flag, not only the outermost.        *)
AnyRelease(l) == lock_status[l] # 0 /\ release_intr

(* The release after which simple_lock_unlock unmasks interrupts.          *)
LastRelease(l) == lock_status[l] # 0 /\ lockcount = 1 /\ release_intr

(* simple_lock_unlock up to the test of lockcount.                         *)
Drop(l) ==
    \/ /\ lock_status[l] = 0
       /\ lock_warned' = TRUE
       /\ UNCHANGED <<lock_status, lockcount>>
    \/ /\ lock_status[l] # 0
       /\ lockcount' = lockcount - 1
       /\ lock_status' = [lock_status EXCEPT ![l] = 0]
       /\ UNCHANGED lock_warned

-----------------------------------------------------------------------------
(* Mutant: simple_lock_try leaves interrupts on.                           *)
TryUnmasked(l) ==
    /\ UNCHANGED intr_flag
    /\ Take(l, intr_flag)

(* The whole of simple_lock_try and of simple_lock_unlock.                 *)
SimpleLockTry(l) ==
    /\ intr_flag' = FALSE
    /\ Take(l, intr_flag)

SimpleLockUnlock(l) ==
    /\ Drop(l)
    /\ intr_flag' = (intr_flag \/ LastRelease(l))
    /\ UNCHANGED release_intr
=============================================================================
