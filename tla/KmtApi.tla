------------------------------- MODULE KmtApi -------------------------------
(***************************************************************************)
(* The kernel threads under any sequence of calls: any thread may create a *)
(* thread that is not in the pool, tear down any thread (itself, a missing *)
(* one and one that waits for a semaphore included), wait on or signal any *)
(* semaphore, and read the procfs file of any slot of the pool, which      *)
(* src/fs/procfs.c looks up under thread_lock.  A thread may also run over *)
(* the end of its stack: that is the fault kmt.c puts fences for.          *)
(*                                                                         *)
(* One rule is left to the callers, because kmt_create does not look: a    *)
(* thread_t in the pool is not created again, which would put it in two    *)
(* slots with two stacks.                                                  *)
(***************************************************************************)
EXTENDS Kmt

CONSTANT MaxCount       \* bound: no signal when semaphore s has the count MaxCount[s]

apiVars == <<intr_flag, lock_status, lockcount, release_intr, lock_warned,
             mode, thread_pool, current_thread_index, current, stack, sleep,
             current_waiting, count, pc, arg, slot, ret>>

(* proc_read of /proc/i: the name was looked up at some time before, and   *)
(* the thread may be gone.  With the thread there, it is described from    *)
(* its fields into filebuf, and filebuf copied to the caller.              *)
ProcReadCall(t, i) ==
    /\ At(t, "out")
    /\ SimpleLockTry(thread_lock)
    /\ slot' = [slot EXCEPT ![t] = i]
    /\ ret' = [ret EXCEPT ![t] = 0]
    /\ Goto(t, "proc_check")
    /\ UNCHANGED <<mode, thread_pool, dispatchVars, stack, semVars>>

ProcReadGone(t) ==
    /\ At(t, "proc_check")
    /\ thread_pool[slot[t]] = NULL
    /\ SimpleLockUnlock(thread_lock)
    /\ Return(t, -1)
    /\ UNCHANGED <<mode, thread_pool, dispatchVars, stack, semVars>>

ProcReadFound(t) ==
    /\ At(t, "proc_check")
    /\ thread_pool[slot[t]] # NULL
    /\ Goto(t, "proc_text")
    /\ UNCHANGED <<mode, thread_pool, dispatchVars, stack, semVars, slot, ret, lockVars>>

ProcReadText(t) ==
    /\ At(t, "proc_text")
    /\ SimpleLockUnlock(thread_lock)
    /\ Return(t, 0)
    /\ UNCHANGED <<mode, thread_pool, dispatchVars, stack, semVars>>

ProcRead(t) == ProcReadGone(t) \/ ProcReadFound(t) \/ ProcReadText(t)

(* The fault: the running thread writes over a fence of its stack.         *)
Overflow(t) ==
    /\ At(t, "out")
    /\ stack' = [stack EXCEPT ![t] = "broken"]
    /\ UNCHANGED <<mode, thread_pool, dispatchVars, semVars, pc, arg, slot, ret, lockVars>>

CallOperation(t) ==
    \/ \E u \in Threads \ Pooled : CreateCall(t, u)
    \/ \E u \in Threads : TeardownCall(t, u)
    \/ \E s \in Sems : SemWaitCall(t, s)
    \/ \E s \in Sems : count[s] < MaxCount[s] /\ SemSignalCall(t, s)
    \/ \E i \in Slots : ProcReadCall(t, i)

ApiNext ==
    \/ \E t \in Threads : CallOperation(t) \/ Proceed(t) \/ ProcRead(t) \/ Overflow(t)
    \/ TimerInterrupt

ApiSpec == KmtInit /\ [][ApiNext]_apiVars

-----------------------------------------------------------------------------
(* What kmt.c keeps about the threads fits together, in three parts: see   *)
(* Kmt for each.                                                           *)
KmtInv == KmtTypeOK /\ PoolConsistent /\ SleepConsistent

(* Calls of kmt_sem_wait and kmt_sem_signal lose no wake-up, however they  *)
(* are interrupted and whoever overtakes a thread that was woken.  There   *)
(* is one way to lose one: kmt_teardown does not look where its thread is, *)
(* and when it takes the stack of one that was woken and has not run yet,  *)
(* the unit meant for it is there while others go on sleeping.             *)
LostByTeardownOnly ==
    [][\A s \in Sems :
          Unattended(s)' > Unattended(s) =>
             \E t \in Threads : TeardownFree(t) /\ arg[t] \in Contenders(s)]_apiVars

(* A thread that ran over its stack never gives the CPU to another one     *)
(* before the fence is found broken: whoever runs after it would work on   *)
(* memory of which nobody knows what is left.                              *)
OverflowCaught ==
    mode = "run" => \A t \in Threads : stack[t] = "broken" => t = current

(* The thread proc_read describes is in its slot, complete, until the text *)
(* is made: nobody tears it down in between, and none is described that    *)
(* kmt_create has put in the pool but not made yet.                        *)
ProcReadSafe ==
    \A t \in Threads :
        mode = "run" /\ pc[t] = "proc_text" =>
            /\ thread_pool[slot[t]] # NULL
            /\ stack[thread_pool[slot[t]]] \in {"made", "broken"}
=============================================================================
