----------------------------- MODULE MCVfsGate -----------------------------
(* launchd and three more threads for three slots: the pool can be full,   *)
(* and two waiters can queue behind a holder.                              *)
EXTENDS VfsGate

CONSTANTS t1, t2, t3

MCThreads == {launchd, t1, t2, t3}
MCSems == {vfs_sem}
MCInitialCount == [s \in MCSems |-> 1]
MCLocks == {thread_lock, semaphore_lock, kernel_memory_lock}
=============================================================================
